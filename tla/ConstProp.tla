----------------------------- MODULE ConstProp -----------------------------
(***************************************************************************)
(* The constant propagation pass, src/llvm-passes/ConstProp.cpp: one call  *)
(* of runOnFunction.                                                       *)
(*                                                                         *)
(* A function is abstracted to its binary operators, numbered in the order *)
(* of the depth-first walk, which meets what dominates an instruction      *)
(* before the instruction.  Everything else (arguments, loads, phis, ...)  *)
(* yields an unknown value, and uses binary operators from "outside".      *)
(* Integers have Width bits.                                               *)
(***************************************************************************)
EXTENDS Integers, Sequences, FiniteSets

CONSTANTS
  Width,      \* bits of the integer type
  N,          \* binary operators of the function
  Opcodes,    \* opcodes they may have
  Constants,  \* constants they may use
  Unknowns    \* number of values the pass knows nothing about

ASSUME WidthAssumption == Width \in Nat \ {0}
ASSUME SizeAssumption == N \in Nat /\ Unknowns \in Nat

\* The powers of two up to the first that does not fit.
Power[k \in 0 .. Width] == IF k = 0 THEN 1 ELSE 2 * Power[k - 1]
Modulus == Power[Width]
Words == 0 .. Modulus - 1
ASSUME ConstantsAssumption == Constants \subseteq Words

Instrs == 1 .. N

AllOpcodes == {"add", "sub", "mul", "shl", "ashr", "lshr", "udiv", "sdiv",
               "urem", "srem", "and", "or", "xor"}
ASSUME OpcodesAssumption == Opcodes \subseteq AllOpcodes

\* Values an operand may be; "neg" n is the negation inserted before n.
Const(c) == [kind |-> "const", n |-> c]
Unknown(u) == [kind |-> "unknown", n |-> u]
Ins(i) == [kind |-> "ins", n |-> i]
Neg(i) == [kind |-> "neg", n |-> i]

OperandsBefore(i) ==
  {Const(c) : c \in Constants} \cup {Unknown(u) : u \in 1 .. Unknowns}
    \cup {Ins(j) : j \in 1 .. i - 1}

VARIABLES
  function,         \* opcode, lhs and rhs of each binary operator
  outside,          \* for each operator used outside: the value used there now
  original,         \* (history) the function as it was given
  reachableBlocks,  \* operators whose blocks the walks have entered so far
  next,             \* the operator FixedPointROF looks at next
  ret,              \* has this walk changed something?
  updated,          \* -1, plus one for each change
  pc

vars == <<function, outside, original, reachableBlocks, next, ret, updated, pc>>

----------------------------------------------------------------------------
(* Arithmetic                                                              *)

Signed(a) == IF 2 * a >= Modulus THEN a - Modulus ELSE a
Word(n) == n % Modulus

\* Division that rounds towards zero, and its remainder.
Quotient(a, b) ==
  LET q == (IF a < 0 THEN - a ELSE a) \div (IF b < 0 THEN - b ELSE b)
  IN IF (a < 0) = (b < 0) THEN q ELSE - q
Remainder(a, b) == a - b * Quotient(a, b)

Bits == 0 .. Width - 1
Bit(a, k) == (a \div Power[k]) % 2
FromBits(bits) ==
  LET sum[k \in 0 .. Width] ==
        IF k = 0 THEN 0 ELSE sum[k - 1] + bits[k - 1] * Power[k - 1]
  IN sum[Width]

MinOf(a, b) == IF a < b THEN a ELSE b

(* What LLVM's APInt computes, which is total but for a zero divisor:      *)
(* results wrap around, and a shift by Width or more shifts everything     *)
(* out.                                                                    *)
APInt(op, a, b) ==
  LET shift == MinOf(b, Width) IN
  CASE op = "add"  -> Word(a + b)
    [] op = "sub"  -> Word(a - b)
    [] op = "mul"  -> Word(a * b)
    [] op = "shl"  -> Word(a * Power[shift])
    [] op = "ashr" -> Word(Signed(a) \div Power[shift])
    [] op = "lshr" -> a \div Power[shift]
    [] op = "udiv" -> a \div b
    [] op = "sdiv" -> Word(Quotient(Signed(a), Signed(b)))
    [] op = "urem" -> a % b
    [] op = "srem" -> Word(Remainder(Signed(a), Signed(b)))
    [] op = "and"  -> FromBits([k \in Bits |-> Bit(a, k) * Bit(b, k)])
    [] op = "or"   -> FromBits([k \in Bits |-> IF Bit(a, k) + Bit(b, k) > 0 THEN 1 ELSE 0])
    [] op = "xor"  -> FromBits([k \in Bits |-> (Bit(a, k) + Bit(b, k)) % 2])

Divisions == {"udiv", "sdiv", "urem", "srem"}
Shifts == {"shl", "ashr", "lshr"}

----------------------------------------------------------------------------
(* The rules of the pass: the value that replaces operator op on x and y,  *)
(* or NoRule.                                                              *)

NoRule == [kind |-> "none", n |-> 0]
Zero == Const(0)
One == Const(1)

\* Mutant: 0 - x is replaced by x.
LeftRuleNoNeg(i, op, x, y) ==
  CASE x = Zero /\ op \in {"add", "sub", "or", "xor"} -> y
    [] x = Zero /\ op \in Divisions \cup Shifts \cup {"mul", "and"} -> Zero
    [] x = One /\ op = "mul" -> y
    [] x = One /\ op = "urem" -> One
    [] OTHER -> NoRule

\* Left operand constant (ConstProp.cpp:157).
LeftRule(i, op, x, y) ==
  CASE x = Zero /\ op \in {"add", "or", "xor"} -> y
    [] x = Zero /\ op = "sub" -> Neg(i)
    [] x = Zero /\ op \in Divisions \cup Shifts \cup {"mul", "and"} -> Zero
    [] x = One /\ op = "mul" -> y
    [] x = One /\ op = "urem" -> One
    [] OTHER -> NoRule

\* Right operand constant (ConstProp.cpp:266).
RightRule(op, x, y) ==
  CASE y = Zero /\ op \in {"add", "sub", "or", "xor"} \cup Shifts -> x
    [] y = Zero /\ op \in {"mul", "and"} -> Zero
    [] y = One /\ op \in {"mul", "udiv", "sdiv"} -> x
    [] y = One /\ op \in {"urem", "srem"} -> Zero
    [] OTHER -> NoRule

IsConst(x) == x.kind = "const"

Replacement(i, op, x, y) ==
  CASE IsConst(x) /\ IsConst(y) -> Const(APInt(op, x.n, y.n))
    [] IsConst(x) /\ ~ IsConst(y) -> LeftRule(i, op, x, y)
    [] ~ IsConst(x) /\ IsConst(y) -> RightRule(op, x, y)
    [] ~ IsConst(x) /\ ~ IsConst(y) -> IF x = y /\ op = "sub" THEN Zero ELSE NoRule

\* Every rule but the last (x - x) leaves an operator without uses alone.
ChecksUses(x, y) == IsConst(x) \/ IsConst(y)

----------------------------------------------------------------------------
(* The pass                                                                *)

UseEmpty(i) ==
  /\ \A j \in Instrs : function.lhs[j] # Ins(i) /\ function.rhs[j] # Ins(i)
  /\ \A j \in DOMAIN outside : outside[j] # Ins(i)

ReplaceAllUsesWith(i, v) ==
  LET Subst(x) == IF x = Ins(i) THEN v ELSE x IN
  /\ function' = [function EXCEPT !.lhs = [j \in Instrs |-> Subst(@[j])],
                                  !.rhs = [j \in Instrs |-> Subst(@[j])]]
  /\ outside' = [j \in DOMAIN outside |-> Subst(outside[j])]

Op(i) == function.opcode[i]

\* Mutant: a zero dividend is refused as well.
DividesOrIsZero(i) ==
  /\ IsConst(function.lhs[i]) /\ IsConst(function.rhs[i])
  /\ Zero \in {function.lhs[i], function.rhs[i]}
  /\ Op(i) \in Divisions

\* APInt's assertion: constants are divided before uses are looked at.
DividesByZero(i) ==
  /\ IsConst(function.lhs[i]) /\ function.rhs[i] = Zero
  /\ Op(i) \in Divisions

\* Mutant: the iterator is advanced once more after a replacement.
ApplyAndSkip(i, v) ==
  /\ ReplaceAllUsesWith(i, v)
  /\ ret' = TRUE
  /\ updated' = updated + 1
  /\ next' = MinOf(next + 2, N + 1)
  /\ UNCHANGED <<original, reachableBlocks, pc>>

Apply(i, v) ==
  /\ ReplaceAllUsesWith(i, v)
  /\ ret' = TRUE
  /\ updated' = updated + 1
  /\ next' = next + 1
  /\ UNCHANGED <<original, reachableBlocks, pc>>

Skip ==
  /\ next' = next + 1
  /\ UNCHANGED <<function, outside, original, reachableBlocks, ret, updated, pc>>

Visit(i) ==
  LET x == function.lhs[i]
      y == function.rhs[i]
      v == Replacement(i, Op(i), x, y)
      idle == v = NoRule \/ (ChecksUses(x, y) /\ UseEmpty(i))
  IN \/ idle /\ Skip
     \/ ~ idle /\ Apply(i, v)

(* One operator of the walk, in a block this walk has just entered.        *)
VisitInstruction ==
  /\ pc = "walk" /\ next \in Instrs
  /\ ~ DividesByZero(next)
  /\ Visit(next)

AssertionFails ==
  /\ pc = "walk" /\ next \in Instrs
  /\ DividesByZero(next)
  /\ pc' = "failed"
  /\ UNCHANGED <<function, outside, original, reachableBlocks, next, ret, updated>>

\* Mutant: ret is not local to the walk.
BeginWalkKeepRet ==
  /\ pc = "begin"
  /\ next' = IF reachableBlocks = Instrs /\ N > 0 THEN N + 1 ELSE 1
  /\ reachableBlocks' = Instrs
  /\ pc' = "walk"
  /\ UNCHANGED <<function, outside, original, ret, updated>>

(* FixedPointROF begins.  reachableBlocks is a member that is never        *)
(* cleared: blocks entered by an earlier walk are not entered again.       *)
BeginWalk ==
  /\ pc = "begin"
  /\ ret' = FALSE
  /\ next' = IF reachableBlocks = Instrs /\ N > 0 THEN N + 1 ELSE 1
  /\ reachableBlocks' = Instrs
  /\ pc' = "walk"
  /\ UNCHANGED <<function, outside, original, updated>>

(* runOnFunction walks again as long as walks change something.            *)
EndWalk ==
  /\ pc = "walk" /\ next = N + 1
  /\ pc' = IF ret THEN "begin" ELSE "done"
  /\ UNCHANGED <<function, outside, original, reachableBlocks, next, ret, updated>>

Init ==
  /\ \E opcode \in [Instrs -> Opcodes] :
     \E operands \in {f \in [Instrs -> OperandsBefore(N) \X OperandsBefore(N)] :
                        \A i \in Instrs : f[i][1] \in OperandsBefore(i)
                                          /\ f[i][2] \in OperandsBefore(i)} :
       function = [opcode |-> opcode,
                   lhs |-> [i \in Instrs |-> operands[i][1]],
                   rhs |-> [i \in Instrs |-> operands[i][2]]]
  /\ \E used \in SUBSET Instrs : outside = [i \in used |-> Ins(i)]
  /\ original = function
  /\ reachableBlocks = {}
  /\ next = 1
  /\ ret = FALSE
  /\ updated = -1
  /\ pc = "begin"

Finished == pc \in {"done", "failed"} /\ UNCHANGED vars

Next ==
  \/ BeginWalk \/ VisitInstruction \/ AssertionFails \/ EndWalk \/ Finished

(* One thread runs the pass to its end.                                    *)
Spec == Init /\ [][Next]_vars /\ WF_vars(Next)

----------------------------------------------------------------------------
(* What a function computes                                                *)

Poison == -1

\* The result of an operator by LLVM's language reference: a shift by Width
\* or more yields poison.
Result(op, a, b) ==
  IF a = Poison \/ b = Poison \/ (op \in Shifts /\ b >= Width) THEN Poison
  ELSE APInt(op, a, b)

\* Executing the operator is undefined: no divisor, or quotient overflow.
Undefined(op, a, b) ==
  /\ op \in Divisions
  /\ \/ b \in {0, Poison}
     \/ op \in {"sdiv", "srem"} /\ b = Word(-1) /\ a \in {Modulus \div 2, Poison}

(* The value of an operand, given what the operators before it computed    *)
(* and the unknown values.                                                 *)
ValueOf(x, run, env) ==
  CASE x.kind = "const" -> x.n
    [] x.kind = "unknown" -> env[x.n]
    [] x.kind = "ins" -> run[x.n].ins
    [] x.kind = "neg" -> run[x.n].neg

(* What operator i and the negation before it compute; an undefined        *)
(* operator has value Poison.                                              *)
Outcome(f, i, run, env) ==
  LET a == ValueOf(f.lhs[i], run, env)
      b == ValueOf(f.rhs[i], run, env)
  IN [ins |-> IF Undefined(f.opcode[i], a, b) THEN Poison
                                              ELSE Result(f.opcode[i], a, b),
      neg |-> Result("sub", 0, b),
      undefined |-> Undefined(f.opcode[i], a, b),
      unitRemainder |-> f.opcode[i] = "urem" /\ a = 1 /\ b = 1]

(* The operators are executed in their order.                              *)
Run(f, env) ==
  LET run[i \in 0 .. N] ==
        IF i = 0 THEN <<>>
        ELSE LET before == run[i - 1]
             IN Append(before, Outcome(f, i, before, env))
  IN run[N]

Environments == [1 .. Unknowns -> Words]

Preserved(env) ==
  LET before == Run(original, env)
      after == Run(function, env)
  IN (\A i \in Instrs : ~ before[i].undefined) =>
       /\ \A i \in Instrs : ~ after[i].undefined
       /\ \A i \in DOMAIN outside :
            before[i].ins \in {Poison, ValueOf(outside[i], after, env)}

----------------------------------------------------------------------------
(* Properties                                                              *)

(* Types of the pass's state.                                              *)
TypeOK ==
  /\ DOMAIN function.opcode = Instrs /\ DOMAIN original.opcode = Instrs
  /\ \A i \in Instrs : function.opcode[i] \in Opcodes
  /\ \A i \in Instrs : {function.lhs[i].n, function.rhs[i].n} \subseteq
                         Words \cup Instrs \cup 1 .. Unknowns
  /\ DOMAIN outside \subseteq Instrs
  /\ reachableBlocks \subseteq Instrs
  /\ next \in 1 .. N + 1
  /\ ret \in BOOLEAN
  /\ updated \in -1 .. N - 1
  /\ pc \in {"begin", "walk", "done", "failed"}

(* The function computes what it computed: every value used outside is the *)
(* same, and no operator becomes undefined, whatever the unknown values    *)
(* are, in every execution that computes no unsigned 1 % 1: 1 urem x is    *)
(* replaced by 1 for every x (ConstProp.cpp:258).                          *)
PreservesOtherValues ==
  pc = "done" =>
    \A env \in Environments :
      (\E i \in Instrs : Run(original, env)[i].unitRemainder) \/ Preserved(env)

\* x is an operand, or used outside.
InUse(x) ==
  \/ \E j \in Instrs : x \in {function.lhs[j], function.rhs[j]}
  \/ \E j \in DOMAIN outside : outside[j] = x

(* One walk is enough.  The loop of runOnFunction asks for a fixed point,  *)
(* but its later walks enter no block; still no operator of the given      *)
(* function that is in use is left with two constant operands, or with a   *)
(* rule that would simplify it.  The exception are the negations 0 - x the *)
(* pass puts in (ConstProp.cpp:168): one that is in use negates no         *)
(* constant, but the rule that made it (:165) still applies to it, and     *)
(* would put in another negation of the same x.                            *)
NothingLeftToFold ==
  /\ TypeOK
  /\ pc = "done" =>
       \A i \in Instrs :
         /\ \/ UseEmpty(i)
            \/ Replacement(i, Op(i), function.lhs[i], function.rhs[i]) = NoRule
         /\ InUse(Neg(i)) =>
              Replacement(i, "sub", Zero, function.rhs[i]) = Neg(i)

(* The pass makes the compiler fail (APInt asserts) only on a division     *)
(* whose divisor is zero, or poison, in every execution - even when none   *)
(* reaches it.                                                             *)
FailsOnlyOnZeroDivisor ==
  pc = "failed" =>
    \A env \in Environments :
      LET run == Run(original, env) IN
      \/ \E i \in Instrs : run[i].unitRemainder
      \/ ValueOf(original.rhs[next], run, env) \in {0, Poison}

(* The pass ends, although two of its rules could be applied for ever.     *)
Terminates == <>(pc \in {"done", "failed"})

============================================================================
