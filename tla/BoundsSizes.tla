---------------------------- MODULE BoundsSizes ----------------------------
(***************************************************************************)
(* The checks the bounds checker inserts into one function:                *)
(* instrumentGeps, gepOffsetAccumulator and determineArraySize of          *)
(* src/llvm-passes/BoundsChecker.cpp.                                      *)
(*                                                                         *)
(* The recursion of determineArraySize over the phis is the stack "phis".  *)
(* An array and its size have the same name, so has a phi of pointers and  *)
(* the phi of sizes created for it.                                        *)
(***************************************************************************)
EXTENDS ControlFlow, Integers, SequencesExt

CONSTANTS
  N,            \* number of phis and GEPs, numbered in the order of the function
  Parameters,   \* the parameter lists considered
  Functions(_)  \* the functions considered that have these parameters

Instrs == 1 .. N

(* Where pointers come from: a local array, main's argv, the array of a    *)
(* string; a load; another constant (null, undef, a constant expression);  *)
(* anything else (the result of a call, a global that is no array).        *)
Alloca == -1
Argv == -2
String == -3
Load == -4
Constant == -5
Else == -6
Arrays == {Alloca, Argv, String}

(* Parameters but argv are numbered after the instructions.                *)
Argument(k) == N + k
IsArgument(o) == o > N

\* The constants 0 and 1 where a size is expected.
Zero == -7
One == -8

None == 0

VARIABLES
  function,  \* a GEP has one operand, a phi one per predecessor; sizeOf tells
             \* whose size each parameter was added for, 0 if it was not added
  pc,
  next,      \* the instruction looked at by instrumentGeps
  V,         \* the argument of determineArraySize
  phis,      \* the phis whose sizes are being determined
  sizeMap,   \* the phis entered in sizeMap
  sizePHI,   \* the incoming sizes added so far to each phi of sizes
  checks,    \* offset and size passed to each call of __coco_check_bounds
  insertAt,  \* the builder inserts before this GEP; None: after the entry block's terminator
  adds       \* the additions argc + 1: where they are and for whom

vars == <<function, pc, next, V, phis, sizeMap, sizePHI, checks, insertAt, adds>>

IsGep(i) == i \in Instrs /\ function.kind[i] = "gep"
IsPhi(i) == i \in Instrs /\ function.kind[i] = "phi"
Pointer(g) == function.operands[g][1]
Incoming(p) == SetToSortSeq(Predecessors(function.block[p]), <)

Init ==
  /\ \E sizeOf \in Parameters : function \in Functions(sizeOf)
  /\ pc = "scan"
  /\ next = 1
  /\ V = None
  /\ phis = <<>>
  /\ sizeMap = {}
  /\ sizePHI = [i \in Instrs |-> <<>>]
  /\ checks = <<>>
  /\ insertAt = None
  /\ adds = {}

----------------------------------------------------------------------------
(* Offsets                                                                 *)

\* The first index of a GEP; it is zero where a string decays to a pointer.
Index(g) == IF Pointer(g) = String THEN <<>> ELSE <<g>>

\* Mutant: only the last index counts.
LastIndex(g) == Index(g)

\* The sum of the indices of a chain of GEPs, as a sequence.
gepOffsetAccumulator(g) ==
  LET offset[i \in Instrs] ==
        IF IsGep(Pointer(i)) THEN offset[Pointer(i)] \o Index(i) ELSE Index(i)
  IN offset[g]

----------------------------------------------------------------------------
(* instrumentGeps                                                          *)

Instrumented(i) == IsGep(i) /\ Pointer(i) # String

SkipInstruction ==
  /\ pc = "scan" /\ next \in Instrs
  /\ ~ Instrumented(next)
  /\ next' = next + 1
  /\ UNCHANGED <<function, pc, V, phis, sizeMap, sizePHI, checks, insertAt, adds>>

(* The offset is accumulated, which moves the builder to the GEP if there  *)
(* is something to add, and the size is asked for.                         *)
VisitGep ==
  /\ pc = "scan" /\ next \in Instrs
  /\ Instrumented(next)
  /\ insertAt' = IF IsGep(Pointer(next)) THEN next ELSE insertAt
  /\ V' = Pointer(next)
  /\ pc' = "size"
  /\ UNCHANGED <<function, next, phis, sizeMap, sizePHI, checks, adds>>

EndScan ==
  /\ pc = "scan" /\ next = N + 1
  /\ pc' = "done"
  /\ UNCHANGED <<function, next, V, phis, sizeMap, sizePHI, checks, insertAt, adds>>

----------------------------------------------------------------------------
(* determineArraySize                                                      *)

\* Returns size to the phi that waits for it, or else to instrumentGeps,
\* which creates the call of __coco_check_bounds before the GEP.
Return(size, waiting) ==
  /\ phis' = waiting
  /\ V' = None
  /\ IF waiting # <<>>
       THEN /\ sizePHI' = [sizePHI EXCEPT ![Last(waiting)] = Append(@, size)]
            /\ pc' = "phi"
            /\ UNCHANGED <<next, checks, insertAt>>
       ELSE /\ checks' = checks @@ (next :> [offset |-> gepOffsetAccumulator(next),
                                             size |-> size])
            /\ insertAt' = next
            /\ next' = next + 1
            /\ pc' = "scan"
            /\ UNCHANGED sizePHI

ReturnArraySize ==
  /\ pc = "size" /\ V \in {Alloca, String}
  /\ Return(V, phis)
  /\ UNCHANGED <<function, sizeMap, adds>>

ReturnConstant ==
  /\ pc = "size" /\ V \in {Constant, Else}
  /\ Return(IF V = Constant THEN One ELSE Zero, phis)
  /\ UNCHANGED <<function, sizeMap, adds>>

(* The size of a parameter is the next one, whatever that is.              *)
getNextOperand ==
  /\ pc = "size" /\ IsArgument(V) /\ V - N < Len(function.sizeOf)
  /\ Return(V + 1, phis)
  /\ UNCHANGED <<function, sizeMap, adds>>

(* After the last parameter the iterator points to no argument.            *)
NoNextOperand ==
  /\ pc = "size" /\ IsArgument(V) /\ V - N = Len(function.sizeOf)
  /\ pc' = "undefined"
  /\ UNCHANGED <<function, next, V, phis, sizeMap, sizePHI, checks, insertAt, adds>>

ReturnArgvSize ==
  /\ pc = "size" /\ V = Argv
  /\ adds' = adds \cup {[at |-> insertAt,
                         for |-> IF phis = <<>> THEN next ELSE Last(phis)]}
  /\ Return(V, phis)
  /\ UNCHANGED <<function, sizeMap>>

LoadFails ==
  /\ pc = "size" /\ V = Load
  /\ pc' = "fatal"
  /\ UNCHANGED <<function, next, V, phis, sizeMap, sizePHI, checks, insertAt, adds>>

SizeOfGep ==
  /\ pc = "size" /\ IsGep(V)
  /\ V' = Pointer(V)
  /\ UNCHANGED <<function, pc, next, phis, sizeMap, sizePHI, checks, insertAt, adds>>

ReturnMapped ==
  /\ pc = "size" /\ V \in sizeMap
  /\ Return(V, phis)
  /\ UNCHANGED <<function, sizeMap, adds>>

(* A phi is entered in sizeMap only at the end, so it may be begun again   *)
(* while it waits: with all phis waiting, the recursion has no end.        *)
BeginPhi ==
  /\ pc = "size" /\ IsPhi(V) /\ V \notin sizeMap
  /\ Len(phis) < N
  /\ phis' = Append(phis, V)
  /\ sizePHI' = [sizePHI EXCEPT ![V] = <<>>]
  /\ V' = None
  /\ pc' = "phi"
  /\ UNCHANGED <<function, next, sizeMap, checks, insertAt, adds>>

StackOverflow ==
  /\ pc = "size" /\ IsPhi(V) /\ V \notin sizeMap
  /\ Len(phis) = N
  /\ pc' = "overflow"
  /\ UNCHANGED <<function, next, V, phis, sizeMap, sizePHI, checks, insertAt, adds>>

NumIncoming(p) == Len(Incoming(p))

\* Mutant: the size of the first incoming value is taken for all others.
AddIncomingFirst ==
  /\ pc = "phi"
  /\ LET p == Last(phis)
         added == Len(sizePHI[p])
     IN /\ added < NumIncoming(p)
        /\ LET value == function.operands[p][added + 1] IN
           IF added > 0
             THEN /\ sizePHI' = [sizePHI EXCEPT ![p] = Append(@, @[1])]
                  /\ UNCHANGED <<pc, V>>
             ELSE /\ V' = value
                  /\ pc' = "size"
                  /\ UNCHANGED sizePHI
  /\ UNCHANGED <<function, next, phis, sizeMap, checks, insertAt, adds>>

\* Mutant: a phi that is its own operand is not told apart.
AddIncomingAlike ==
  /\ pc = "phi"
  /\ Len(sizePHI[Last(phis)]) < NumIncoming(Last(phis))
  /\ V' = function.operands[Last(phis)][Len(sizePHI[Last(phis)]) + 1]
  /\ pc' = "size"
  /\ UNCHANGED <<function, next, phis, sizeMap, sizePHI, checks, insertAt, adds>>

AddIncoming ==
  /\ pc = "phi"
  /\ LET p == Last(phis)
         added == Len(sizePHI[p])
     IN /\ added < NumIncoming(p)
        /\ LET value == function.operands[p][added + 1] IN
           IF value = p
             THEN /\ sizePHI' = [sizePHI EXCEPT ![p] = Append(@, p)]
                  /\ UNCHANGED <<pc, V>>
             ELSE /\ V' = value
                  /\ pc' = "size"
                  /\ UNCHANGED sizePHI
  /\ UNCHANGED <<function, next, phis, sizeMap, checks, insertAt, adds>>

EndPhi ==
  /\ pc = "phi"
  /\ LET p == Last(phis) IN
     /\ Len(sizePHI[p]) = NumIncoming(p)
     /\ sizeMap' = sizeMap \cup {p}
     /\ Return(p, Front(phis))
  /\ UNCHANGED <<function, adds>>

Finished == pc \in {"done", "fatal", "undefined", "overflow"} /\ UNCHANGED vars

Next ==
  \/ SkipInstruction \/ VisitGep \/ EndScan
  \/ ReturnArraySize \/ ReturnArgvSize \/ ReturnConstant \/ LoadFails
  \/ getNextOperand \/ NoNextOperand
  \/ SizeOfGep \/ ReturnMapped
  \/ BeginPhi \/ StackOverflow \/ AddIncoming \/ EndPhi
  \/ Finished

Spec == Init /\ [][Next]_vars

----------------------------------------------------------------------------
(* Executions of the function with its checks                              *)

\* What a pointer points to, and the size a name stands for.
PointerValue(env, o) == IF o \in Instrs THEN env[o] ELSE [array |-> o, offset |-> <<>>]
Holds(p) ==
  LET of == function.sizeOf[p - N] IN IF of = 0 THEN p ELSE Argument(of)
SizeValue(env, s) ==
  CASE s \in Instrs -> env[s]
    [] IsArgument(s) -> Holds(s)
    [] OTHER -> s

\* Executes i; block was entered with the values of run and from its
\* from-th predecessor.
ExecuteInstr(entry, from, run, i) ==
  LET base == PointerValue(run.pointers, Pointer(i)) IN
  IF IsPhi(i)
    THEN [run EXCEPT
            !.pointers[i] = PointerValue(entry.pointers, function.operands[i][from]),
            !.sizes[i] = IF sizePHI[i] = <<>> THEN None
                         ELSE SizeValue(entry.sizes, sizePHI[i][from])]
    ELSE [run EXCEPT
            !.pointers[i] = [base EXCEPT !.offset = @ \o Index(i)],
            !.passed = @ \cup
              (IF i \in DOMAIN checks
                 THEN {[gep |-> i, pointer |-> [base EXCEPT !.offset = @ \o Index(i)],
                        size |-> SizeValue(run.sizes, checks[i].size)]}
                 ELSE {})]

ExecuteBlock(run, b) ==
  LET from == IF b = 1 THEN 0
              ELSE CHOOSE k \in 1 .. B : k \in DOMAIN SetToSortSeq(Predecessors(b), <)
                                         /\ SetToSortSeq(Predecessors(b), <)[k] = run.block
  IN [FoldLeft(LAMBDA r, i : ExecuteInstr(run, from, r, i), run,
               SelectSeq([i \in Instrs |-> i], LAMBDA i : function.block[i] = b))
        EXCEPT !.block = b]

Execute(path) ==
  FoldLeft(ExecuteBlock,
           [pointers |-> [i \in Instrs |-> [array |-> None, offset |-> <<>>]],
            sizes |-> [i \in Instrs |-> None], block |-> 0, passed |-> {}],
           path)

PathLength == B + 3   \* bound: blocks of an execution considered

----------------------------------------------------------------------------
(* Properties                                                              *)

Arguments == {Argument(k) : k \in DOMAIN function.sizeOf}

(* Types; a phi of sizes that is used has a size for every predecessor.    *)
TypeOK ==
  /\ pc \in {"scan", "size", "phi", "done", "fatal", "undefined", "overflow"}
  /\ next \in 1 .. N + 1 /\ insertAt \in 0 .. N
  /\ V \in Instrs \cup Arguments \cup Arrays \cup {Load, Constant, Else, None}
  /\ phis \in Seq(Instrs)
  /\ \A p \in sizeMap : IsPhi(p) /\ Len(sizePHI[p]) = Len(Incoming(p))
  /\ \A g \in DOMAIN checks :
       IsGep(g) /\ checks[g].size \in Instrs \cup Arguments \cup Arrays \cup {Zero, One}

HasItsSize(array) ==
  \/ array \in Arrays
  \/ IsArgument(array) /\ Holds(array + 1) = array

(* What is passed for a pointer into an array whose size is not passed:    *)
(* the parameter after it, 1 for constants and 0 for anything else.        *)
StandIn(array) ==
  CASE IsArgument(array) -> Holds(array + 1)
    [] array = Constant -> One
    [] array = Else -> Zero

(* On every path, the size passed to a check is the size of the array that *)
(* the pointer points into there - a local one, argv, a string, or a       *)
(* parameter whose size was added directly after it - and every GEP is     *)
(* checked but those that make a string a pointer.  For other parameters   *)
(* the next one is taken for their size (BoundsChecker.cpp:47; an integer, *)
(* another array, or the size of an array before them), for other          *)
(* constants 1 (:72), and for results of calls, and globals that are no    *)
(* arrays, 0 (:124), although the checks are there to let accesses in      *)
(* bounds pass.  Where the size of argv is computed for a GEP on another   *)
(* GEP, it is computed before that GEP, in spite of what the builder was   *)
(* last used for.  (For a GEP on argv itself, or a phi, it is computed     *)
(* where the builder was left, behind the entry block's terminator at      *)
(* first.)                                                                 *)
SizesExact ==
  /\ TypeOK
  /\ pc = "done" =>
       /\ DOMAIN checks = {g \in Instrs : Instrumented(g)}
       /\ \A path \in Paths(PathLength) :
            \A call \in Execute(path).passed :
              LET array == call.pointer.array IN
              call.size = IF HasItsSize(array) THEN array ELSE StandIn(array)
  /\ \A add \in adds :
       IsGep(add.for) /\ IsGep(Pointer(add.for)) =>
         /\ add.at \in 1 .. add.for
         /\ Dominates(function.block[add.at], function.block[add.for])

\* Phis that the pointer o may come from, through GEPs and further phis.
Sources(o) ==
  LET strip[x \in Instrs] == IF ~ IsGep(x) THEN {x}
                             ELSE IF Pointer(x) \in Instrs THEN strip[Pointer(x)] ELSE {}
      reached[n \in 0 .. N] ==
        IF n = 0 THEN IF o \in Instrs THEN strip[o] ELSE {}
        ELSE LET before == reached[n - 1] IN
             before \cup UNION {strip[x] : x \in UNION {Range(function.operands[p]) \cap Instrs :
                                                          p \in before}}
  IN reached[N]

\* Some phi the pointer may come from merges pointers to elements.
MergesElements(o) ==
  \E p \in Sources(o) : \E k \in DOMAIN function.operands[p] :
    IsGep(function.operands[p][k]) /\ Pointer(function.operands[p][k]) # String

(* On every path, the offset passed to a check is the whole distance from  *)
(* the start of the array, unless the pointer comes from a phi that merges *)
(* pointers to elements.                                                   *)
OffsetsExactUnlessMerged ==
  pc = "done" =>
    \A path \in Paths(PathLength) : \A call \in Execute(path).passed :
      \/ MergesElements(Pointer(call.gep))
      \/ checks[call.gep].offset = call.pointer.offset

(* The recursion overflows the stack exactly in functions in which a phi   *)
(* comes, through GEPs or other phis, from itself; being its own operand   *)
(* is no harm.                                                             *)
Cyclic(o) ==
  \E p \in Sources(o) : \E k \in DOMAIN function.operands[p] :
    LET value == function.operands[p][k] IN value # p /\ p \in Sources(value)

OverflowOnlyOnCycles ==
  /\ pc = "overflow" => Cyclic(Pointer(next))
  /\ pc = "done" => \A g \in DOMAIN checks : ~ Cyclic(Pointer(g))

============================================================================
