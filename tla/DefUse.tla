------------------------------ MODULE DefUse -------------------------------
(***************************************************************************)
(* A function of LLVM IR as the passes of src/llvm-passes see it: the kind *)
(* of each instruction, the instructions among its operands in operand     *)
(* order, and the instructions in blocks reachable from the entry.         *)
(* Constants and arguments, which no pass modelled over this graph         *)
(* follows, are left out.  Instructions are numbered in the order in which *)
(* a depth-first walk of the blocks meets them.                            *)
(***************************************************************************)
EXTENDS Naturals, Sequences

CONSTANTS
  N,        \* number of instructions of the function
  Programs  \* the functions considered

Instrs == 1 .. N

NoResult == {"terminator", "store"}       \* never an operand: type void
Kinds == NoResult \cup {"call", "volatile", "value", "phi"}

Program == [kind: [Instrs -> Kinds],
            operands: [Instrs -> Seq(Instrs)],
            reachable: SUBSET Instrs]

Uses(ops, user, i) == \E k \in DOMAIN ops[user] : ops[user][k] = i

(* What LLVM's verifier guarantees of the def-use graph: void instructions *)
(* have no users; outside of phis, reachable code uses what dominates it,  *)
(* hence what the walk meets earlier.  Unreachable code may use anything.  *)
WellFormed(p) ==
  /\ \A u, i \in Instrs : Uses(p.operands, u, i) => p.kind[i] \notin NoResult
  /\ \A u \in p.reachable : p.kind[u] # "phi" =>
       \A i \in Instrs :
         Uses(p.operands, u, i) => i < u /\ i \in p.reachable

ASSUME NAssumption == N \in Nat
ASSUME ProgramsAssumption == \A p \in Programs : p \in Program /\ WellFormed(p)

HasEffect(p, i) == p.kind[i] \in {"terminator", "call", "store", "volatile"}

(* The instructions a run of the function needs for their own sake.        *)
EffectsOf(p) == {i \in p.reachable : HasEffect(p, i)}

(* Some instruction has two different users.                               *)
HasShared(p) ==
  \E i, u, v \in Instrs :
    u # v /\ Uses(p.operands, u, i) /\ Uses(p.operands, v, i)

============================================================================
