------------------------------ MODULE MCADCE -------------------------------
(***************************************************************************)
(* Every well-formed def-use graph with three instructions, of which the   *)
(* last may be unreachable, at most MaxOperands operands per reachable     *)
(* instruction (one per unreachable one) and the kinds the pass tells      *)
(* apart ("store" stands for terminators too, "volatile" for calls too),   *)
(* besides an unreachable instruction that uses nothing; and those with    *)
(* three reachable instructions and a fourth, unreachable value, with at   *)
(* most one operand each.                                                  *)
(***************************************************************************)
EXTENDS ADCE

MCN == 4
MaxOperands == 2

MCKinds == {"store", "volatile", "value", "phi"}

OperandLists(S, max) == UNION {[1 .. n -> S] : n \in 0 .. max}

\* Operand lists that fit instruction i, before the check for void operands.
ListsFor(i, kind, reachable, max) ==
  CASE i \notin reachable -> OperandLists(1 .. MCN, 1)
    [] i \in reachable /\ kind[i] = "phi" -> OperandLists(1 .. MCN, max)
    [] i \in reachable /\ kind[i] # "phi" -> OperandLists(1 .. i - 1, max)

Graphs(kind, reachable, max, last) ==
  {p \in {[kind |-> kind, operands |-> <<a, b, c, d>>, reachable |-> reachable] :
            a \in ListsFor(1, kind, reachable, max),
            b \in ListsFor(2, kind, reachable, max),
            c \in ListsFor(3, kind, reachable, max),
            d \in last} : WellFormed(p)}

MCPrograms ==
  UNION {Graphs(Append(kind, "store"), reachable, MaxOperands, {<<>>}) :
           kind \in [1 .. 3 -> MCKinds], reachable \in {{1, 2, 3}, {1, 2}}}
  \cup UNION {Graphs(Append(kind, "value"), {1, 2, 3}, 1, OperandLists(1 .. MCN, 1)) :
                kind \in [1 .. 3 -> MCKinds \ {"volatile"}]}

============================================================================
