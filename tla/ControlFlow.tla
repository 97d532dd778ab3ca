---------------------------- MODULE ControlFlow ----------------------------
(***************************************************************************)
(* The control-flow graph of a function and what LLVM's DominatorTree says *)
(* of it.                                                                  *)
(***************************************************************************)
EXTENDS Naturals, SequencesExt

CONSTANTS
  B,          \* number of basic blocks; block 1 is the entry
  Edges       \* from a block to its successors

Blocks == 1 .. B

ASSUME GraphAssumption == B \in Nat \ {0} /\ Edges \subseteq Blocks \X Blocks

Predecessors(b) == {a \in Blocks : <<a, b>> \in Edges}

\* Blocks on the paths from the set S that avoid the block x.
ReachableAvoiding(S, x) ==
  LET grow[n \in 0 .. B] ==
        IF n = 0 THEN S \ {x}
        ELSE LET found == grow[n - 1] IN
             found \cup {b \in Blocks \ {x} : Predecessors(b) \cap found # {}}
  IN grow[B]

Dominators == [b \in Blocks |->
                 {a \in Blocks : a = b \/ b \notin ReachableAvoiding({1}, a)}]
Dominates(a, b) == a \in Dominators[b]

\* Paths of at most n blocks from the entry.
Paths(n) ==
  LET walks[k \in 1 .. n] ==
        IF k = 1 THEN {<<1>>}
        ELSE UNION {{Append(p, e[2]) : e \in {d \in Edges : d[1] = Last(p)}} :
                      p \in walks[k - 1]}
  IN UNION {walks[k] : k \in 1 .. n}

============================================================================
