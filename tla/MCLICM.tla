------------------------------- MODULE MCLICM -------------------------------
(***************************************************************************)
(* Functions of three instructions over a graph with a loop (blocks 2 to   *)
(* 6) that contains, on one of two branches, another loop (block 4).       *)
(***************************************************************************)
EXTENDS LICM

CONSTANT UsedKinds     \* the kinds of instructions to choose from

MCB == 7
MCEdges == {<<1, 2>>, <<2, 3>>, <<2, 6>>, <<3, 4>>, <<4, 4>>, <<4, 5>>,
            <<5, 6>>, <<6, 2>>, <<6, 7>>}
MCN == 3

\* The dominators of each block and the loops around it, in advance.
MCDominators == <<{1}, 1 .. 2, 1 .. 3, 1 .. 4, 1 .. 5, {1, 2, 6}, {1, 2, 6, 7}>>
MCLoops == <<{}, {2}, {2}, {2, 4}, {2}, {2}, {}>>
ASSUME AnalysesAgree == MCDominators = Dominators /\ MCLoops = Surrounding

Preds(b) == {e[1] : e \in {d \in MCEdges : d[2] = b}}

\* Instruction i before looking at the others; operands in one order only.
Candidates(i) ==
  [kind : UsedKinds \ {"phi"}, block : 1 .. MCB,
   operands : {<<>>, <<0>>} \cup {<<o>> : o \in 1 .. i - 1}
                \cup {pair \in (1 .. i - 1) \X (1 .. i - 1) : pair[1] < pair[2]}]
  \cup UNION {[kind : UsedKinds \cap {"phi"}, block : {b},
               operands : [Preds(b) -> 0 .. MCN]] : b \in 2 .. MCB}

\* They are numbered in the order of their places; phis come first in a block.
Ordered(c) ==
  \A i \in 1 .. MCN - 1 :
    \/ c[i].block < c[i + 1].block
    \/ c[i].block = c[i + 1].block /\ (c[i + 1].kind = "phi" => c[i].kind = "phi")

\* A definition may be read in block b if it dominates b and no loop around it
\* has been left (LLVM's LCSSA form).  Phis read at the end of predecessors.
Legal(c) ==
  \A i \in 1 .. MCN : \A o \in DOMAIN c[i].operands :
    LET d == c[i].operands[o]
        b == IF c[i].kind = "phi" THEN o ELSE c[i].block
    IN d # 0 => /\ c[d].block \in MCDominators[b]
                /\ MCLoops[c[d].block] \subseteq MCLoops[b]

MCFunctions ==
  {[kind |-> [i \in 1 .. MCN |-> c[i].kind],
    operands |-> [i \in 1 .. MCN |-> c[i].operands],
    at |-> [b \in 1 .. MCB |-> SelectSeq(<<1, 2, 3>>, LAMBDA i : c[i].block = b)]] :
     c \in {d \in Candidates(1) \X Candidates(2) \X Candidates(3) :
              Ordered(d) /\ Legal(d)}}

============================================================================
