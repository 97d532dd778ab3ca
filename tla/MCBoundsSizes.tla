--------------------------- MODULE MCBoundsSizes ---------------------------
(***************************************************************************)
(* Functions of three phis and GEPs over a graph in which block 2 begins a *)
(* loop and block 4 joins two branches inside it and ends it: main with    *)
(* local arrays, argv and loads; functions with an array parameter and its *)
(* size directly after it, with two parameters before the size of the      *)
(* first, and with a parameter whose size was not added; and functions     *)
(* with strings, constants and results of calls.                           *)
(***************************************************************************)
EXTENDS BoundsSizes

MCB == 4
MCEdges == {<<1, 2>>, <<2, 3>>, <<2, 4>>, <<3, 4>>, <<4, 2>>}
MCN == 3

Preds == [b \in 1 .. MCB |-> SetToSortSeq({a \in 1 .. MCB : <<a, b>> \in MCEdges}, <)]
MCDominators == <<{1}, {1, 2}, {1, 2, 3}, {1, 2, 4}>>
ASSUME AnalysesAgree == MCDominators = Dominators

\* A string decays where it is used, so phis do not merge strings.
Candidates(i, pointers) ==
  [kind : {"gep"}, block : 1 .. MCB, operands : {<<o>> : o \in pointers \cup 1 .. i - 1}]
  \cup LET merged == (pointers \ {String}) \cup 1 .. MCN IN
       [kind : {"phi"}, block : {2, 4}, operands : merged \X merged]

\* Numbered in the order of their places; phis come first in a block.
Ordered(c) ==
  \A i \in 1 .. MCN - 1 :
    \/ c[i].block < c[i + 1].block
    \/ c[i].block = c[i + 1].block /\ (c[i + 1].kind = "phi" => c[i].kind = "phi")

\* Definitions dominate uses.
Legal(c) ==
  \A i \in 1 .. MCN : \A k \in DOMAIN c[i].operands :
    LET o == c[i].operands[k] IN
    o \in 1 .. MCN =>
      c[o].block \in MCDominators[IF c[i].kind = "phi" THEN Preds[c[i].block][k]
                                                      ELSE c[i].block]

MCParameters == {<<>>, <<0>>, <<0, 0>>, <<0, 1>>, <<0, 0, 1>>}

\* Pointers that are neither phis nor GEPs in a function with these parameters.
Pointers(sizeOf) ==
  CASE sizeOf = <<>> -> {String, Constant, Else}
    [] sizeOf = <<0>> -> {Argument(1)}
    [] sizeOf = <<0, 0>> -> {Alloca, Argv, Load}
    [] sizeOf = <<0, 1>> -> {Alloca, Argument(1)}
    [] sizeOf = <<0, 0, 1>> -> {Argument(1), Argument(2)}

MCFunctions(sizeOf) ==
  LET pointers == Pointers(sizeOf) IN
  {[kind |-> [i \in 1 .. MCN |-> c[i].kind],
    block |-> [i \in 1 .. MCN |-> c[i].block],
    operands |-> [i \in 1 .. MCN |-> c[i].operands],
    sizeOf |-> sizeOf] :
     c \in {d \in Candidates(1, pointers) \X Candidates(2, pointers)
                   \X Candidates(3, pointers) : Ordered(d) /\ Legal(d)}}

============================================================================
