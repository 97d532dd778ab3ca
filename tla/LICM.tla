-------------------------------- MODULE LICM --------------------------------
(***************************************************************************)
(* Loop-invariant code motion, src/llvm-passes/LICM.cpp: the calls of      *)
(* runOnLoop for all loops of one function.                                *)
(*                                                                         *)
(* The control-flow graph is fixed; LLVM hands it over in loop-simplified  *)
(* form, with its dominator tree and its natural loops.  A step looks at   *)
(* one loop, one basic block or one instruction.                           *)
(***************************************************************************)
EXTENDS ControlFlow, SequencesExt

CONSTANTS
  N,          \* number of instructions that are not terminators
  Functions   \* the functions considered: instructions and their blocks

Instrs == 1 .. N

----------------------------------------------------------------------------
(* What LLVM's analyses compute                                            *)

Latches(h) == {a \in Predecessors(h) : Dominates(h, a)}
Headers == {h \in Blocks : Latches(h) # {}}

\* The blocks of the loop of header h: those that reach a latch, not via h.
LoopBlocks ==
  [h \in Headers |->
     {h} \cup {b \in Blocks : /\ Dominates(h, b)
                              /\ ReachableAvoiding({b}, h) \cap Latches(h) # {}}]
Loop(h) == LoopBlocks[h]

Surrounding == [b \in Blocks |-> {h \in Headers : b \in Loop(h)}]
LoopsOf(b) == Surrounding[b]
getLoopFor(b) ==
  CHOOSE h \in LoopsOf(b) : \A g \in LoopsOf(b) : Loop(h) \subseteq Loop(g)

getLoopPreheader(h) == CHOOSE p \in Predecessors(h) \ Loop(h) : TRUE

(* The form LoopSimplify leaves: a preheader for each loop, and exits that *)
(* only the loop branches to.  Blocks are numbered in reverse post-order,  *)
(* which numbers those that can be reached.                                *)
ASSUME LoopSimplified ==
  /\ N \in Nat
  /\ ReachableAvoiding({1}, 0) = Blocks
  /\ \A h \in Headers :
       /\ \E p \in Blocks : /\ Predecessors(h) \ Loop(h) = {p}
                            /\ \A b \in Blocks : <<p, b>> \in Edges => b = h
       /\ \A e \in Edges : e[1] \in Loop(h) /\ e[2] \notin Loop(h) =>
            Predecessors(e[2]) \subseteq Loop(h)
  /\ \A e \in Edges : e[1] < e[2] \/ Dominates(e[2], e[1])

(* The order of the loop pass manager: a loop after the loops inside it.   *)
Innermost(hs) == {h \in hs : \A g \in hs : Loop(g) \subseteq Loop(h) => g = h}

\* L->blocks() is in reverse post-order.
FirstBlock(bs) == CHOOSE b \in bs : \A c \in bs : b <= c

----------------------------------------------------------------------------
VARIABLES
  function,  \* kinds and operands of the instructions
  at,        \* the instructions of each block, in order
  loops,     \* loops still to run on
  L,         \* the one that the pass runs on, or NoLoop
  blocks,    \* its blocks still to look at
  iter       \* instructions of the current block still to look at

vars == <<function, at, loops, L, blocks, iter>>

NoLoop == 0

Kinds == {"value", "division", "phi", "other"}
Argument == 0        \* an operand that is an argument; constants are left out

BlockOf(place, i) == CHOOSE b \in Blocks : \E k \in DOMAIN place[b] : place[b][k] = i
IndexOf(place, i) ==
  LET b == BlockOf(place, i) IN CHOOSE k \in DOMAIN place[b] : place[b][k] = i

\* The operands of i with the place where each is read: a phi reads at the
\* end of its predecessors, which index its operands.
Operands(f, i) == {f.operands[i][k] : k \in DOMAIN f.operands[i]}

(* Definitions dominate their uses.                                        *)
Available(place, d, b, limit) ==
  LET db == BlockOf(place, d) IN
  IF db = b THEN \E k \in 1 .. limit : place[b][k] = d ELSE Dominates(db, b)

Dominated(f, place) ==
  \A b \in Blocks : \A k \in DOMAIN place[b] :
    LET i == place[b][k] IN
    \A o \in DOMAIN f.operands[i] :
      f.operands[i][o] # Argument =>
        IF f.kind[i] = "phi"
          THEN Available(place, f.operands[i][o], o, Len(place[o]))
          ELSE Available(place, f.operands[i][o], b, k - 1)

\* Each instruction has one place.
EachOnce(place) ==
  \A i \in Instrs :
    \E b \in Blocks : \E k \in DOMAIN place[b] :
      \A c \in Blocks : \A l \in DOMAIN place[c] :
        place[c][l] = i <=> c = b /\ l = k

(* What LLVM's verifier guarantees of a function.                          *)
WellFormed(f) ==
  /\ f.kind \in [Instrs -> Kinds]
  /\ f.at \in [Blocks -> Seq(Instrs)] /\ EachOnce(f.at)
  /\ DOMAIN f.operands = Instrs
  /\ \A i \in Instrs :
       f.operands[i] \in IF f.kind[i] = "phi"
                           THEN [Predecessors(BlockOf(f.at, i)) -> 0 .. N]
                           ELSE Seq(0 .. N)
  /\ Dominated(f, f.at)

ASSUME FunctionsAssumption == \A f \in Functions : WellFormed(f)

Init ==
  /\ \E f \in Functions : function = [kind |-> f.kind, operands |-> f.operands,
                                      original |-> f.at]
                          /\ at = f.at
  /\ loops = Headers
  /\ L = NoLoop
  /\ blocks = {}
  /\ iter = <<>>

----------------------------------------------------------------------------
(* The pass                                                                *)

isComputedOutsideLoop(o) == o # Argument /\ BlockOf(at, o) \notin Loop(L)

\* Binary operators (divisions among them), shifts, selects, casts, GEPs.
Hoistable == {"value", "division"}

\* Mutant: only phis are excluded, so loads and calls pass.
isInvariantKind(i) ==
  /\ function.kind[i] # "phi"
  /\ \A o \in Operands(function, i) : isComputedOutsideLoop(o)

\* Mutant: only the first operand is looked at.
isInvariantFirst(i) ==
  /\ function.kind[i] \in Hoistable
  /\ function.operands[i] # <<>> => isComputedOutsideLoop(function.operands[i][1])

isInvariant(i) ==
  /\ function.kind[i] \in Hoistable
  /\ \A o \in Operands(function, i) : isComputedOutsideLoop(o)

\* No kind that isInvariant lets pass has side effects, so dominating the
\* loop's exits is never asked for.
mayHaveSideEffects(i) == function.kind[i] = "other"
completeDominator(i) ==
  \A e \in Edges : e[1] \in Loop(L) /\ e[2] \notin Loop(L) =>
    Dominates(BlockOf(at, i), e[2])
isSafeToHoist(i) == ~ mayHaveSideEffects(i) \/ completeDominator(i)

BeginLoop ==
  /\ L = NoLoop
  /\ L' \in Innermost(loops)
  /\ blocks' = Loop(L')
  /\ UNCHANGED <<function, at, loops, iter>>

\* The blocks of loops inside this one are passed over.
BeginBlock ==
  /\ L # NoLoop /\ iter = <<>> /\ blocks # {}
  /\ LET b == FirstBlock(blocks) IN
     /\ iter' = IF Dominates(L, b) /\ getLoopFor(b) = L THEN at[b] ELSE <<>>
     /\ blocks' = blocks \ {b}
  /\ UNCHANGED <<function, at, loops, L>>

MoveToPreheader(i) ==
  LET from == BlockOf(at, i)  to == getLoopPreheader(L) IN
  at' = [at EXCEPT ![from] = RemoveAt(@, IndexOf(at, i)), ![to] = Append(@, i)]

\* Mutant: the iterator moves on after the instruction has been moved, to the
\* end of the preheader.
HoistAndStop ==
  /\ L # NoLoop /\ iter # <<>>
  /\ isInvariant(Head(iter)) /\ isSafeToHoist(Head(iter))
  /\ MoveToPreheader(Head(iter))
  /\ iter' = <<>>
  /\ UNCHANGED <<function, loops, L, blocks>>

Hoist ==
  /\ L # NoLoop /\ iter # <<>>
  /\ isInvariant(Head(iter)) /\ isSafeToHoist(Head(iter))
  /\ MoveToPreheader(Head(iter))
  /\ iter' = Tail(iter)
  /\ UNCHANGED <<function, loops, L, blocks>>

Keep ==
  /\ L # NoLoop /\ iter # <<>>
  /\ ~ (isInvariant(Head(iter)) /\ isSafeToHoist(Head(iter)))
  /\ iter' = Tail(iter)
  /\ UNCHANGED <<function, at, loops, L, blocks>>

EndLoop ==
  /\ L # NoLoop /\ iter = <<>> /\ blocks = {}
  /\ loops' = loops \ {L}
  /\ L' = NoLoop
  /\ UNCHANGED <<function, at, blocks, iter>>

Done == loops = {}
Finished == Done /\ UNCHANGED vars

Next == BeginLoop \/ BeginBlock \/ Hoist \/ Keep \/ EndLoop \/ Finished

Spec == Init /\ [][Next]_vars

----------------------------------------------------------------------------
(* Executions of a function                                                *)

\* A value is the term it was computed by: an instruction and the values of
\* its operands.  Each execution of an "other" gives a value of its own.
ArgumentValue == <<0, <<>>>>
ValueOf(env, o) == IF o = Argument THEN ArgumentValue ELSE env[o]
Term(f, env, i) ==
  <<i, [k \in DOMAIN f.operands[i] |-> ValueOf(env, f.operands[i][k])]>>

\* Executes i, in a block entered from the block "from" in environment entry.
ExecuteInstr(f, entry, from, run, i) ==
  LET term == Term(f, run.env, i)
      value == CASE f.kind[i] \in Hoistable -> term
                 [] f.kind[i] = "other" -> <<i, <<<<Len(run.effects), <<>>>>>>>>
                 [] f.kind[i] = "phi" -> ValueOf(entry, f.operands[i][from])
  IN [env |-> [run.env EXCEPT ![i] = value],
      effects |-> IF f.kind[i] = "other" THEN Append(run.effects, term)
                                         ELSE run.effects,
      divisions |-> IF f.kind[i] = "division" THEN run.divisions \cup {term}
                                              ELSE run.divisions]

ExecuteBlock(f, place, from, run, b) ==
  LET after[k \in 0 .. Len(place[b])] ==
        IF k = 0 THEN run
        ELSE ExecuteInstr(f, run.env, from, after[k - 1], place[b][k])
  IN after[Len(place[b])]

NothingRun == [env |-> [i \in Instrs |-> ArgumentValue], effects |-> <<>>, divisions |-> {}]
CameFrom(path, n) == IF n = 1 THEN 0 ELSE path[n - 1]

Execute(f, place, path) ==
  LET after[n \in 0 .. Len(path)] ==
        IF n = 0 THEN NothingRun
        ELSE ExecuteBlock(f, place, CameFrom(path, n), after[n - 1], path[n])
  IN after[Len(path)]

PathLength == B + 3   \* bound: blocks of an execution considered
CompletePaths == {p \in Paths(PathLength) : \A e \in Edges : e[1] # Last(p)}

----------------------------------------------------------------------------
(* Properties                                                              *)

(* Types; no instruction is lost or duplicated.                            *)
TypeOK ==
  /\ at \in [Blocks -> Seq(Instrs)] /\ EachOnce(at)
  /\ loops \subseteq Headers /\ L \in loops \cup {NoLoop}
  /\ blocks \subseteq Blocks /\ iter \in Seq(Instrs)

(* After each single move, definitions dominate their uses: those of the   *)
(* instruction moved, and those it has (moveBefore in the middle of the    *)
(* walk over the loop, LICM.cpp:108).                                      *)
DefsDominateUses == TypeOK /\ Dominated(function, at)

(* One visit of each block is enough: when the pass has run on the last    *)
(* loop, no instruction of any loop is invariant there, although hoisting  *)
(* makes other instructions invariant, in blocks and loops visited before. *)
NothingLeftToHoist ==
  Done => \A i \in Instrs : LET b == BlockOf(at, i) IN
            LoopsOf(b) # {} /\ function.kind[i] \in Hoistable =>
              \E o \in Operands(function, i) :
                o = Argument \/ BlockOf(at, o) \in Loop(getLoopFor(b))

(* On every path the function does what it did: the same effects, in the   *)
(* same order, with the same operands, and the same values in what is not  *)
(* hoisted.                                                                *)
SameEffects ==
  Done =>
    \A path \in CompletePaths :
      LET before == Execute(function, function.original, path)
          after == Execute(function, at, path)
      IN /\ after.effects = before.effects
         /\ \A i \in Instrs :
              function.kind[i] \notin Hoistable => after.env[i] = before.env[i]

(* The claim of LICM.cpp:105, "is invariant, safe to hoist": no division   *)
(* is executed on a path that did not execute it before.                   *)
NoNewDivision ==
  Done =>
    \A path \in CompletePaths :
      Execute(function, at, path).divisions \subseteq
        Execute(function, function.original, path).divisions

============================================================================
