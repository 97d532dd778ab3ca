------------------------------- MODULE ADCE --------------------------------
(***************************************************************************)
(* The aggressive dead-code elimination pass, src/llvm-passes/ADCE.cpp:    *)
(* one call of runOnFunction on one function.                              *)
(*                                                                         *)
(* The pass is sequential, so a step is as fine as its loops: one          *)
(* instruction scanned, one list entry popped, one operand visited, one    *)
(* instruction erased.                                                     *)
(***************************************************************************)
EXTENDS DefUse, SequencesExt

VARIABLES
  program,       \* the function as it was given, never changed
  operands,      \* the operand lists now (dropAllReferences empties them)
  present,       \* the instructions still in the function
  liveSet,       \* DenseMap<Instruction*, bool>: "live", "dead", "none" (absent)
  unscanned,     \* reachable instructions the first loop has still to visit
  worklist, deletelist,
  uses,          \* operands the innermost loop has still to visit
  keysToRemove,
  ret,           \* the result: has the function been modified?
  pc             \* the loop the pass is in

vars == <<program, operands, present, liveSet, unscanned, worklist,
          deletelist, uses, keysToRemove, ret, pc>>

\* Mutant: the volatile test is forgotten.
LiveUnlessVolatile(i) == program.kind[i] \in {"terminator", "call", "store"}

isTriviallyLive(i) ==
  program.kind[i] \in {"terminator", "call", "store", "volatile"}

\* Instruction::use_empty: no instruction of the function, reachable or not,
\* has i among its operands.
use_empty(i) == \A u \in present : ~ Uses(operands, u, i)

Marked(mark) == {i \in Instrs : liveSet[i] = mark}

Init ==
  /\ program \in Programs
  /\ operands = program.operands
  /\ present = Instrs
  /\ liveSet = [i \in Instrs |-> "none"]
  /\ unscanned = program.reachable
  /\ worklist = <<>>
  /\ deletelist = <<>>
  /\ uses = <<>>
  /\ keysToRemove = {}
  /\ ret = FALSE
  /\ pc = "scan"

----------------------------------------------------------------------------
(* The scan: every reachable instruction is marked live, marked dead, or   *)
(* left unmarked.                                                          *)

ScanLive(i) ==
  /\ isTriviallyLive(i)
  /\ worklist' = Append(worklist, i)
  /\ liveSet' = [liveSet EXCEPT ![i] = "live"]
  /\ UNCHANGED <<deletelist, ret>>

\* Mutant: the result is not set.
ScanUnusedSilently(i) ==
  /\ ~ isTriviallyLive(i)
  /\ use_empty(i)
  /\ deletelist' = Append(deletelist, i)
  /\ liveSet' = [liveSet EXCEPT ![i] = "dead"]
  /\ UNCHANGED <<worklist, ret>>

ScanUnused(i) ==
  /\ ~ isTriviallyLive(i)
  /\ use_empty(i)
  /\ deletelist' = Append(deletelist, i)
  /\ liveSet' = [liveSet EXCEPT ![i] = "dead"]
  /\ ret' = TRUE
  /\ UNCHANGED worklist

ScanUsed(i) ==
  /\ ~ isTriviallyLive(i)
  /\ ~ use_empty(i)
  /\ UNCHANGED <<worklist, deletelist, liveSet, ret>>

Scan ==
  /\ pc = "scan"
  /\ \E i \in unscanned :
       /\ \A j \in unscanned : i <= j
       /\ unscanned' = unscanned \ {i}
       /\ ScanLive(i) \/ ScanUnused(i) \/ ScanUsed(i)
  /\ UNCHANGED <<program, operands, present, uses, keysToRemove, pc>>

ScanDone ==
  /\ pc = "scan" /\ unscanned = {}
  /\ pc' = "delete"
  /\ UNCHANGED <<program, operands, present, liveSet, unscanned, worklist,
                 deletelist, uses, keysToRemove, ret>>

----------------------------------------------------------------------------
(* The two list loops.  Both pop the newest entry, and look at its         *)
(* operands only if its block is reachable.                                *)

\* Mutant: the reachability test is forgotten.
AllOperands(i) == operands[i]

OperandsToVisit(i) == IF i \in program.reachable THEN operands[i] ELSE <<>>

PopDead ==
  /\ pc = "delete" /\ uses = <<>> /\ deletelist # <<>>
  /\ uses' = OperandsToVisit(Last(deletelist))
  /\ deletelist' = Front(deletelist)
  /\ UNCHANGED <<program, operands, present, liveSet, unscanned, worklist,
                 keysToRemove, ret, pc>>

\* Mutant: without the liveSet.count test.
VisitDeadOperandAgain ==
  /\ pc = "delete" /\ uses # <<>>
  /\ uses' = Tail(uses)
  /\ deletelist' = Append(deletelist, Head(uses))
  /\ liveSet' = [liveSet EXCEPT ![Head(uses)] = "dead"]
  /\ UNCHANGED <<program, operands, present, unscanned, worklist,
                 keysToRemove, ret, pc>>

(* An operand of a dead instruction is marked dead whenever it has no mark *)
(* yet: its other users are not looked at.                                 *)
VisitDeadOperand ==
  /\ pc = "delete" /\ uses # <<>>
  /\ uses' = Tail(uses)
  /\ LET i == Head(uses) IN
       \/ /\ liveSet[i] = "none"
          /\ deletelist' = Append(deletelist, i)
          /\ liveSet' = [liveSet EXCEPT ![i] = "dead"]
       \/ /\ liveSet[i] # "none"
          /\ UNCHANGED <<deletelist, liveSet>>
  /\ UNCHANGED <<program, operands, present, unscanned, worklist,
                 keysToRemove, ret, pc>>

\* Mutant: the deletion loop runs once, an if in place of the while.
DropDeadEarly ==
  /\ pc = "delete" /\ uses = <<>>
  /\ keysToRemove' = Marked("dead")
  /\ operands' = [i \in Instrs |->
                    IF i \in Marked("dead") THEN <<>> ELSE operands[i]]
  /\ pc' = "erase"
  /\ UNCHANGED <<program, present, liveSet, unscanned, worklist, deletelist,
                 uses, ret>>

\* Mutant: the loop of dropAllReferences is forgotten.
CollectDead ==
  /\ pc = "delete" /\ uses = <<>> /\ deletelist = <<>>
  /\ keysToRemove' = Marked("dead")
  /\ pc' = "erase"
  /\ UNCHANGED <<program, operands, present, liveSet, unscanned, worklist,
                 deletelist, uses, ret>>

(* All dead entries are collected and drop their operands before the first *)
(* of them is erased.                                                      *)
DropDead ==
  /\ pc = "delete" /\ uses = <<>> /\ deletelist = <<>>
  /\ keysToRemove' = Marked("dead")
  /\ operands' = [i \in Instrs |->
                    IF i \in Marked("dead") THEN <<>> ELSE operands[i]]
  /\ pc' = "erase"
  /\ UNCHANGED <<program, present, liveSet, unscanned, worklist, deletelist,
                 uses, ret>>

\* Mutant: remaining users are not noticed.
EraseRegardless(i) ==
  /\ pc = "erase" /\ i \in keysToRemove
  /\ present' = present \ {i}
  /\ liveSet' = [liveSet EXCEPT ![i] = "none"]
  /\ keysToRemove' = keysToRemove \ {i}
  /\ UNCHANGED <<program, operands, unscanned, worklist, deletelist, uses,
                 ret, pc>>

(* eraseFromParent of an instruction without users removes it.  With users *)
(* left it is undefined: LLVM's destructor asserts use_empty(), and a      *)
(* build without assertions leaves the user with a dangling operand.       *)
Erase(i) ==
  /\ pc = "erase" /\ i \in keysToRemove
  /\ \/ /\ use_empty(i)
        /\ present' = present \ {i}
        /\ liveSet' = [liveSet EXCEPT ![i] = "none"]
        /\ keysToRemove' = keysToRemove \ {i}
        /\ UNCHANGED pc
     \/ /\ ~ use_empty(i)
        /\ pc' = "undefined"
        /\ UNCHANGED <<present, liveSet, keysToRemove>>
  /\ UNCHANGED <<program, operands, unscanned, worklist, deletelist, uses, ret>>

EraseDone ==
  /\ pc = "erase" /\ keysToRemove = {}
  /\ pc' = "mark"
  /\ UNCHANGED <<program, operands, present, liveSet, unscanned, worklist,
                 deletelist, uses, keysToRemove, ret>>

\* Mutant: the entry is read, not popped.
ReadLive ==
  /\ pc = "mark" /\ uses = <<>> /\ worklist # <<>>
  /\ uses' = OperandsToVisit(Last(worklist))
  /\ UNCHANGED <<program, operands, present, liveSet, unscanned, worklist,
                 deletelist, keysToRemove, ret, pc>>

PopLive ==
  /\ pc = "mark" /\ uses = <<>> /\ worklist # <<>>
  /\ uses' = OperandsToVisit(Last(worklist))
  /\ worklist' = Front(worklist)
  /\ UNCHANGED <<program, operands, present, liveSet, unscanned, deletelist,
                 keysToRemove, ret, pc>>

VisitLiveOperand ==
  /\ pc = "mark" /\ uses # <<>>
  /\ uses' = Tail(uses)
  /\ LET i == Head(uses) IN
       \/ /\ liveSet[i] = "none"
          /\ worklist' = Append(worklist, i)
          /\ liveSet' = [liveSet EXCEPT ![i] = "live"]
       \/ /\ liveSet[i] # "none"
          /\ UNCHANGED <<worklist, liveSet>>
  /\ UNCHANGED <<program, operands, present, unscanned, deletelist,
                 keysToRemove, ret, pc>>

(* The second collection.  The vector is not cleared at its end.           *)
EraseAgain ==
  /\ pc = "mark" /\ uses = <<>> /\ worklist = <<>>
  /\ keysToRemove' = keysToRemove \cup Marked("dead")
  /\ present' = present \ keysToRemove'
  /\ operands' = [i \in Instrs |->
                    IF i \in keysToRemove' THEN <<>> ELSE operands[i]]
  /\ liveSet' = [i \in Instrs |->
                    IF i \in keysToRemove' THEN "none" ELSE liveSet[i]]
  /\ pc' = "done"
  /\ UNCHANGED <<program, unscanned, worklist, deletelist, uses, ret>>

Finished == pc \in {"done", "undefined"} /\ UNCHANGED vars

Next ==
  \/ Scan \/ ScanDone
  \/ PopDead \/ VisitDeadOperand
  \/ DropDead \/ (\E i \in Instrs : Erase(i)) \/ EraseDone
  \/ PopLive \/ VisitLiveOperand
  \/ EraseAgain
  \/ Finished

(* One thread runs the pass, and it is never preempted for good.           *)
Spec == Init /\ [][Next]_vars /\ WF_vars(Next)

----------------------------------------------------------------------------
(* Safety                                                                  *)

(* Every variable has the type of the container or flag it stands for.     *)
TypeOK ==
  /\ program \in Program
  /\ operands \in [Instrs -> Seq(Instrs)]
  /\ present \subseteq Instrs
  /\ liveSet \in [Instrs -> {"none", "live", "dead"}]
  /\ unscanned \subseteq Instrs
  /\ worklist \in Seq(Instrs)
  /\ deletelist \in Seq(Instrs)
  /\ uses \in Seq(Instrs)
  /\ keysToRemove \subseteq Instrs
  /\ ret \in BOOLEAN
  /\ pc \in {"scan", "delete", "erase", "mark", "done", "undefined"}

Entries(list, marks, mark) ==
  /\ \A k \in DOMAIN list : marks[list[k]] = mark
  /\ \A k, l \in DOMAIN list : list[k] = list[l] => k = l

ListsInOrder ==
  Entries(deletelist, liveSet, "dead") /\ Entries(worklist, liveSet, "live")

(* The state is typed, no instruction waits twice in a list, and each      *)
(* waits only in the list its mark belongs to, even when it is an operand  *)
(* several times over or of several instructions (the liveSet.count tests, *)
(* ADCE.cpp:56 and 89).                                                    *)
ListsMatchMarks == TypeOK /\ ListsInOrder

Effects == EffectsOf(program)

(* If the pass survives its erase loop, nothing that matters is gone: all  *)
(* reachable instructions with an effect remain, and no remaining          *)
(* instruction, in reachable code or not, has lost an operand.  (A call in *)
(* unreachable code is erased when only a dead phi uses its result.)       *)
NothingNeededErased ==
  pc \in {"mark", "done"} =>
    /\ Effects \subseteq present
    /\ \A u \in present, i \in Instrs :
         Uses(program.operands, u, i) => i \in present

(* The erase loop runs into an instruction that is still used only if some *)
(* instruction has two different users.                                    *)
UndefinedOnlyIfShared == pc = "undefined" => HasShared(program)

(* Reference definitions: the closure of a set under "operand of", where   *)
(* only reachable instructions pass it on, stopping at a set of others.    *)
ClosureStep(S, stop) ==
  S \cup {i \in Instrs \ stop :
            \E u \in S \cap program.reachable : Uses(program.operands, u, i)}
ClosureOf(start, stop) ==
  LET closure[n \in 0 .. N] ==
        IF n = 0 THEN start ELSE ClosureStep(closure[n - 1], stop)
  IN closure[N]

Unused ==
  {i \in program.reachable :
     ~ isTriviallyLive(i) /\ \A u \in Instrs : ~ Uses(program.operands, u, i)}

(* When the deletion loop ends, the dead marks are exactly the unused      *)
(* instructions and what they reach through operands, up to reachable      *)
(* instructions with effects; when the pass ends, the live marks are       *)
(* exactly the effects and what they reach.  Neither the order of the      *)
(* lists nor repeated operands matter.  What is left without a mark has    *)
(* users, and all of them in reachable code are unmarked too and still     *)
(* there: nothing useless is kept but cycles of phis, what unreachable     *)
(* code uses, and what these use.                                          *)
MarksAreExact ==
  /\ pc = "delete" /\ uses = <<>> /\ deletelist = <<>> =>
       Marked("dead") = ClosureOf(Unused, Effects)
  /\ pc = "done" => Marked("live") = ClosureOf(Effects, {})
  /\ pc = "done" =>
       \A i \in program.reachable \cap present :
         liveSet[i] = "none" =>
           /\ \E u \in Instrs : Uses(program.operands, u, i)
           /\ \A u \in program.reachable : Uses(program.operands, u, i) =>
                u \in present /\ liveSet[u] = "none"

(* runOnFunction's result tells the pass manager the truth: true exactly   *)
(* when an instruction has been erased.                                    *)
RetTellsChange == pc = "done" => (ret <=> present # Instrs)

(* The inductive invariant behind NothingNeededErased and                  *)
(* UndefinedOnlyIfShared.  Its parts: what the scan has settled; that the  *)
(* function is untouched before the erase loop; that an instruction to     *)
(* delete is unused or an operand of another one to delete; and that what  *)
(* has been erased has no user outside what is still to be erased.         *)
ToDelete ==
  IF pc \in {"scan", "delete"} THEN Marked("dead")
                               ELSE keysToRemove \cup (Instrs \ present)

ScanInv ==
  /\ pc # "scan" => unscanned = {}
  /\ \A i \in Effects : i \in unscanned \/ liveSet[i] = "live"
  /\ Effects \subseteq present

UntouchedInv ==
  pc \in {"scan", "delete"} =>
    operands = program.operands /\ present = Instrs /\ keysToRemove = {}

JustifiedInv ==
  /\ \A i \in ToDelete :
       \/ \A u \in Instrs : ~ Uses(program.operands, u, i)
       \/ \E v \in ToDelete : Uses(program.operands, v, i)
  /\ pc = "delete" =>
       \A k \in DOMAIN uses :
         \E v \in Marked("dead") : Uses(program.operands, v, uses[k])
  /\ pc \in {"scan", "erase"} => uses = <<>>

EraseInv ==
  /\ pc \in {"erase", "undefined"} =>
       /\ keysToRemove = Marked("dead") /\ keysToRemove \subseteq present
       /\ \A i \in present \ keysToRemove : operands[i] = program.operands[i]
       /\ \A i \in keysToRemove : operands[i] = <<>>
  /\ pc \in {"mark", "done"} => keysToRemove = {} /\ Marked("dead") = {}
  /\ \A i \in Instrs \ present, u \in present \ keysToRemove :
       ~ Uses(program.operands, u, i)

PassInv == ScanInv /\ UntouchedInv /\ JustifiedInv /\ EraseInv

----------------------------------------------------------------------------
(* Liveness and refinement                                                 *)

(* The pass ends on every function, cyclic def-use graphs included.        *)
Terminates == <>(pc \in {"done", "undefined"})

(* The pass is a work-list dead-code elimination, step by step: it         *)
(* condemns one instruction at a time and only for a reason that holds at  *)
(* that moment, begins to erase no sooner than nothing more is to be       *)
(* condemned, and erases one at a time only what condemned instructions    *)
(* alone use, failing where another one does.                              *)
Abstract == INSTANCE DeadCode WITH
  condemned <- ToDelete,
  status <- CASE pc \in {"scan", "delete"} -> "running"
              [] pc = "erase" -> "erasing"
              [] pc \in {"mark", "done"} -> "done"
              [] pc = "undefined" -> "undefined"

ImplementsDeadCode == Abstract!Spec

============================================================================
