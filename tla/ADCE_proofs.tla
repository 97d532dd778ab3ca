---------------------------- MODULE ADCE_proofs ----------------------------
(***************************************************************************)
(* Proofs about the dead-code elimination pass, for every function.        *)
(***************************************************************************)
EXTENDS ADCE, FiniteSets, FiniteSetTheorems, WellFoundedInduction, TLAPS

----------------------------------------------------------------------------
(* Induction, stated over sets instead of predicates: a set that holds the *)
(* first number and the successor of each of its members holds them all.   *)

(* Induction over the natural numbers.                                     *)
LEMMA SetNatInduction ==
  ASSUME NEW S, 0 \in S, \A n \in Nat : n \in S => n + 1 \in S
  PROVE  Nat \subseteq S
<1> DEFINE T == {n \in Nat : n \notin S}
           R == {ss \in Nat \X Nat : ss[1] < ss[2]}
<1>1. SUFFICES ASSUME T # {} PROVE FALSE
  OBVIOUS
<1>2. IsWellFoundedOn(R, Nat)
  BY NatLessThanWellFounded DEF OpToRel
<1>3. PICK x \in T : \A y \in T : <<y, x>> \notin R
  <2> HIDE DEF R
  <2> QED BY <1>1, <1>2, WFMin
<1>4. x # 0 /\ x \in Nat
  OBVIOUS
<1>5. x - 1 \in Nat /\ x - 1 < x /\ (x - 1) + 1 = x
  BY <1>4
<1>6. x - 1 \in S
  BY <1>3, <1>5
<1>7. QED
  BY <1>5, <1>6

(* Induction up to a bound.                                                *)
LEMMA SetIntervalInduction ==
  ASSUME NEW Top \in Nat, NEW S, 0 \in S,
         \A n \in 0 .. Top - 1 : n \in S => n + 1 \in S
  PROVE  0 .. Top \subseteq S
<1> DEFINE T == {n \in Nat : n <= Top => n \in S}
<1>1. 0 \in T /\ \A n \in Nat : n \in T => n + 1 \in T
  OBVIOUS
<1>2. Nat \subseteq T
  <2> HIDE DEF T
  <2> QED BY <1>1, SetNatInduction
<1>3. QED
  BY <1>2

(* Top steps from a.                                                         *)
IsIteration(f, Top, D, a, step) ==
  f \in [0 .. Top -> D] /\ f[0] = a /\ \A n \in 1 .. Top : f[n] = step[f[n - 1]]

(* A step can be iterated: there is a sequence of values in which each is  *)
(* the step taken from the one before it.                                  *)
LEMMA Iteration ==
  ASSUME NEW Top \in Nat, NEW D, NEW a \in D, NEW step \in [D -> D]
  PROVE  \E f : IsIteration(f, Top, D, a, step)
<1> DEFINE Iterates(f, m) == f[0] = a /\ \A n \in 1 .. m : f[n] = step[f[n - 1]]
           S == {m \in 0 .. Top : \E f \in [0 .. m -> D] : Iterates(f, m)}
<1>1. 0 \in S
  <2> DEFINE f == [k \in 0 .. 0 |-> a]
  <2>1. f \in [0 .. 0 -> D] /\ Iterates(f, 0)
    OBVIOUS
  <2>2. 0 \in 0 .. Top
    OBVIOUS
  <2> HIDE DEF f, Iterates
  <2>3. QED
    BY <2>1, <2>2
<1>2. ASSUME NEW n \in 0 .. Top - 1, n \in S
      PROVE  n + 1 \in S
  <2> PICK f \in [0 .. n -> D] : Iterates(f, n)
    BY <1>2
  <2> DEFINE g == [k \in 0 .. n + 1 |-> IF k = n + 1 THEN step[f[n]] ELSE f[k]]
  <2>1. g \in [0 .. n + 1 -> D]
    OBVIOUS
  <2>2. g[0] = a
    OBVIOUS
  <2>3. ASSUME NEW k \in 1 .. n + 1
        PROVE  g[k] = step[g[k - 1]]
    <3>1. CASE k = n + 1
      BY <3>1
    <3>2. CASE k # n + 1
      <4>1. k \in 1 .. n /\ k - 1 \in 0 .. n /\ k - 1 # n + 1
        BY <3>2
      <4>2. QED
        BY <4>1
    <3>3. QED
      BY <3>1, <3>2
  <2>4. Iterates(g, n + 1)
    BY <2>2, <2>3
  <2>5. n + 1 \in 0 .. Top
    OBVIOUS
  <2> HIDE DEF g, Iterates
  <2>6. QED
    BY <2>1, <2>4, <2>5
<1>3. Top \in S
  <2> HIDE DEF S
  <2>1. QED
    BY <1>1, <1>2, SetIntervalInduction
<1>4. QED
  BY <1>3 DEF IsIteration

----------------------------------------------------------------------------
(* Popping a list: what SmallVector::pop_back_val returns and leaves.      *)
LEMMA PopBack ==
  ASSUME NEW S, NEW s \in Seq(S), s # <<>>
  PROVE  /\ Last(s) \in S
         /\ Len(s) \in DOMAIN s /\ Last(s) = s[Len(s)]
         /\ Front(s) \in Seq(S)
         /\ DOMAIN Front(s) = DOMAIN s \ {Len(s)}
         /\ \A k \in DOMAIN Front(s) : Front(s)[k] = s[k]
BY DEF Last, Front

(* Pushing: the new entry comes last, the others keep their places.        *)
LEMMA PushBack ==
  ASSUME NEW S, NEW s \in Seq(S), NEW e \in S
  PROVE  /\ Append(s, e) \in Seq(S)
         /\ DOMAIN Append(s, e) = DOMAIN s \cup {Len(s) + 1}
         /\ Len(s) + 1 \notin DOMAIN s
         /\ Append(s, e)[Len(s) + 1] = e
         /\ \A k \in DOMAIN s : Append(s, e)[k] = s[k]
OBVIOUS

(* Visiting the operands one by one.                                       *)
LEMMA HeadTail ==
  ASSUME NEW S, NEW s \in Seq(S), s # <<>>
  PROVE  /\ Head(s) \in S
         /\ 1 \in DOMAIN s /\ Head(s) = s[1]
         /\ Tail(s) \in Seq(S)
         /\ \A k \in DOMAIN Tail(s) : k + 1 \in DOMAIN s /\ Tail(s)[k] = s[k + 1]
OBVIOUS

(* The empty list has no entry.                                            *)
LEMMA NoEntry == <<>> \in Seq(Instrs) /\ DOMAIN <<>> = {}
OBVIOUS

----------------------------------------------------------------------------
(* Types                                                                   *)

(* The initial state has the types TypeOK lists.                           *)
LEMMA InitType == Init => TypeOK
BY ProgramsAssumption, NoEntry DEF Init, TypeOK, Program

(* Every step of the pass keeps them.                                      *)
LEMMA NextType == TypeOK /\ [Next]_vars => TypeOK'
<1> SUFFICES ASSUME TypeOK, [Next]_vars
             PROVE  TypeOK'
  OBVIOUS
<1> USE DEF TypeOK
<1>1. CASE Scan
  <2> PICK i \in unscanned : ScanLive(i) \/ ScanUnused(i) \/ ScanUsed(i)
    BY <1>1 DEF Scan
  <2>1. i \in Instrs
    OBVIOUS
  <2>2. /\ Append(worklist, i) \in Seq(Instrs)
        /\ Append(deletelist, i) \in Seq(Instrs)
    BY <2>1, PushBack
  <2>3. QED
    BY <1>1, <2>1, <2>2 DEF Scan, ScanLive, ScanUnused, ScanUsed
<1>2. CASE ScanDone
  BY <1>2 DEF ScanDone
<1>3. CASE PopDead
  <2>1. Front(deletelist) \in Seq(Instrs) /\ Last(deletelist) \in Instrs
    BY <1>3, PopBack DEF PopDead
  <2>2. OperandsToVisit(Last(deletelist)) \in Seq(Instrs)
    BY <2>1, NoEntry DEF OperandsToVisit
  <2>3. QED
    BY <1>3, <2>1, <2>2 DEF PopDead
<1>4. CASE VisitDeadOperand
  <2>1. Head(uses) \in Instrs /\ Tail(uses) \in Seq(Instrs)
    BY <1>4, HeadTail DEF VisitDeadOperand
  <2>2. Append(deletelist, Head(uses)) \in Seq(Instrs)
    BY <2>1, PushBack
  <2>3. QED
    BY <1>4, <2>1, <2>2 DEF VisitDeadOperand
<1>5. CASE DropDead
  BY <1>5, NoEntry DEF DropDead, Marked
<1>6. ASSUME NEW i \in Instrs, Erase(i)
      PROVE  TypeOK'
  BY <1>6 DEF Erase
<1>7. CASE EraseDone
  BY <1>7 DEF EraseDone
<1>8. CASE PopLive
  <2>1. Front(worklist) \in Seq(Instrs) /\ Last(worklist) \in Instrs
    BY <1>8, PopBack DEF PopLive
  <2>2. OperandsToVisit(Last(worklist)) \in Seq(Instrs)
    BY <2>1, NoEntry DEF OperandsToVisit
  <2>3. QED
    BY <1>8, <2>1, <2>2 DEF PopLive
<1>9. CASE VisitLiveOperand
  <2>1. Head(uses) \in Instrs /\ Tail(uses) \in Seq(Instrs)
    BY <1>9, HeadTail DEF VisitLiveOperand
  <2>2. Append(worklist, Head(uses)) \in Seq(Instrs)
    BY <2>1, PushBack
  <2>3. QED
    BY <1>9, <2>1, <2>2 DEF VisitLiveOperand
<1>10. CASE EraseAgain
  BY <1>10, NoEntry DEF EraseAgain, Marked
<1>11. CASE Finished \/ UNCHANGED vars
  BY <1>11 DEF Finished, vars
<1>12. QED
  BY <1>1, <1>2, <1>3, <1>4, <1>5, <1>6, <1>7, <1>8, <1>9, <1>10, <1>11
     DEF Next

(* The pass only ever holds instructions of the function in its lists, and *)
(* only the three marks in its map.                                        *)
THEOREM TypeCorrect == Spec => []TypeOK
<1>1. QED
  BY InitType, NextType, PTL DEF Spec

----------------------------------------------------------------------------
(* The two lists                                                           *)

(* ListsInOrder, with what makes it inductive: an instruction still to be  *)
(* scanned has no mark, and once erasing starts no dead one is waiting.    *)
ListsInv ==
  /\ ListsInOrder
  /\ pc = "scan" => \A i \in unscanned : liveSet[i] = "none"
  /\ pc \notin {"scan", "delete"} => deletelist = <<>>

Marks == [Instrs -> {"none", "live", "dead"}]

(* Pushing an unmarked instruction and marking it leaves a list in order.  *)
LEMMA PushEntry ==
  ASSUME NEW list \in Seq(Instrs), NEW marks \in Marks, NEW i \in Instrs,
         NEW mark \in {"live", "dead"},
         Entries(list, marks, mark), marks[i] = "none"
  PROVE  Entries(Append(list, i), [marks EXCEPT ![i] = mark], mark)
<1>1. \A k \in DOMAIN list : list[k] \in Instrs /\ list[k] # i
  BY DEF Entries, Marks
<1>2. QED
  BY <1>1, PushBack DEF Entries, Marks

(* The other list does not notice.                                         *)
LEMMA KeepEntries ==
  ASSUME NEW list \in Seq(Instrs), NEW marks \in Marks, NEW i \in Instrs,
         NEW mark \in {"live", "dead"}, NEW new,
         Entries(list, marks, mark), marks[i] # mark
  PROVE  Entries(list, [marks EXCEPT ![i] = new], mark)
<1>1. \A k \in DOMAIN list : list[k] \in Instrs /\ list[k] # i
  BY DEF Entries, Marks
<1>2. QED
  BY <1>1 DEF Entries, Marks

(* Popping the last entry leaves a list in order.                          *)
LEMMA PopEntry ==
  ASSUME NEW list \in Seq(Instrs), list # <<>>, NEW marks, NEW mark,
         Entries(list, marks, mark)
  PROVE  Entries(Front(list), marks, mark)
<1>1. /\ DOMAIN Front(list) \subseteq DOMAIN list
      /\ \A k \in DOMAIN Front(list) : Front(list)[k] = list[k]
  BY PopBack
<1>2. QED
  BY <1>1, Zenon DEF Entries

(* An empty list is in order.                                              *)
LEMMA EmptyEntries == ASSUME NEW marks, NEW mark PROVE Entries(<<>>, marks, mark)
BY NoEntry DEF Entries

(* The lists are empty at first.                                           *)
LEMMA InitLists == Init => ListsInv
BY EmptyEntries, ProgramsAssumption DEF Init, ListsInv, ListsInOrder, Program

(* Every step keeps the lists and the marks in agreement.                  *)
LEMMA NextLists == TypeOK /\ PassInv /\ ListsInv /\ [Next]_vars => ListsInv'
<1> SUFFICES ASSUME TypeOK, PassInv, ListsInv, [Next]_vars
             PROVE  ListsInv'
  OBVIOUS
<1>0. liveSet \in Marks
  BY DEF TypeOK, Marks
<1> USE DEF ListsInv, ListsInOrder
<1>1. CASE Scan
  <2> PICK i \in unscanned :
        /\ unscanned' = unscanned \ {i}
        /\ ScanLive(i) \/ ScanUnused(i) \/ ScanUsed(i)
    BY <1>1 DEF Scan
  <2>1. i \in Instrs /\ liveSet[i] = "none" /\ pc = "scan" /\ pc' = pc
    BY <1>1 DEF Scan, TypeOK
  <2>2. CASE ScanLive(i)
    <3>1. Entries(worklist', liveSet', "live")
      BY <1>0, <2>1, <2>2, PushEntry DEF ScanLive, TypeOK
    <3>2. Entries(deletelist', liveSet', "dead")
      BY <1>0, <2>1, <2>2, KeepEntries DEF ScanLive, TypeOK
    <3>3. QED
      BY <2>1, <2>2, <3>1, <3>2 DEF ScanLive, TypeOK
  <2>3. CASE ScanUnused(i)
    <3>1. Entries(deletelist', liveSet', "dead")
      BY <1>0, <2>1, <2>3, PushEntry DEF ScanUnused, TypeOK
    <3>2. Entries(worklist', liveSet', "live")
      BY <1>0, <2>1, <2>3, KeepEntries DEF ScanUnused, TypeOK
    <3>3. QED
      BY <2>1, <2>3, <3>1, <3>2 DEF ScanUnused, TypeOK
  <2>4. CASE ScanUsed(i)
    BY <2>1, <2>4 DEF ScanUsed
  <2>5. QED
    BY <2>2, <2>3, <2>4
<1>2. CASE ScanDone
  BY <1>2 DEF ScanDone
<1>3. CASE PopDead
  BY <1>3, PopEntry DEF PopDead, TypeOK
<1>4. CASE VisitDeadOperand
  <2>1. Head(uses) \in Instrs
    BY <1>4, HeadTail DEF VisitDeadOperand, TypeOK
  <2>2. CASE liveSet[Head(uses)] = "none"
    <3>1. Entries(deletelist', liveSet', "dead")
      BY <1>0, <1>4, <2>1, <2>2, PushEntry DEF VisitDeadOperand, TypeOK
    <3>2. Entries(worklist, [liveSet EXCEPT ![Head(uses)] = "dead"], "live")
      BY <1>0, <2>1, <2>2, KeepEntries DEF TypeOK
    <3>3. QED
      BY <1>4, <2>2, <3>1, <3>2 DEF VisitDeadOperand
  <2>3. CASE liveSet[Head(uses)] # "none"
    BY <1>4, <2>3 DEF VisitDeadOperand
  <2>4. QED
    BY <2>2, <2>3
<1>5. CASE DropDead
  BY <1>5 DEF DropDead
<1>6. ASSUME NEW i \in Instrs, Erase(i)
      PROVE  ListsInv'
  <2>1. liveSet[i] = "dead" /\ pc = "erase" /\ deletelist = <<>>
    BY <1>6 DEF Erase, PassInv, EraseInv, Marked
  <2>2. Entries(worklist, [liveSet EXCEPT ![i] = "none"], "live")
    BY <1>0, <2>1, KeepEntries DEF TypeOK
  <2>3. Entries(worklist', liveSet', "live")
    BY <1>6, <2>2 DEF Erase
  <2>4. Entries(deletelist', liveSet', "dead")
    BY <1>6, <2>1, EmptyEntries DEF Erase
  <2>5. QED
    BY <1>6, <2>1, <2>3, <2>4 DEF Erase
<1>7. CASE EraseDone
  BY <1>7 DEF EraseDone
<1>8. CASE PopLive
  BY <1>8, PopEntry DEF PopLive, TypeOK
<1>9. CASE VisitLiveOperand
  <2>1. Head(uses) \in Instrs /\ deletelist = <<>>
    BY <1>9, HeadTail DEF VisitLiveOperand, TypeOK
  <2>2. CASE liveSet[Head(uses)] = "none"
    <3>1. Entries(worklist', liveSet', "live")
      <4>1. /\ worklist' = Append(worklist, Head(uses))
            /\ liveSet' = [liveSet EXCEPT ![Head(uses)] = "live"]
        BY <1>9, <2>2 DEF VisitLiveOperand
      <4>2. worklist \in Seq(Instrs)
        BY DEF TypeOK
      <4>3. QED
        BY <1>0, <2>1, <2>2, <4>1, <4>2, PushEntry
    <3>2. Entries(deletelist', liveSet', "dead")
      BY <1>9, <2>1, EmptyEntries DEF VisitLiveOperand
    <3>3. QED
      BY <1>9, <2>1, <3>1, <3>2 DEF VisitLiveOperand
  <2>3. CASE liveSet[Head(uses)] # "none"
    BY <1>9, <2>3 DEF VisitLiveOperand
  <2>4. QED
    BY <2>2, <2>3
<1>10. CASE EraseAgain
  <2>1. worklist' = <<>> /\ deletelist' = <<>> /\ pc' = "done"
    BY <1>10 DEF EraseAgain
  <2>2. QED
    BY <2>1, EmptyEntries
<1>11. CASE Finished \/ UNCHANGED vars
  BY <1>11 DEF Finished, vars
<1>12. QED
  BY <1>1, <1>2, <1>3, <1>4, <1>5, <1>6, <1>7, <1>8, <1>9, <1>10, <1>11
     DEF Next

----------------------------------------------------------------------------
(* What is erased                                                          *)

(* No step changes the given function.                                     *)
LEMMA ProgramFixed == [Next]_vars => program' = program
BY DEF Next, vars, Scan, ScanDone, PopDead, VisitDeadOperand, DropDead, Erase,
       EraseDone, PopLive, VisitLiveOperand, EraseAgain, Finished

(* At first nothing is marked, so nothing is to delete.                    *)
LEMMA InitPass == Init => PassInv
<1> SUFFICES ASSUME Init
             PROVE  PassInv
  OBVIOUS
<1>1. ToDelete = {}
  BY DEF Init, Marked, ToDelete
<1>2. Effects \subseteq program.reachable /\ program.reachable \subseteq Instrs
  BY ProgramsAssumption DEF Init, Effects, EffectsOf, Program
<1>3. ScanInv /\ UntouchedInv
  BY <1>2 DEF Init, ScanInv, UntouchedInv
<1>4. JustifiedInv
  BY <1>1 DEF Init, JustifiedInv
<1>5. EraseInv
  BY DEF Init, EraseInv
<1>6. QED
  BY <1>3, <1>4, <1>5 DEF PassInv

(* Effects are scanned live and stay live.                                 *)
LEMMA NextScanInv ==
  TypeOK /\ ListsInv /\ PassInv /\ [Next]_vars => ScanInv'
<1> SUFFICES ASSUME TypeOK, ListsInv, PassInv, [Next]_vars
             PROVE  ScanInv'
  OBVIOUS
<1>0. Effects' = Effects
  BY ProgramFixed DEF Effects
<1>a. ScanInv /\ Effects \subseteq Instrs
  BY DEF PassInv, ScanInv, TypeOK
<1>b. \A i \in Effects : isTriviallyLive(i)
  BY DEF Effects, EffectsOf, HasEffect, isTriviallyLive
<1> USE <1>0, <1>a DEF ScanInv
<1>1. CASE Scan
  <2> PICK i \in unscanned :
        /\ unscanned' = unscanned \ {i}
        /\ ScanLive(i) \/ ScanUnused(i) \/ ScanUsed(i)
    BY <1>1 DEF Scan
  <2>1. i \in Instrs /\ pc' = "scan" /\ pc = "scan" /\ present' = present
    BY <1>1 DEF Scan, TypeOK
  <2>2. CASE ScanLive(i)
    BY <2>1, <2>2 DEF ScanLive, TypeOK
  <2>3. CASE ScanUnused(i)
    BY <1>b, <2>1, <2>3 DEF ScanUnused, TypeOK
  <2>4. CASE ScanUsed(i)
    BY <1>b, <2>1, <2>4 DEF ScanUsed, TypeOK
  <2>5. QED
    BY <2>2, <2>3, <2>4
<1>2. CASE ScanDone
  BY <1>2 DEF ScanDone
<1>3. CASE PopDead
  BY <1>3 DEF PopDead
<1>4. CASE VisitDeadOperand
  <2>1. Head(uses) \in Instrs
    BY <1>4, HeadTail DEF VisitDeadOperand, TypeOK
  <2>2. QED
    BY <1>4, <2>1 DEF VisitDeadOperand, TypeOK
<1>5. CASE DropDead
  BY <1>5 DEF DropDead
<1>6. ASSUME NEW i \in Instrs, Erase(i)
      PROVE  ScanInv'
  <2>1. liveSet[i] = "dead" /\ unscanned = {}
    BY <1>6 DEF Erase, PassInv, EraseInv, Marked
  <2>2. QED
    BY <1>6, <2>1 DEF Erase, TypeOK
<1>7. CASE EraseDone
  BY <1>7 DEF EraseDone
<1>8. CASE PopLive
  BY <1>8 DEF PopLive
<1>9. CASE VisitLiveOperand
  <2>1. Head(uses) \in Instrs
    BY <1>9, HeadTail DEF VisitLiveOperand, TypeOK
  <2>2. QED
    BY <1>9, <2>1 DEF VisitLiveOperand, TypeOK
<1>10. CASE EraseAgain
  <2>1. keysToRemove' = {}
    BY <1>10 DEF EraseAgain, PassInv, EraseInv
  <2>2. QED
    BY <1>10, <2>1 DEF EraseAgain, TypeOK
<1>11. CASE Finished \/ UNCHANGED vars
  BY <1>11 DEF Finished, vars
<1>12. QED
  BY <1>1, <1>2, <1>3, <1>4, <1>5, <1>6, <1>7, <1>8, <1>9, <1>10, <1>11
     DEF Next

(* Nothing is touched before DropDead.                                     *)
LEMMA NextUntouchedInv ==
  TypeOK /\ PassInv /\ [Next]_vars => UntouchedInv'
BY DEF PassInv, UntouchedInv, TypeOK, Next, vars, Scan, ScanDone, PopDead,
       VisitDeadOperand, DropDead, Erase, EraseDone, PopLive,
       VisitLiveOperand, EraseAgain, Finished

(* A set of instructions to delete in which each is unused or an operand   *)
(* of another one.                                                         *)
Justified(S) ==
  \A i \in S : \/ \A u \in Instrs : ~ Uses(program.operands, u, i)
              \/ \E v \in S : Uses(program.operands, v, i)

(* A justified set may grow by an instruction that is unused or an operand *)
(* of a member.                                                            *)
LEMMA JustifiedGrows ==
  ASSUME NEW S, NEW i, Justified(S),
         \/ \A u \in Instrs : ~ Uses(program.operands, u, i)
         \/ \E v \in S : Uses(program.operands, v, i)
  PROVE  Justified(S \cup {i})
BY DEF Justified

(* An instruction is marked dead for a reason.                             *)
LEMMA NextJustifiedInv ==
  TypeOK /\ ListsInv /\ PassInv /\ [Next]_vars => JustifiedInv'
<1> SUFFICES ASSUME TypeOK, ListsInv, PassInv, [Next]_vars
             PROVE  JustifiedInv'
  OBVIOUS
<1> DEFINE Reason(s) == \A k \in DOMAIN s :
                          \E v \in Marked("dead") : Uses(program.operands, v, s[k])
<1>0. program' = program
  BY ProgramFixed
<1>a. Justified(ToDelete) /\ (pc = "delete" => Reason(uses))
      /\ (pc \in {"scan", "erase"} => uses = <<>>)
  BY DEF PassInv, JustifiedInv, Justified
<1>b. JustifiedInv' <=> /\ Justified(ToDelete')
                        /\ (pc' = "delete" => Reason(uses)')
                        /\ (pc' \in {"scan", "erase"} => uses' = <<>>)
  BY <1>0 DEF JustifiedInv, Justified
<1>1. CASE Scan
  <2> PICK i \in unscanned :
        /\ unscanned' = unscanned \ {i}
        /\ ScanLive(i) \/ ScanUnused(i) \/ ScanUsed(i)
    BY <1>1 DEF Scan
  <2>1. /\ i \in Instrs /\ pc = "scan" /\ pc' = "scan" /\ uses' = uses
        /\ liveSet[i] = "none"
    BY <1>1 DEF Scan, TypeOK, ListsInv
  <2>2. CASE ScanUnused(i)
    <3>1. \A u \in Instrs : ~ Uses(program.operands, u, i)
      BY <2>1, <2>2 DEF ScanUnused, use_empty, PassInv, UntouchedInv
    <3>2. ToDelete' = ToDelete \cup {i}
      BY <2>1, <2>2 DEF ScanUnused, ToDelete, Marked, TypeOK
    <3>3. Justified(ToDelete')
      BY <1>a, <3>1, <3>2, JustifiedGrows
    <3>4. QED
      BY <1>a, <1>b, <2>1, <3>3
  <2>3. CASE ScanLive(i) \/ ScanUsed(i)
    <3>1. ToDelete' = ToDelete
      BY <2>1, <2>3 DEF ScanLive, ScanUsed, ToDelete, Marked, TypeOK
    <3>2. QED
      BY <1>a, <1>b, <2>1, <3>1
  <2>4. QED
    BY <2>2, <2>3
<1>2. CASE ScanDone
  <2>1. ToDelete' = ToDelete /\ uses' = <<>> /\ pc' = "delete"
    BY <1>2, <1>a DEF ScanDone, ToDelete, Marked
  <2>2. Reason(uses)'
    BY <2>1, NoEntry
  <2>3. QED
    BY <1>a, <1>b, <2>1, <2>2
<1>3. CASE PopDead
  <2> DEFINE d == Last(deletelist)
  <2>1. d \in Instrs /\ liveSet[d] = "dead"
    <3>1. /\ d \in Instrs
          /\ Len(deletelist) \in DOMAIN deletelist /\ d = deletelist[Len(deletelist)]
      BY <1>3, PopBack DEF PopDead, TypeOK
    <3>2. QED
      BY <3>1 DEF ListsInv, ListsInOrder, Entries
  <2>2. d \in Marked("dead")
    BY <2>1 DEF Marked
  <2>3. uses' = program.operands[d] \/ uses' = <<>>
    BY <1>3 DEF PopDead, OperandsToVisit, PassInv, UntouchedInv
  <2>4. \A k \in DOMAIN uses' : Uses(program.operands, d, uses'[k])
    BY <2>3, NoEntry DEF Uses
  <2>5. /\ ToDelete' = ToDelete /\ pc' = "delete"
        /\ Marked("dead")' = Marked("dead")
    BY <1>3 DEF PopDead, ToDelete, Marked
  <2>6. Reason(uses)'
    BY <1>0, <2>2, <2>4, <2>5
  <2>7. QED
    BY <1>a, <1>b, <2>5, <2>6
<1>4. CASE VisitDeadOperand
  <2>1. /\ Head(uses) \in Instrs /\ 1 \in DOMAIN uses /\ Head(uses) = uses[1]
        /\ \A k \in DOMAIN Tail(uses) :
             k + 1 \in DOMAIN uses /\ Tail(uses)[k] = uses[k + 1]
    BY <1>4, HeadTail DEF VisitDeadOperand, TypeOK
  <2>2. pc = "delete" /\ pc' = "delete" /\ uses' = Tail(uses)
    BY <1>4 DEF VisitDeadOperand
  <2>3. \E v \in Marked("dead") : Uses(program.operands, v, Head(uses))
    BY <1>a, <2>1, <2>2
  <2>4. /\ Marked("dead") \subseteq Marked("dead")'
        /\ ToDelete = Marked("dead") /\ ToDelete' = Marked("dead")'
        /\ \/ Marked("dead")' = Marked("dead")
           \/ Marked("dead")' = Marked("dead") \cup {Head(uses)}
    BY <1>4, <2>1 DEF VisitDeadOperand, ToDelete, Marked, TypeOK
  <2>5. Justified(ToDelete')
    BY <1>a, <2>3, <2>4, JustifiedGrows
  <2>6. Reason(uses)'
    BY <1>0, <1>a, <2>1, <2>2, <2>4
  <2>7. QED
    BY <1>b, <2>2, <2>5, <2>6
<1>5. CASE DropDead
  <2>1. ToDelete' = ToDelete /\ uses' = <<>> /\ pc' = "erase"
    BY <1>5 DEF DropDead, ToDelete, Marked, PassInv, UntouchedInv
  <2>2. QED
    BY <1>a, <1>b, <2>1
<1>6. ASSUME NEW i \in Instrs, Erase(i)
      PROVE  JustifiedInv'
  <2>1. ToDelete' = ToDelete
    BY <1>6 DEF Erase, ToDelete
  <2>2. uses' = uses /\ pc = "erase" /\ pc' \in {"erase", "undefined"}
    BY <1>6 DEF Erase
  <2>3. QED
    BY <1>a, <1>b, <2>1, <2>2
<1>7. CASE EraseDone \/ PopLive \/ VisitLiveOperand
  <2>1. ToDelete' = ToDelete /\ pc' = "mark"
    BY <1>7 DEF EraseDone, PopLive, VisitLiveOperand, ToDelete
  <2>2. QED
    BY <1>a, <1>b, <2>1
<1>8. CASE EraseAgain
  <2>1. ToDelete' = ToDelete /\ pc' = "done"
    BY <1>8 DEF EraseAgain, ToDelete, PassInv, EraseInv
  <2>2. QED
    BY <1>a, <1>b, <2>1
<1>9. CASE Finished \/ UNCHANGED vars
  <2>1. UNCHANGED vars
    BY <1>9 DEF Finished
  <2>2. QED
    BY <2>1 DEF vars, PassInv, JustifiedInv, ToDelete, Marked
<1>10. QED
  BY <1>1, <1>2, <1>3, <1>4, <1>5, <1>6, <1>7, <1>8, <1>9 DEF Next

(* What has been erased is used only by what is still to be erased.        *)
LEMMA NextEraseInv == TypeOK /\ PassInv /\ [Next]_vars => EraseInv'
<1> SUFFICES ASSUME TypeOK, PassInv, [Next]_vars
             PROVE  EraseInv'
  OBVIOUS
<1>0. program' = program
  BY ProgramFixed
<1> USE <1>0 DEF EraseInv
<1>1. CASE Scan \/ ScanDone \/ PopDead \/ VisitDeadOperand
  <2>1. pc \in {"scan", "delete"} /\ pc' \in {"scan", "delete"} /\ present' = present
    BY <1>1 DEF Scan, ScanDone, PopDead, VisitDeadOperand
  <2>2. present' = Instrs
    BY <2>1 DEF PassInv, UntouchedInv
  <2>3. QED
    BY <2>1, <2>2
<1>2. CASE DropDead
  <2>1. present' = Instrs /\ operands = program.operands /\ pc' = "erase"
    BY <1>2 DEF DropDead, PassInv, UntouchedInv
  <2>2. keysToRemove' = Marked("dead") /\ Marked("dead")' = Marked("dead")
        /\ Marked("dead") \subseteq Instrs
    BY <1>2 DEF DropDead, Marked
  <2>3. \A i \in present' \ keysToRemove' : operands'[i] = program.operands[i]
    BY <1>2, <2>1, <2>2 DEF DropDead
  <2>4. \A i \in keysToRemove' : operands'[i] = <<>>
    BY <1>2, <2>2 DEF DropDead
  <2>5. QED
    BY <2>1, <2>2, <2>3, <2>4
<1>3. ASSUME NEW i \in Instrs, Erase(i)
      PROVE  EraseInv'
  <2>1. /\ pc = "erase" /\ i \in keysToRemove /\ operands' = operands
        /\ keysToRemove = Marked("dead") /\ keysToRemove \subseteq present
        /\ \A j \in present \ keysToRemove : operands[j] = program.operands[j]
        /\ \A j \in keysToRemove : operands[j] = <<>>
        /\ \A j \in Instrs \ present, u \in present \ keysToRemove :
             ~ Uses(program.operands, u, j)
    BY <1>3 DEF Erase, PassInv
  <2>2. CASE /\ use_empty(i) /\ present' = present \ {i} /\ pc' = pc
             /\ liveSet' = [liveSet EXCEPT ![i] = "none"]
             /\ keysToRemove' = keysToRemove \ {i}
    <3>1. Marked("dead")' = keysToRemove'
      BY <2>1, <2>2 DEF Marked, TypeOK
    <3>2. \A u \in present \ keysToRemove : ~ Uses(program.operands, u, i)
      BY <2>1, <2>2 DEF use_empty, Uses
    <3>3. \A j \in Instrs \ present', u \in present' \ keysToRemove' :
            ~ Uses(program.operands, u, j)
      BY <2>1, <2>2, <3>2
    <3>4. QED
      BY <2>1, <2>2, <3>1, <3>3
  <2>3. CASE pc' = "undefined" /\ UNCHANGED <<present, liveSet, keysToRemove>>
    BY <2>1, <2>3 DEF Marked
  <2>4. QED
    BY <1>3, <2>2, <2>3 DEF Erase
<1>4. CASE EraseDone
  BY <1>4 DEF EraseDone, PassInv, Marked
<1>5. CASE PopLive
  BY <1>5 DEF PopLive, PassInv, Marked
<1>6. CASE VisitLiveOperand
  <2>1. Head(uses) \in Instrs
    BY <1>6, HeadTail DEF VisitLiveOperand, TypeOK
  <2>2. Marked("dead")' \subseteq Marked("dead")
    BY <1>6, <2>1 DEF VisitLiveOperand, Marked, TypeOK
  <2>3. QED
    BY <1>6, <2>2 DEF VisitLiveOperand, PassInv
<1>7. CASE EraseAgain
  <2>1. keysToRemove = {} /\ Marked("dead") = {} /\ keysToRemove' = {}
    BY <1>7 DEF EraseAgain, PassInv
  <2>2. present' = present /\ liveSet' = liveSet /\ pc' = "done"
    BY <1>7, <2>1 DEF EraseAgain, TypeOK
  <2>3. QED
    BY <2>1, <2>2 DEF PassInv, Marked
<1>8. CASE Finished \/ UNCHANGED vars
  BY <1>8 DEF Finished, vars, PassInv, Marked
<1>9. QED
  BY <1>1, <1>2, <1>3, <1>4, <1>5, <1>6, <1>7, <1>8 DEF Next

----------------------------------------------------------------------------
(* Theorems                                                                *)

(* The invariant of the pass: no list holds an instruction twice, effects  *)
(* are never marked dead, and the erase loop works on a justified set.     *)
THEOREM PassInvariant == Spec => [](TypeOK /\ ListsInv /\ PassInv)
<1>1. Init => TypeOK /\ ListsInv /\ PassInv
  BY InitType, InitLists, InitPass
<1>2. TypeOK /\ ListsInv /\ PassInv /\ [Next]_vars
        => (TypeOK /\ ListsInv /\ PassInv)'
  BY NextType, NextLists, NextScanInv, NextUntouchedInv, NextJustifiedInv,
     NextEraseInv DEF PassInv
<1>3. QED
  BY <1>1, <1>2, PTL DEF Spec

(* No instruction is ever put twice in a list, or in the list its mark     *)
(* does not belong to, so none is erased twice.                            *)
THEOREM ListsCorrect == Spec => []ListsMatchMarks
<1>1. TypeOK /\ ListsInv => ListsMatchMarks
  BY DEF ListsInv, ListsMatchMarks
<1>2. QED
  BY <1>1, PassInvariant, PTL

(* A pass that gets through its erase loop has kept every reachable effect *)
(* and every operand of every instruction it has kept.                     *)
THEOREM EraseCorrect == Spec => []NothingNeededErased
<1>1. TypeOK /\ PassInv => NothingNeededErased
  BY DEF TypeOK, PassInv, ScanInv, EraseInv, NothingNeededErased
<1>2. QED
  BY <1>1, PassInvariant, PTL

(* The erase loop fails only on an instruction whose dead user gave it its *)
(* mark and that has another user, which is not to be deleted.             *)
LEMMA FailureIsShared ==
  ASSUME TypeOK, PassInv, NEW i \in Instrs, Erase(i), pc' = "undefined"
  PROVE  HasShared(program)
<1>1. pc = "erase" /\ i \in keysToRemove /\ ~ use_empty(i)
  BY DEF Erase
<1>2. PICK u \in present : Uses(operands, u, i)
  BY <1>1 DEF use_empty
<1>3. u \notin keysToRemove
  BY <1>1, <1>2, NoEntry DEF PassInv, EraseInv, Uses
<1>4. Uses(program.operands, u, i) /\ u \in Instrs /\ u \notin ToDelete
  BY <1>1, <1>2, <1>3 DEF PassInv, EraseInv, Uses, TypeOK, ToDelete
<1>5. i \in ToDelete
  BY <1>1 DEF ToDelete
<1>6. PICK v \in ToDelete : Uses(program.operands, v, i)
  BY <1>4, <1>5 DEF PassInv, JustifiedInv
<1>7. v \in Instrs
  BY <1>1 DEF ToDelete, TypeOK
<1>8. QED
  BY <1>4, <1>6, <1>7 DEF HasShared

(* On a function in which every value has at most one user, the pass never *)
(* erases an instruction that is still used.                               *)
THEOREM FailureOnlyIfShared == Spec => []UndefinedOnlyIfShared
<1>1. Init => UndefinedOnlyIfShared
  BY DEF Init, UndefinedOnlyIfShared
<1>2. TypeOK /\ PassInv /\ UndefinedOnlyIfShared /\ [Next]_vars
        => UndefinedOnlyIfShared'
  <2> SUFFICES ASSUME TypeOK, PassInv, UndefinedOnlyIfShared, [Next]_vars,
                      pc' = "undefined"
               PROVE  HasShared(program')
    BY DEF UndefinedOnlyIfShared
  <2>1. CASE \E i \in Instrs : Erase(i)
    BY <2>1, FailureIsShared, ProgramFixed
  <2>2. CASE pc = "undefined"
    BY <2>2, ProgramFixed DEF UndefinedOnlyIfShared
  <2>3. pc = "undefined" \/ \E i \in Instrs : Erase(i)
    BY DEF Next, vars, Scan, ScanDone, PopDead, VisitDeadOperand, DropDead,
           EraseDone, PopLive, VisitLiveOperand, EraseAgain, Finished
  <2>4. QED
    BY <2>1, <2>2, <2>3
<1>3. QED
  BY <1>1, <1>2, PassInvariant, PTL DEF Spec

(* The result tells whether something is to be deleted or has been: the    *)
(* scan sets it with the first dead mark, and every later mark has one.    *)
RetInv == ret <=> ToDelete # {}

(* Nothing is to delete at first.                                          *)
LEMMA InitRet == Init => RetInv
BY DEF Init, RetInv, ToDelete, Marked

(* Dead marks are never taken back but by erasing what has them.           *)
LEMMA NextRet ==
  TypeOK /\ ListsInv /\ PassInv /\ RetInv /\ [Next]_vars => RetInv'
<1> SUFFICES ASSUME TypeOK, ListsInv, PassInv, RetInv, [Next]_vars
             PROVE  RetInv'
  OBVIOUS
<1> USE DEF RetInv
<1>1. CASE Scan
  <2> PICK i \in unscanned : ScanLive(i) \/ ScanUnused(i) \/ ScanUsed(i)
    BY <1>1 DEF Scan
  <2>1. i \in Instrs /\ liveSet[i] = "none" /\ pc = "scan" /\ pc' = "scan"
    BY <1>1 DEF Scan, TypeOK, ListsInv
  <2>2. CASE ScanUnused(i)
    <3>1. i \in Marked("dead")' /\ ret'
      BY <2>1, <2>2 DEF ScanUnused, Marked, TypeOK
    <3>2. QED
      BY <2>1, <3>1 DEF ToDelete
  <2>3. CASE ScanLive(i) \/ ScanUsed(i)
    <3>1. Marked("dead")' = Marked("dead") /\ ret' = ret
      BY <2>1, <2>3 DEF ScanLive, ScanUsed, Marked, TypeOK
    <3>2. QED
      BY <2>1, <3>1 DEF ToDelete
  <2>4. QED
    BY <2>2, <2>3
<1>2. CASE ScanDone \/ PopDead \/ UNCHANGED vars
  BY <1>2 DEF ScanDone, PopDead, vars, ToDelete, Marked
<1>3. CASE VisitDeadOperand
  <2>1. ret /\ ret' /\ pc = "delete" /\ pc' = "delete"
    <3>1. 1 \in DOMAIN uses /\ pc = "delete"
      BY <1>3, HeadTail DEF VisitDeadOperand, TypeOK
    <3>2. Marked("dead") # {}
      BY <3>1 DEF PassInv, JustifiedInv
    <3>3. QED
      BY <1>3, <3>1, <3>2 DEF VisitDeadOperand, ToDelete
  <2>2. Head(uses) \in Instrs
    BY <1>3, HeadTail DEF VisitDeadOperand, TypeOK
  <2>3. Marked("dead") \subseteq Marked("dead")'
    BY <1>3, <2>2 DEF VisitDeadOperand, Marked, TypeOK
  <2>4. QED
    BY <2>1, <2>3 DEF ToDelete
<1>4. CASE DropDead
  <2>1. present' = Instrs /\ Marked("dead")' = Marked("dead")
    BY <1>4 DEF DropDead, PassInv, UntouchedInv, Marked
  <2>2. QED
    BY <1>4, <2>1 DEF DropDead, ToDelete
<1>5. ASSUME NEW i \in Instrs, Erase(i)
      PROVE  RetInv'
  <2>1. i \in ToDelete /\ ret' = ret /\ pc = "erase"
    BY <1>5 DEF Erase, ToDelete
  <2>2. i \in ToDelete'
    BY <1>5, <2>1 DEF Erase, ToDelete
  <2>3. QED
    BY <2>1, <2>2
<1>6. CASE EraseDone \/ PopLive \/ VisitLiveOperand \/ Finished
  BY <1>6 DEF EraseDone, PopLive, VisitLiveOperand, Finished, vars, ToDelete
<1>7. CASE EraseAgain
  <2>1. keysToRemove = {} /\ keysToRemove' = {} /\ pc = "mark"
    BY <1>7 DEF EraseAgain, PassInv, EraseInv
  <2>2. present' = present /\ pc' = "done" /\ ret' = ret
    BY <1>7, <2>1 DEF EraseAgain, TypeOK
  <2>3. QED
    BY <2>1, <2>2 DEF ToDelete
<1>8. QED
  BY <1>1, <1>2, <1>3, <1>4, <1>5, <1>6, <1>7 DEF Next

(* runOnFunction tells the pass manager the truth about every function: it *)
(* returns true exactly when it has erased an instruction.                 *)
THEOREM RetCorrect == Spec => []RetTellsChange
<1>1. TypeOK /\ PassInv /\ RetInv => RetTellsChange
  BY DEF TypeOK, PassInv, EraseInv, RetInv, RetTellsChange, ToDelete
<1>2. QED
  BY <1>1, InitRet, NextRet, PassInvariant, PTL DEF Spec

----------------------------------------------------------------------------
(* What the pass marks                                                     *)

(* A set holds every operand of its reachable members that is not a stop.  *)
Closed(S, stop) ==
  \A u \in S \cap program.reachable, i \in Instrs \ stop :
    Uses(program.operands, u, i) => i \in S

(* What ClosureOf iterates, and its value.                                 *)
ClosureSteps(f, start, stop) ==
  /\ f \in [0 .. N -> SUBSET Instrs]
  /\ f[0] = start
  /\ \A n \in 1 .. N : f[n] = ClosureStep(f[n - 1], stop)
  /\ ClosureOf(start, stop) = f[N]

(* The recursive function in ClosureOf is there: it iterates ClosureStep.  *)
LEMMA ClosureIterates ==
  ASSUME NEW start \in SUBSET Instrs, NEW stop
  PROVE  \E f : ClosureSteps(f, start, stop)
<1> DEFINE Equation(f) == f = [n \in 0 .. N |-> IF n = 0 THEN start
                                                ELSE ClosureStep(f[n - 1], stop)]
           closure[n \in 0 .. N] ==
             IF n = 0 THEN start ELSE ClosureStep(closure[n - 1], stop)
           step == [S \in SUBSET Instrs |-> ClosureStep(S, stop)]
<1>1. N \in Nat
  BY NAssumption
<1>2. step \in [SUBSET Instrs -> SUBSET Instrs]
  BY DEF ClosureStep
<1>3. PICK f : IsIteration(f, N, SUBSET Instrs, start, step)
  <2> HIDE DEF step
  <2>1. QED
    BY <1>1, <1>2, Iteration
<1>4. Equation(f)
  <2>1. f \in [0 .. N -> SUBSET Instrs] /\ f[0] = start
    BY <1>3 DEF IsIteration
  <2>2. ASSUME NEW n \in 1 .. N
        PROVE  f[n] = ClosureStep(f[n - 1], stop)
    <3>1. n - 1 \in 0 .. N
      BY <1>1
    <3>2. QED
      BY <1>3, <2>1, <3>1 DEF IsIteration
  <2>3. \A n \in 0 .. N : n # 0 => n \in 1 .. N
    BY <1>1
  <2>4. QED
    BY <2>1, <2>2, <2>3
<1>5. Equation(closure)
  BY <1>4
<1>6. ClosureOf(start, stop) = closure[N]
  BY DEF ClosureOf
<1>7. PICK g : Equation(g) /\ ClosureOf(start, stop) = g[N]
  <2> HIDE DEF closure, Equation
  <2>1. QED
    BY <1>5, <1>6
<1>8. g[0] = start /\ \A n \in 1 .. N : g[n] = ClosureStep(g[n - 1], stop)
  <2>1. 0 \in 0 .. N /\ \A n \in 1 .. N : n \in 0 .. N /\ n # 0
    BY <1>1
  <2>2. QED
    BY <1>7, <2>1
<1>9. g \in [0 .. N -> SUBSET Instrs]
  <2> DEFINE typed == {n \in 0 .. N : g[n] \in SUBSET Instrs}
  <2>1. 0 \in typed
    BY <1>1, <1>8
  <2>2. ASSUME NEW n \in 0 .. N - 1, n \in typed
        PROVE  n + 1 \in typed
    <3>1. n + 1 \in 1 .. N /\ (n + 1) - 1 = n
      BY <1>1
    <3>2. g[n + 1] = ClosureStep(g[n], stop)
      BY <1>8, <3>1
    <3>3. QED
      BY <2>2, <3>1, <3>2 DEF ClosureStep
  <2>3. 0 .. N \subseteq typed
    <3> HIDE DEF typed
    <3>1. QED
      BY <1>1, <2>1, <2>2, SetIntervalInduction
  <2>4. QED
    BY <1>7, <2>3
<1>10. QED
  BY <1>7, <1>8, <1>9 DEF ClosureSteps

(* A step that adds nothing has reached a closed set.                      *)
LEMMA ClosedSteps ==
  ASSUME NEW S \in SUBSET Instrs, NEW stop
  PROVE  ClosureStep(S, stop) = S <=> Closed(S, stop)
BY DEF ClosureStep, Closed

(* After N steps nothing is added: each step that adds something adds one  *)
(* of N instructions.                                                      *)
LEMMA ClosureCloses ==
  ASSUME NEW start \in SUBSET Instrs, NEW stop
  PROVE  Closed(ClosureOf(start, stop), stop)
<1>1. N \in Nat /\ IsFiniteSet(Instrs) /\ Cardinality(Instrs) = N
  BY NAssumption, FS_Interval DEF Instrs
<1>2. PICK f : ClosureSteps(f, start, stop)
  BY ClosureIterates
<1> USE <1>2 DEF ClosureSteps
<1>3. \A S \in SUBSET Instrs : IsFiniteSet(S) /\ Cardinality(S) \in Nat
  BY <1>1, FS_Subset, FS_CardinalityType
<1> DEFINE large == {n \in 0 .. N : Closed(f[n], stop) \/ Cardinality(f[n]) >= n}
<1>4. 0 \in large
  BY <1>1, <1>2, <1>3
<1>5. ASSUME NEW n \in 0 .. N - 1, n \in large
      PROVE  n + 1 \in large
  <2>1. /\ n + 1 \in 1 .. N /\ n + 1 \in 0 .. N /\ (n + 1) - 1 = n
        /\ n \in 0 .. N /\ n \in Nat
    BY <1>1
  <2>2. f[n + 1] = ClosureStep(f[n], stop) /\ f[n] \in SUBSET Instrs
        /\ f[n + 1] \in SUBSET Instrs
    BY <1>2, <2>1
  <2>3. CASE Closed(f[n], stop)
    BY <2>1, <2>2, <2>3, ClosedSteps
  <2>4. CASE ~ Closed(f[n], stop)
    <3>1. Cardinality(f[n]) >= n
      BY <1>5, <2>4
    <3>2. f[n] \subseteq f[n + 1] /\ f[n] # f[n + 1]
      BY <2>2, <2>4, ClosedSteps DEF ClosureStep
    <3>3. Cardinality(f[n]) < Cardinality(f[n + 1])
      <4>1. IsFiniteSet(f[n + 1]) /\ f[n] \in SUBSET f[n + 1]
        BY <1>3, <2>2, <3>2
      <4>2. Cardinality(f[n]) <= Cardinality(f[n + 1])
            /\ Cardinality(f[n]) # Cardinality(f[n + 1])
        BY <3>2, <4>1, FS_Subset
      <4>3. QED
        BY <1>3, <2>2, <4>2
    <3>4. QED
      BY <1>3, <2>1, <2>2, <3>1, <3>3
  <2>5. QED
    BY <2>3, <2>4
<1>6. 0 .. N \subseteq large
  <2> HIDE DEF large
  <2>1. QED
    BY <1>1, <1>4, <1>5, SetIntervalInduction
<1>7. f[N] \in SUBSET Instrs
  BY <1>1, <1>2
<1>8. CASE Cardinality(f[N]) >= N
  <2>1. Cardinality(f[N]) <= Cardinality(Instrs)
        /\ (Cardinality(Instrs) = Cardinality(f[N]) => Instrs = f[N])
    BY <1>1, <1>7, FS_Subset
  <2>2. f[N] = Instrs
    BY <1>1, <1>3, <1>7, <1>8, <2>1
  <2>3. QED
    BY <1>2, <2>2 DEF Closed
<1>9. QED
  BY <1>1, <1>2, <1>6, <1>8

(* The closure is the smallest closed set with the start in it.            *)
LEMMA ClosureSmallest ==
  ASSUME NEW start \in SUBSET Instrs, NEW stop,
         NEW S, start \subseteq S, Closed(S, stop)
  PROVE  ClosureOf(start, stop) \subseteq S
<1>1. N \in Nat
  BY NAssumption
<1>2. PICK f : ClosureSteps(f, start, stop)
  BY ClosureIterates
<1> USE <1>2 DEF ClosureSteps
<1> DEFINE within == {n \in 0 .. N : f[n] \subseteq S}
<1>3. 0 \in within
  BY <1>1, <1>2
<1>4. ASSUME NEW n \in 0 .. N - 1, n \in within
      PROVE  n + 1 \in within
  <2>1. n + 1 \in 1 .. N /\ n + 1 \in 0 .. N /\ (n + 1) - 1 = n
    BY <1>1
  <2>2. f[n + 1] = ClosureStep(f[n], stop)
    BY <1>2, <2>1
  <2>3. QED
    BY <1>4, <2>1, <2>2 DEF ClosureStep, Closed
<1>5. 0 .. N \subseteq within
  <2> HIDE DEF within
  <2>1. QED
    BY <1>1, <1>3, <1>4, SetIntervalInduction
<1>6. QED
  BY <1>1, <1>2, <1>5

(* And it has the start in it.                                             *)
LEMMA ClosureContains ==
  ASSUME NEW start \in SUBSET Instrs, NEW stop
  PROVE  start \subseteq ClosureOf(start, stop) /\ ClosureOf(start, stop) \subseteq Instrs
<1>1. N \in Nat
  BY NAssumption
<1>2. PICK f : ClosureSteps(f, start, stop)
  BY ClosureIterates
<1> USE <1>2 DEF ClosureSteps
<1> DEFINE above == {n \in 0 .. N : start \subseteq f[n]}
<1>3. 0 \in above
  BY <1>1, <1>2
<1>4. ASSUME NEW n \in 0 .. N - 1, n \in above
      PROVE  n + 1 \in above
  <2>1. n + 1 \in 1 .. N /\ n + 1 \in 0 .. N /\ (n + 1) - 1 = n
    BY <1>1
  <2>2. f[n + 1] = ClosureStep(f[n], stop)
    BY <1>2, <2>1
  <2>3. QED
    BY <1>4, <2>1, <2>2 DEF ClosureStep
<1>5. 0 .. N \subseteq above
  <2> HIDE DEF above
  <2>1. QED
    BY <1>1, <1>3, <1>4, SetIntervalInduction
<1>6. QED
  BY <1>1, <1>2, <1>5

(* So a set is the closure exactly when it has the start in it, is closed, *)
(* and lies in every such set.                                             *)
LEMMA IsClosure ==
  ASSUME NEW start \in SUBSET Instrs, NEW stop,
         NEW S, start \subseteq S, Closed(S, stop), S \subseteq ClosureOf(start, stop)
  PROVE  S = ClosureOf(start, stop)
BY ClosureSmallest

(* An instruction waits in a list.                                         *)
Waits(list, i) == \E k \in DOMAIN list : list[k] = i

(* What is to be deleted is what the dead instructions reach: they start   *)
(* with the unused ones, each is reached from those, and the operands of   *)
(* each are dead too, or in uses, or its turn in the list is still to come.*)
DeadInv ==
  /\ unscanned \subseteq program.reachable
  /\ pc \in {"scan", "delete"} => Marked("live") \subseteq Effects
  /\ Unused \subseteq unscanned \cup ToDelete
  /\ ToDelete \subseteq ClosureOf(Unused, Effects)
  /\ pc = "delete" =>
       \A k \in DOMAIN uses : \E v \in Marked("dead") \cap program.reachable :
         Uses(program.operands, v, uses[k])
  /\ \A u \in ToDelete \cap program.reachable, i \in Instrs \ Effects :
       Uses(program.operands, u, i) =>
         i \in ToDelete \/ Waits(deletelist, u) \/ (pc = "delete" /\ Waits(uses, i))

(* The live ones likewise, from the effects.                               *)
LiveInv ==
  /\ Marked("live") \subseteq present
  /\ Marked("live") \subseteq ClosureOf(Effects, {})
  /\ pc = "done" => worklist = <<>>
  /\ pc = "mark" =>
       /\ \A i \in present : operands[i] = program.operands[i]
       /\ \A k \in DOMAIN uses : \E v \in Marked("live") \cap program.reachable :
            Uses(program.operands, v, uses[k])
  /\ \A u \in Marked("live") \cap program.reachable, i \in Instrs :
       Uses(program.operands, u, i) =>
         i \in Marked("live") \/ Waits(worklist, u) \/ (pc = "mark" /\ Waits(uses, i))

(* The function the pass works on is well formed, and so are the sets of   *)
(* its instructions the marks are compared with.                           *)
LEMMA StartSets ==
  ASSUME TypeOK
  PROVE  /\ Effects \in SUBSET Instrs /\ Unused \in SUBSET Instrs
         /\ program.reachable \subseteq Instrs
         /\ \A i \in Instrs : isTriviallyLive(i) /\ i \in program.reachable <=> i \in Effects
         /\ Unused \cap Effects = {}
BY DEF TypeOK, Program, Effects, EffectsOf, HasEffect, isTriviallyLive, Unused

(* None of this changes with a step.                                       *)
LEMMA ClosuresFixed ==
  ASSUME [Next]_vars
  PROVE  /\ Effects' = Effects /\ Unused' = Unused
         /\ ClosureOf(Unused, Effects)' = ClosureOf(Unused, Effects)
         /\ ClosureOf(Effects, {})' = ClosureOf(Effects, {})
<1>0. program' = program
  BY ProgramFixed
<1>1. Effects' = Effects /\ Unused' = Unused
  BY <1>0 DEF Effects, Unused, isTriviallyLive
<1>2. QED
  BY <1>0, <1>1 DEF ClosureOf, ClosureStep

(* Popping keeps the others waiting, pushing adds one, and the operands of *)
(* an instruction wait in the list that OperandsToVisit gives.             *)
LEMMA WaitsPop ==
  ASSUME NEW s \in Seq(Instrs), s # <<>>, NEW i \in Instrs, Waits(s, i)
  PROVE  i = Last(s) \/ Waits(Front(s), i)
BY PopBack DEF Waits

LEMMA WaitsPush ==
  ASSUME NEW s \in Seq(Instrs), NEW e \in Instrs, NEW i \in Instrs
  PROVE  Waits(Append(s, e), i) <=> Waits(s, i) \/ i = e
BY PushBack DEF Waits

LEMMA WaitsTail ==
  ASSUME NEW s \in Seq(Instrs), s # <<>>, NEW i \in Instrs, Waits(s, i)
  PROVE  i = Head(s) \/ Waits(Tail(s), i)
<1>1. PICK k \in DOMAIN s : s[k] = i
  BY DEF Waits
<1>2. CASE k = 1
  BY <1>1, <1>2, HeadTail
<1>3. CASE k # 1
  <2>1. k - 1 \in DOMAIN Tail(s) /\ Tail(s)[k - 1] = s[k]
    BY <1>3
  <2>2. QED
    BY <1>1, <2>1 DEF Waits
<1>4. QED
  BY <1>2, <1>3

(* At first nothing is marked.                                             *)
LEMMA InitMarks == Init => DeadInv /\ LiveInv
<1> SUFFICES ASSUME Init PROVE DeadInv /\ LiveInv
  OBVIOUS
<1>1. ToDelete = {} /\ Marked("live") = {} /\ unscanned = program.reachable /\ pc = "scan"
  BY DEF Init, Marked, ToDelete
<1>2. Unused \subseteq program.reachable
  BY DEF Unused
<1>3. QED
  BY <1>1, <1>2 DEF DeadInv, LiveInv

(* Every step keeps the dead marks a closure in the making.                *)
LEMMA NextDead ==
  TypeOK /\ ListsInv /\ PassInv /\ DeadInv /\ [Next]_vars => DeadInv'
<1> SUFFICES ASSUME TypeOK, ListsInv, PassInv, DeadInv, [Next]_vars
             PROVE  DeadInv'
  OBVIOUS
<1>a. /\ Effects' = Effects /\ Unused' = Unused /\ program' = program
      /\ ClosureOf(Unused, Effects)' = ClosureOf(Unused, Effects)
  BY ClosuresFixed, ProgramFixed
<1>b. /\ Effects \in SUBSET Instrs /\ Unused \in SUBSET Instrs
      /\ program.reachable \subseteq Instrs
      /\ \A i \in Instrs : isTriviallyLive(i) /\ i \in program.reachable <=> i \in Effects
      /\ Unused \cap Effects = {}
  BY StartSets
<1> PICK D : D = ClosureOf(Unused, Effects)
  OBVIOUS
<1>c. Unused \subseteq D /\ Closed(D, Effects)
  BY <1>b, ClosureContains, ClosureCloses
<1> DEFINE Pending(waiting, left, dead) ==
             \A u \in dead \cap program.reachable, i \in Instrs \ Effects :
               Uses(program.operands, u, i) =>
                 i \in dead \/ Waits(waiting, u) \/ Waits(left, i)
           Reason(left) ==
             \A k \in DOMAIN left : \E v \in Marked("dead") \cap program.reachable :
               Uses(program.operands, v, left[k])
<1>d. ASSUME /\ unscanned' \subseteq program.reachable
             /\ pc' \in {"scan", "delete"} => Marked("live")' \subseteq Effects
             /\ Unused \subseteq unscanned' \cup ToDelete'
             /\ ToDelete' \subseteq D,
             pc' = "delete" => Reason(uses)',
             Pending(deletelist', IF pc' = "delete" THEN uses' ELSE <<>>, ToDelete')
      PROVE  DeadInv'
  <2>1. pc' = "delete" =>
          \A k \in DOMAIN uses' : \E v \in Marked("dead")' \cap program.reachable :
            Uses(program.operands, v, uses'[k])
    BY <1>a, <1>d
  <2>2. \A u \in ToDelete' \cap program.reachable, i \in Instrs \ Effects :
          Uses(program.operands, u, i) =>
            i \in ToDelete' \/ Waits(deletelist', u) \/ (pc' = "delete" /\ Waits(uses', i))
    <3>1. \A i : ~ Waits(<<>>, i)
      BY NoEntry DEF Waits
    <3>2. CASE pc' = "delete"
      BY <1>d, <3>2
    <3>3. CASE pc' # "delete"
      BY <1>d, <3>1, <3>3
    <3>4. QED
      BY <3>2, <3>3
  <2>3. ToDelete' \subseteq ClosureOf(Unused, Effects)'
    BY <1>a, <1>d
  <2>4. QED
    BY <1>a, <1>d, <2>1, <2>2, <2>3 DEF DeadInv
<1>e. /\ unscanned \subseteq program.reachable
      /\ pc \in {"scan", "delete"} => Marked("live") \subseteq Effects
      /\ Unused \subseteq unscanned \cup ToDelete
      /\ ToDelete \subseteq D
  BY DEF DeadInv
<1>f. (pc = "delete" => Reason(uses))
      /\ Pending(deletelist, IF pc = "delete" THEN uses ELSE <<>>, ToDelete)
  BY DEF DeadInv, Waits
<1>1. CASE Scan
  <2> PICK i \in unscanned :
        /\ unscanned' = unscanned \ {i}
        /\ ScanLive(i) \/ ScanUnused(i) \/ ScanUsed(i)
    BY <1>1 DEF Scan
  <2>1. /\ i \in Instrs /\ i \in program.reachable /\ liveSet[i] = "none"
        /\ pc = "scan" /\ pc' = "scan" /\ ToDelete = Marked("dead")
        /\ ToDelete' = Marked("dead")'
    BY <1>1 DEF Scan, TypeOK, ListsInv, DeadInv, ToDelete
  <2>2. use_empty(i) <=> \A u \in Instrs : ~ Uses(program.operands, u, i)
    BY <2>1 DEF PassInv, UntouchedInv, use_empty
  <2>3. i \in Unused <=> ~ isTriviallyLive(i) /\ use_empty(i)
    BY <2>1, <2>2 DEF Unused
  <2>4. Pending(deletelist, <<>>, ToDelete)
    BY <1>f, <2>1
  <2>5. CASE ScanUnused(i)
    <3>1. /\ Marked("dead")' = Marked("dead") \cup {i} /\ Marked("live")' = Marked("live")
          /\ deletelist' = Append(deletelist, i) /\ i \in Unused
      BY <2>1, <2>3, <2>5 DEF ScanUnused, Marked, TypeOK
    <3>2. \A u \in Instrs : Waits(deletelist', u) <=> Waits(deletelist, u) \/ u = i
      BY <2>1, <3>1, WaitsPush DEF TypeOK
    <3>3. Pending(deletelist', <<>>, ToDelete')
      BY <1>b, <2>1, <2>4, <3>1, <3>2
    <3>4. QED
      BY <1>c, <1>d, <1>e, <2>1, <3>1, <3>3
  <2>6. CASE ScanLive(i)
    <3>1. /\ Marked("dead")' = Marked("dead") /\ Marked("live")' = Marked("live") \cup {i}
          /\ deletelist' = deletelist /\ i \in Effects
      BY <1>b, <2>1, <2>6 DEF ScanLive, Marked, TypeOK
    <3>2. i \notin Unused
      BY <1>b, <3>1
    <3>3. QED
      BY <1>d, <1>e, <2>1, <2>4, <3>1, <3>2
  <2>7. CASE ScanUsed(i)
    <3>1. /\ Marked("dead")' = Marked("dead") /\ Marked("live")' = Marked("live")
          /\ deletelist' = deletelist /\ i \notin Unused
      BY <2>3, <2>7 DEF ScanUsed, Marked
    <3>2. QED
      BY <1>d, <1>e, <2>1, <2>4, <3>1
  <2>8. QED
    BY <2>5, <2>6, <2>7
<1>2. CASE ScanDone
  <2>1. /\ uses = <<>> /\ uses' = <<>> /\ pc = "scan" /\ pc' = "delete"
        /\ unscanned' = unscanned /\ deletelist' = deletelist
        /\ ToDelete' = ToDelete /\ Marked("live")' = Marked("live")
    BY <1>2 DEF ScanDone, PassInv, JustifiedInv, ToDelete, Marked
  <2>2. Reason(uses)'
    BY <2>1, NoEntry
  <2>3. QED
    BY <1>d, <1>e, <1>f, <2>1, <2>2
<1>3. CASE PopDead
  <2> DEFINE l == Last(deletelist)
  <2>0. /\ deletelist # <<>> /\ uses = <<>> /\ pc = "delete" /\ pc' = "delete"
        /\ deletelist' = Front(deletelist) /\ uses' = OperandsToVisit(l)
    BY <1>3 DEF PopDead
  <2>1. /\ l \in Instrs /\ liveSet[l] = "dead" /\ deletelist # <<>> /\ uses = <<>>
        /\ pc = "delete" /\ pc' = "delete" /\ deletelist' = Front(deletelist)
        /\ uses' = OperandsToVisit(l)
    <3>1. deletelist \in Seq(Instrs)
      BY DEF TypeOK
    <3>2. \A k \in DOMAIN deletelist : liveSet[deletelist[k]] = "dead"
      BY <2>0 DEF ListsInv, ListsInOrder, Entries
    <3>3. PICK d : d = deletelist
      OBVIOUS
    <3>4. d \in Seq(Instrs) /\ d # <<>>
      BY <2>0, <3>1, <3>3
    <3>5. Last(d) \in Instrs /\ Len(d) \in DOMAIN d /\ Last(d) = d[Len(d)]
      BY <3>4, PopBack
    <3>6. l \in Instrs /\ liveSet[l] = "dead"
      BY <3>2, <3>3, <3>5
    <3>7. QED
      BY <2>0, <3>6
  <2>2. /\ ToDelete = Marked("dead") /\ ToDelete' = ToDelete /\ Marked("dead")' = Marked("dead")
        /\ Marked("live")' = Marked("live") /\ unscanned' = unscanned /\ l \in Marked("dead")
    BY <1>3, <2>1 DEF PopDead, ToDelete, Marked
  <2>3. operands = program.operands
    BY <2>1 DEF PassInv, UntouchedInv
  <2>4. Reason(uses)'
    <3>1. \A k \in DOMAIN uses' : l \in program.reachable
            /\ Uses(program.operands, l, uses'[k])
      BY <2>1, <2>3, NoEntry DEF OperandsToVisit, Uses
    <3>2. QED
      BY <1>a, <2>2, <3>1
  <2>5. ASSUME NEW u \in ToDelete \cap program.reachable, NEW i \in Instrs \ Effects,
               Uses(program.operands, u, i), i \notin ToDelete
        PROVE  Waits(deletelist', u) \/ Waits(uses', i)
    <3>1. u \in Instrs /\ Waits(deletelist, u)
      BY <1>b, <1>f, <2>1, <2>5, NoEntry DEF Waits
    <3>2. CASE u = l
      BY <2>1, <2>3, <2>5, <3>2 DEF OperandsToVisit, Uses, Waits
    <3>3. QED
      BY <2>1, <3>1, <3>2, WaitsPop DEF TypeOK
  <2>6. QED
    BY <1>d, <1>e, <2>1, <2>2, <2>4, <2>5
<1>4. CASE VisitDeadOperand
  <2> DEFINE i == Head(uses)
  <2>1. /\ i \in Instrs /\ uses # <<>> /\ uses' = Tail(uses) /\ unscanned' = unscanned
        /\ 1 \in DOMAIN uses /\ uses[1] = i /\ pc = "delete" /\ pc' = "delete"
        /\ \A k \in DOMAIN Tail(uses) : k + 1 \in DOMAIN uses /\ Tail(uses)[k] = uses[k + 1]
    BY <1>4, HeadTail DEF VisitDeadOperand, TypeOK
  <2>2. ToDelete = Marked("dead") /\ ToDelete' = Marked("dead")'
    BY <2>1 DEF ToDelete
  <2> HIDE DEF i
  <2>3. PICK v \in Marked("dead") \cap program.reachable : Uses(program.operands, v, i)
    BY <1>f, <2>1
  <2>4. \A j \in Instrs : Waits(uses, j) => j = i \/ Waits(uses', j)
    BY <2>1, WaitsTail DEF TypeOK, i
  <2>5. Marked("dead") \subseteq Marked("dead")' => Reason(uses)'
    BY <1>a, <1>f, <2>1
  <2>6. Pending(deletelist, uses, ToDelete)
    BY <1>f, <2>1
  <2>7. CASE liveSet[i] = "none"
    <3>1. /\ deletelist' = Append(deletelist, i)
          /\ Marked("dead")' = Marked("dead") \cup {i} /\ Marked("live")' = Marked("live")
      BY <1>4, <2>1, <2>7 DEF VisitDeadOperand, Marked, TypeOK, i
    <3>2. \A u \in Instrs : Waits(deletelist', u) <=> Waits(deletelist, u) \/ u = i
      BY <2>1, <3>1, WaitsPush DEF TypeOK
    <3>3. i \notin Effects
      BY <2>1, <2>7 DEF PassInv, ScanInv
    <3>4. i \in D
      BY <1>c, <1>e, <2>1, <2>2, <2>3, <3>3 DEF Closed
    <3>5. Pending(deletelist', uses', ToDelete')
      BY <1>b, <2>2, <2>4, <2>6, <3>1, <3>2
    <3>6. QED
      BY <1>d, <1>e, <2>1, <2>2, <2>5, <3>1, <3>4, <3>5
  <2>8. CASE liveSet[i] # "none"
    <3>1. /\ deletelist' = deletelist /\ Marked("dead")' = Marked("dead")
          /\ Marked("live")' = Marked("live")
      BY <1>4, <2>1, <2>8 DEF VisitDeadOperand, Marked, i
    <3>2. i \in Marked("dead") \/ i \in Effects
      BY <1>e, <2>1, <2>8 DEF Marked, TypeOK
    <3>3. Pending(deletelist', uses', ToDelete')
      BY <1>b, <2>2, <2>4, <2>6, <3>1, <3>2
    <3>4. QED
      BY <1>d, <1>e, <2>1, <2>2, <2>5, <3>1, <3>3
  <2>9. QED
    BY <2>7, <2>8
<1>5. CASE DropDead
  <2>1. present' = Instrs /\ Marked("dead")' = Marked("dead") /\ ToDelete' = ToDelete
        /\ pc = "delete" /\ pc' = "erase" /\ uses = <<>> /\ deletelist' = deletelist
        /\ unscanned' = unscanned
    BY <1>5 DEF DropDead, PassInv, UntouchedInv, Marked, ToDelete
  <2>2. QED
    BY <1>d, <1>e, <1>f, <2>1
<1>6. CASE pc \notin {"scan", "delete"}
  <2>1. pc' \notin {"scan", "delete"} /\ unscanned' = unscanned /\ deletelist' = deletelist
    BY <1>6 DEF Next, vars, Scan, ScanDone, PopDead, VisitDeadOperand, DropDead,
         Erase, EraseDone, PopLive, VisitLiveOperand, EraseAgain, Finished
  <2>2. ToDelete' = ToDelete
    <3>1. ASSUME NEW i \in Instrs, Erase(i) PROVE ToDelete' = ToDelete
      BY <3>1 DEF Erase, ToDelete, TypeOK
    <3>2. CASE EraseDone \/ PopLive \/ VisitLiveOperand \/ Finished \/ UNCHANGED vars
      BY <3>2 DEF EraseDone, PopLive, VisitLiveOperand, Finished, vars, ToDelete, Marked
    <3>3. CASE EraseAgain
      <4>1. keysToRemove = {} /\ keysToRemove' = {} /\ present' = present /\ pc' = "done"
        BY <3>3 DEF EraseAgain, PassInv, EraseInv, TypeOK
      <4>2. QED
        BY <1>6, <2>1, <4>1 DEF ToDelete
    <3>4. QED
      BY <1>6, <3>1, <3>2, <3>3 DEF Next, Scan, ScanDone, PopDead,
         VisitDeadOperand, DropDead
  <2>3. QED
    BY <1>6, <1>d, <1>e, <1>f, <2>1, <2>2
<1>7. CASE UNCHANGED vars
  <2>1. /\ ToDelete' = ToDelete /\ Marked("live")' = Marked("live") /\ Reason(uses)' = Reason(uses)
        /\ UNCHANGED <<unscanned, deletelist, uses, pc>>
    BY <1>7 DEF vars, ToDelete, Marked
  <2>2. QED
    BY <1>d, <1>e, <1>f, <2>1
<1>8. QED
  BY <1>1, <1>2, <1>3, <1>4, <1>5, <1>6, <1>7
     DEF Next, Erase, EraseDone, PopLive, VisitLiveOperand, EraseAgain, Finished

(* Once the erase loop is over, nothing that is used has been erased.      *)
LEMMA LiveStays ==
  ASSUME TypeOK, PassInv, pc = "mark", NEW v \in present, NEW i \in Instrs,
         Uses(program.operands, v, i)
  PROVE  i \in present
BY DEF TypeOK, PassInv, EraseInv

(* Every step keeps the live marks a closure in the making.                *)
LEMMA NextLive ==
  TypeOK /\ ListsInv /\ PassInv /\ DeadInv /\ LiveInv /\ [Next]_vars => LiveInv'
<1> SUFFICES ASSUME TypeOK, ListsInv, PassInv, DeadInv, LiveInv, [Next]_vars
             PROVE  LiveInv'
  OBVIOUS
<1>a. /\ Effects' = Effects /\ program' = program
      /\ ClosureOf(Effects, {})' = ClosureOf(Effects, {})
  BY ClosuresFixed, ProgramFixed
<1>b. /\ Effects \in SUBSET Instrs /\ program.reachable \subseteq Instrs
      /\ \A i \in Instrs : isTriviallyLive(i) /\ i \in program.reachable <=> i \in Effects
  BY StartSets
<1> PICK L : L = ClosureOf(Effects, {})
  OBVIOUS
<1>c. Effects \subseteq L /\ Closed(L, {})
  BY <1>b, ClosureContains, ClosureCloses
<1> DEFINE Pending(waiting, left, live) ==
             \A u \in live \cap program.reachable, i \in Instrs :
               Uses(program.operands, u, i) =>
                 i \in live \/ Waits(waiting, u) \/ Waits(left, i)
           Reason(left, live) ==
             \A k \in DOMAIN left : \E v \in live \cap program.reachable :
               Uses(program.operands, v, left[k])
           live == Marked("live")
<1>n. \A i : ~ Waits(<<>>, i)
  BY NoEntry DEF Waits
<1>d. ASSUME /\ live' \subseteq present' /\ live' \subseteq L
             /\ pc' = "done" => worklist' = <<>>
             /\ pc' = "mark" => \A i \in present' : operands'[i] = program.operands[i],
             pc' = "mark" => Reason(uses', live'),
             Pending(worklist', IF pc' = "mark" THEN uses' ELSE <<>>, live')
      PROVE  LiveInv'
  <2> HIDE DEF live
  <2>1. \A u \in live' \cap program.reachable, i \in Instrs :
          Uses(program.operands, u, i) =>
            i \in live' \/ Waits(worklist', u) \/ (pc' = "mark" /\ Waits(uses', i))
    BY <1>d, <1>n
  <2>2. live' \subseteq ClosureOf(Effects, {})'
    BY <1>a, <1>d
  <2>3. pc' = "mark" => \A k \in DOMAIN uses' : \E v \in live' \cap program.reachable :
                          Uses(program.operands, v, uses'[k])
    BY <1>d
  <2>4. QED
    BY <1>a, <1>d, <2>1, <2>2, <2>3 DEF LiveInv, live
<1>e. /\ live \subseteq present /\ live \subseteq L
      /\ pc = "done" => worklist = <<>>
      /\ pc = "mark" => \A i \in present : operands[i] = program.operands[i]
  BY DEF LiveInv
<1>f. (pc = "mark" => Reason(uses, live))
      /\ Pending(worklist, IF pc = "mark" THEN uses ELSE <<>>, live)
  BY <1>n DEF LiveInv
<1>g. present \subseteq Instrs /\ live \subseteq Instrs
  BY DEF TypeOK, Marked
<1> HIDE DEF live
<1>1. CASE Scan
  <2> PICK i \in unscanned :
        /\ unscanned' = unscanned \ {i}
        /\ ScanLive(i) \/ ScanUnused(i) \/ ScanUsed(i)
    BY <1>1 DEF Scan
  <2>1. /\ i \in Instrs /\ liveSet[i] = "none" /\ pc = "scan" /\ pc' = "scan"
        /\ present' = present /\ present = Instrs
    BY <1>1 DEF Scan, TypeOK, ListsInv, PassInv, UntouchedInv
  <2>2. Pending(worklist, <<>>, live)
    BY <1>f, <2>1
  <2>3. CASE ScanLive(i)
    <3>1. live' = live \cup {i} /\ worklist' = Append(worklist, i) /\ i \notin live
      BY <2>1, <2>3 DEF ScanLive, Marked, TypeOK, live
    <3>2. \A u \in Instrs : Waits(worklist', u) <=> Waits(worklist, u) \/ u = i
      BY <2>1, <3>1, WaitsPush DEF TypeOK
    <3>3. Pending(worklist', <<>>, live')
      BY <1>b, <2>2, <3>1, <3>2
    <3>4. i \in L
      <4>1. i \in unscanned /\ unscanned \subseteq program.reachable
        BY <1>1 DEF DeadInv
      <4>2. QED
        BY <1>b, <1>c, <2>1, <2>3, <4>1 DEF ScanLive
    <3>5. QED
      BY <1>d, <1>e, <2>1, <3>1, <3>3, <3>4
  <2>4. CASE ScanUnused(i) \/ ScanUsed(i)
    <3>1. live' = live /\ worklist' = worklist
      BY <2>1, <2>4 DEF ScanUnused, ScanUsed, Marked, TypeOK, live
    <3>2. QED
      BY <1>d, <1>e, <2>1, <2>2, <3>1
  <2>5. QED
    BY <2>3, <2>4
<1>2. CASE ScanDone \/ PopDead
  <2>1. /\ live' = live /\ worklist' = worklist /\ present' = present
        /\ pc \in {"scan", "delete"} /\ pc' = "delete"
    BY <1>2 DEF ScanDone, PopDead, Marked, live
  <2>2. QED
    BY <1>d, <1>e, <1>f, <2>1
<1>3. CASE VisitDeadOperand
  <2>1. Head(uses) \in Instrs
    BY <1>3, HeadTail DEF VisitDeadOperand, TypeOK
  <2>2. /\ live' = live /\ worklist' = worklist /\ present' = present
        /\ pc = "delete" /\ pc' = "delete"
    BY <1>3, <2>1 DEF VisitDeadOperand, Marked, TypeOK, live
  <2>3. QED
    BY <1>d, <1>e, <1>f, <2>2
<1>4. CASE DropDead
  <2>1. /\ live' = live /\ worklist' = worklist /\ present' = present
        /\ pc = "delete" /\ pc' = "erase"
    BY <1>4 DEF DropDead, Marked, live
  <2>2. QED
    BY <1>d, <1>e, <1>f, <2>1
<1>5. ASSUME NEW i \in Instrs, Erase(i)
      PROVE  LiveInv'
  <2>1. liveSet[i] = "dead" /\ pc = "erase" /\ pc' \in {"erase", "undefined"}
        /\ worklist' = worklist
    BY <1>5 DEF Erase, PassInv, EraseInv, Marked
  <2>2. live' = live /\ present \ {i} \subseteq present' /\ i \notin live
    BY <1>5, <2>1 DEF Erase, Marked, TypeOK, live
  <2>3. QED
    BY <1>d, <1>e, <1>f, <2>1, <2>2
<1>6. CASE EraseDone
  <2>1. /\ live' = live /\ worklist' = worklist /\ present' = present /\ operands' = operands
        /\ pc = "erase" /\ pc' = "mark" /\ keysToRemove = {} /\ uses = <<>> /\ uses' = uses
    BY <1>6 DEF EraseDone, Marked, live, PassInv, JustifiedInv
  <2>2. \A i \in present : operands[i] = program.operands[i]
    BY <2>1 DEF PassInv, EraseInv
  <2>3. Reason(uses', live')
    BY <2>1, NoEntry
  <2>4. QED
    BY <1>d, <1>e, <1>f, <2>1, <2>2, <2>3
<1>7. CASE PopLive
  <2> DEFINE l == Last(worklist)
  <2>1. /\ l \in Instrs /\ l \in live /\ worklist # <<>> /\ uses = <<>>
        /\ pc = "mark" /\ pc' = "mark" /\ worklist' = Front(worklist)
        /\ uses' = OperandsToVisit(l)
    <3>1. /\ l \in Instrs /\ Len(worklist) \in DOMAIN worklist /\ l = worklist[Len(worklist)]
          /\ liveSet[l] = "live"
      <4>1. worklist \in Seq(Instrs) /\ worklist # <<>>
        BY <1>7 DEF PopLive, TypeOK
      <4>2. l \in Instrs /\ Len(worklist) \in DOMAIN worklist /\ l = worklist[Len(worklist)]
        BY <4>1, PopBack
      <4>3. QED
        BY <4>2 DEF ListsInv, ListsInOrder, Entries
    <3>2. QED
      BY <1>7, <3>1 DEF PopLive, Marked, live
  <2>2. /\ live' = live /\ present' = present /\ operands' = operands
        /\ operands[l] = program.operands[l]
    BY <1>7, <1>e, <2>1 DEF PopLive, Marked, live
  <2>3. Reason(uses', live')
    <3>1. \A k \in DOMAIN uses' : l \in program.reachable
            /\ Uses(program.operands, l, uses'[k])
      BY <2>1, <2>2, NoEntry DEF OperandsToVisit, Uses
    <3>2. QED
      BY <2>1, <2>2, <3>1
  <2>4. ASSUME NEW u \in live \cap program.reachable, NEW i \in Instrs,
               Uses(program.operands, u, i), i \notin live
        PROVE  Waits(worklist', u) \/ Waits(uses', i)
    <3>1. u \in Instrs /\ Waits(worklist, u)
      BY <1>b, <1>f, <1>n, <2>1, <2>4
    <3>2. CASE u = l
      BY <2>1, <2>2, <2>4, <3>2 DEF OperandsToVisit, Uses, Waits
    <3>3. QED
      BY <2>1, <3>1, <3>2, WaitsPop DEF TypeOK
  <2>5. Pending(worklist', uses', live')
    BY <2>2, <2>4
  <2>6. QED
    BY <1>d, <1>e, <2>1, <2>2, <2>3, <2>5
<1>8. CASE VisitLiveOperand
  <2> DEFINE i == Head(uses)
  <2>1. /\ i \in Instrs /\ uses # <<>> /\ uses' = Tail(uses)
        /\ 1 \in DOMAIN uses /\ uses[1] = i /\ pc = "mark" /\ pc' = "mark"
        /\ \A k \in DOMAIN Tail(uses) : k + 1 \in DOMAIN uses /\ Tail(uses)[k] = uses[k + 1]
        /\ present' = present /\ operands' = operands
    BY <1>8, HeadTail DEF VisitLiveOperand, TypeOK
  <2> HIDE DEF i
  <2>2. PICK v \in live \cap program.reachable : Uses(program.operands, v, i)
    BY <1>f, <2>1
  <2>3. \A j \in Instrs : Waits(uses, j) => j = i \/ Waits(uses', j)
    BY <2>1, WaitsTail DEF TypeOK, i
  <2>4. live \subseteq live' => Reason(uses', live')
    BY <1>f, <2>1
  <2>5. Pending(worklist, uses, live)
    BY <1>f, <2>1
  <2>6. i \in present /\ i \in L
    BY <1>c, <1>e, <2>1, <2>2, LiveStays DEF Closed
  <2>7. CASE liveSet[i] = "none"
    <3>1. live' = live \cup {i} /\ worklist' = Append(worklist, i)
      BY <1>8, <2>1, <2>7 DEF VisitLiveOperand, Marked, TypeOK, i, live
    <3>2. \A u \in Instrs : Waits(worklist', u) <=> Waits(worklist, u) \/ u = i
      BY <2>1, <3>1, WaitsPush DEF TypeOK
    <3>3. Pending(worklist', uses', live')
      BY <1>b, <2>3, <2>5, <3>1, <3>2
    <3>4. QED
      BY <1>d, <1>e, <2>1, <2>4, <2>6, <3>1, <3>3
  <2>8. CASE liveSet[i] # "none"
    <3>1. live' = live /\ worklist' = worklist
      BY <1>8, <2>1, <2>8 DEF VisitLiveOperand, Marked, i, live
    <3>2. i \in live
      BY <2>1, <2>8 DEF PassInv, EraseInv, Marked, TypeOK, live
    <3>3. Pending(worklist', uses', live')
      BY <1>b, <2>3, <2>5, <3>1, <3>2
    <3>4. QED
      BY <1>d, <1>e, <2>1, <2>4, <3>1, <3>3
  <2>9. QED
    BY <2>7, <2>8
<1>9. CASE EraseAgain
  <2>1. keysToRemove = {} /\ keysToRemove' = {} /\ pc = "mark" /\ pc' = "done"
        /\ uses = <<>> /\ worklist = <<>> /\ worklist' = <<>>
    BY <1>9 DEF EraseAgain, PassInv, EraseInv
  <2>2. present' = present /\ live' = live
    BY <1>9, <2>1 DEF EraseAgain, TypeOK, Marked, live
  <2>3. QED
    BY <1>d, <1>e, <1>f, <2>1, <2>2
<1>10. CASE Finished \/ UNCHANGED vars
  <2>1. UNCHANGED <<worklist, present, operands, uses, pc>> /\ live' = live
    BY <1>10 DEF Finished, vars, Marked, live
  <2>2. QED
    BY <1>d, <1>e, <1>f, <2>1
<1>11. QED
  BY <1>1, <1>2, <1>3, <1>4, <1>5, <1>6, <1>7, <1>8, <1>9, <1>10 DEF Next

(* Whatever the function, and in whatever order its lists are worked off,  *)
(* the pass marks dead exactly what unused instructions reach, short of    *)
(* effects, and live exactly what effects reach; what it leaves unmarked   *)
(* in reachable code is used, and by nothing reachable that it has marked. *)
THEOREM MarksCorrect == Spec => []MarksAreExact
<1>1. TypeOK /\ ListsInv /\ PassInv /\ DeadInv /\ LiveInv => MarksAreExact
  <2> SUFFICES ASSUME TypeOK, ListsInv, PassInv, DeadInv, LiveInv
               PROVE  MarksAreExact
    OBVIOUS
  <2>a. /\ Effects \in SUBSET Instrs /\ Unused \in SUBSET Instrs
        /\ program.reachable \subseteq Instrs
        /\ \A i \in Instrs : isTriviallyLive(i) /\ i \in program.reachable <=> i \in Effects
    BY StartSets
  <2>b. \A i : ~ Waits(<<>>, i)
    BY NoEntry DEF Waits
  <2>1. ASSUME pc = "delete", uses = <<>>, deletelist = <<>>
        PROVE  Marked("dead") = ClosureOf(Unused, Effects)
    <3>1. ToDelete = Marked("dead") /\ unscanned = {}
      BY <2>1 DEF ToDelete, PassInv, ScanInv
    <3>2. Unused \subseteq Marked("dead") /\ Marked("dead") \subseteq ClosureOf(Unused, Effects)
      BY <3>1 DEF DeadInv
    <3>3. Closed(Marked("dead"), Effects)
      BY <2>1, <2>b, <3>1 DEF DeadInv, Closed
    <3>4. QED
      BY <2>a, <3>2, <3>3, IsClosure
  <2>2. ASSUME pc = "done"
        PROVE  Effects \subseteq Marked("live") /\ Closed(Marked("live"), {})
    BY <2>2, <2>a, <2>b DEF PassInv, ScanInv, LiveInv, Closed, Marked
  <2>3. ASSUME pc = "done"
        PROVE  Marked("live") = ClosureOf(Effects, {})
    BY <2>2, <2>3, <2>a, IsClosure DEF LiveInv
  <2>4. ASSUME pc = "done", NEW i \in program.reachable \cap present, liveSet[i] = "none"
        PROVE  /\ \E u \in Instrs : Uses(program.operands, u, i)
               /\ \A u \in program.reachable : Uses(program.operands, u, i) =>
                    u \in present /\ liveSet[u] = "none"
    <3>1. i \in Instrs /\ i \notin Effects /\ i \notin Marked("live")
      BY <2>2, <2>4, <2>a DEF Marked
    <3>2. i \notin ToDelete /\ unscanned = {} /\ Marked("dead") = {} /\ deletelist = <<>>
      BY <2>4 DEF ToDelete, PassInv, EraseInv, ScanInv, ListsInv
    <3>3. i \notin Unused
      BY <3>2 DEF DeadInv
    <3>4. \E u \in Instrs : Uses(program.operands, u, i)
      BY <2>4, <2>a, <3>1, <3>3 DEF Unused
    <3>5. ASSUME NEW u \in program.reachable, Uses(program.operands, u, i)
          PROVE  u \in present /\ liveSet[u] = "none"
      <4>1. u \in Instrs /\ u \notin Marked("live")
        BY <2>2, <2>4, <2>a, <3>1, <3>5 DEF Closed
      <4>2. u \notin ToDelete
        BY <2>4, <2>b, <3>1, <3>2, <3>5 DEF DeadInv
      <4>3. QED
        BY <2>4, <3>2, <4>1, <4>2 DEF ToDelete, Marked, TypeOK
    <3>6. QED
      BY <3>4, <3>5
  <2>5. QED
    BY <2>1, <2>3, <2>4 DEF MarksAreExact
<1>2. Init => DeadInv /\ LiveInv
  BY InitMarks
<1>3. TypeOK /\ ListsInv /\ PassInv /\ DeadInv /\ LiveInv /\ [Next]_vars
        => (DeadInv /\ LiveInv)'
  BY NextDead, NextLive
<1>4. QED
  BY <1>1, <1>2, <1>3, PassInvariant, PTL DEF Spec

----------------------------------------------------------------------------
(* Refinement                                                              *)

(* The abstract pass sees the same function.                               *)
LEMMA SameFunction ==
  /\ Abstract!Instrs = Instrs /\ Abstract!EffectsOf(program) = Effects
  /\ \A i : Abstract!UsersOf(i) = {u \in Instrs : Uses(program.operands, u, i)}
BY DEF Abstract!Instrs, Instrs, Abstract!EffectsOf, Effects, EffectsOf,
       Abstract!HasEffect, HasEffect, Abstract!UsersOf, Abstract!Uses, Uses

(* The pass starts as the abstract pass does.                              *)
LEMMA InitRefines == Init => Abstract!Init
<1> SUFFICES ASSUME Init
             PROVE  Abstract!Init
  OBVIOUS
<1>1. Abstract!Program = Program
  BY DEF Program, Abstract!Program, Instrs, Abstract!Instrs, Kinds,
         Abstract!Kinds, NoResult, Abstract!NoResult
<1>2. WellFormed(program) => Abstract!WellFormed(program)
  BY DEF WellFormed, Abstract!WellFormed, Instrs, Abstract!Instrs, NoResult,
         Abstract!NoResult, Uses, Abstract!Uses
<1>3. ToDelete = {}
  BY DEF Init, Marked, ToDelete
<1>4. QED
  BY <1>1, <1>2, <1>3, SameFunction, ProgramsAssumption
     DEF Init, Abstract!Init

(* Each step of the pass is one of the abstract pass or hidden from it: a  *)
(* dead mark condemns, the collection begins the erasing, which it does    *)
(* with no pending operand, an erasure erases or fails, and its end is the *)
(* end of the abstract pass.                                               *)
LEMMA NextRefines ==
  TypeOK /\ ListsInv /\ PassInv /\ DeadInv /\ [Next]_vars
    => [Abstract!Next]_(Abstract!vars)
<1> SUFFICES ASSUME TypeOK, ListsInv, PassInv, DeadInv, [Next]_vars
             PROVE  [Abstract!Next]_(Abstract!vars)
  OBVIOUS
<1>0. program' = program
  BY ProgramFixed
<1>a. /\ Effects \subseteq Instrs /\ program.reachable \subseteq Instrs
      /\ \A i \in Instrs : isTriviallyLive(i) /\ i \in program.reachable <=> i \in Effects
  BY StartSets
<1>b. ASSUME NEW i \in Instrs, i \notin ToDelete, i \notin Effects,
             pc \in {"scan", "delete"}, pc' = pc, ToDelete' = ToDelete \cup {i},
             present' = present,
             \/ i \in program.reachable /\ \A u \in Instrs : ~ Uses(program.operands, u, i)
             \/ \E v \in ToDelete \cap program.reachable : Uses(program.operands, v, i)
      PROVE  Abstract!Next
  <2>1. Abstract!Condemnable(i)
    BY <1>a, <1>b, SameFunction DEF Abstract!Condemnable
  <2>2. Abstract!Condemn(i)
    BY <1>0, <1>b, <2>1 DEF Abstract!Condemn
  <2>3. QED
    BY <2>2, SameFunction DEF Abstract!Next
<1>c. ASSUME pc \in {"scan", "delete"}, pc' \in {"scan", "delete"},
             liveSet' = liveSet, present' = present
      PROVE  UNCHANGED Abstract!vars
  BY <1>0, <1>c DEF Abstract!vars, ToDelete, Marked
<1>1. CASE Scan
  <2> PICK i \in unscanned :
        /\ unscanned' = unscanned \ {i}
        /\ ScanLive(i) \/ ScanUnused(i) \/ ScanUsed(i)
    BY <1>1 DEF Scan
  <2>1. /\ i \in Instrs /\ i \in program.reachable /\ liveSet[i] = "none"
        /\ pc = "scan" /\ pc' = pc /\ present' = present
    BY <1>1 DEF Scan, TypeOK, DeadInv, ListsInv
  <2>2. CASE ScanLive(i)
    <3>1. ToDelete' = ToDelete
      BY <2>1, <2>2 DEF ScanLive, ToDelete, Marked, TypeOK
    <3>2. QED
      BY <1>0, <2>1, <3>1 DEF Abstract!vars
  <2>3. CASE ScanUnused(i)
    <3>1. ToDelete' = ToDelete \cup {i} /\ i \notin ToDelete
      BY <2>1, <2>3 DEF ScanUnused, ToDelete, Marked, TypeOK
    <3>2. i \notin Effects /\ \A u \in Instrs : ~ Uses(program.operands, u, i)
      BY <1>a, <2>1, <2>3 DEF ScanUnused, use_empty, PassInv, UntouchedInv
    <3>3. QED
      BY <1>b, <2>1, <3>1, <3>2
  <2>4. CASE ScanUsed(i)
    BY <1>c, <2>1, <2>4 DEF ScanUsed
  <2>5. QED
    BY <2>2, <2>3, <2>4
<1>2. CASE ScanDone \/ PopDead
  BY <1>2, <1>c DEF ScanDone, PopDead
<1>3. CASE VisitDeadOperand
  <2> DEFINE i == Head(uses)
  <2>1. /\ i \in Instrs /\ 1 \in DOMAIN uses /\ uses[1] = i
        /\ pc = "delete" /\ pc' = pc /\ present' = present
    BY <1>3, HeadTail DEF VisitDeadOperand, TypeOK
  <2>2. CASE liveSet[i] = "none"
    <3>1. ToDelete' = ToDelete \cup {i} /\ i \notin ToDelete /\ ToDelete = Marked("dead")
      BY <1>3, <2>1, <2>2 DEF VisitDeadOperand, ToDelete, Marked, TypeOK
    <3>2. i \notin Effects
      BY <2>1, <2>2 DEF PassInv, ScanInv
    <3>3. \E v \in ToDelete \cap program.reachable : Uses(program.operands, v, i)
      BY <2>1, <3>1 DEF DeadInv
    <3> HIDE DEF i
    <3>4. QED
      BY <1>b, <2>1, <3>1, <3>2, <3>3
  <2>3. CASE liveSet[i] # "none"
    BY <1>3, <1>c, <2>1, <2>3 DEF VisitDeadOperand
  <2>4. QED
    BY <2>2, <2>3
<1>4. CASE DropDead
  <2>1. /\ pc = "delete" /\ pc' = "erase" /\ present' = present /\ uses = <<>>
        /\ deletelist = <<>> /\ unscanned = {} /\ present = Instrs
    BY <1>4 DEF DropDead, PassInv, ScanInv, UntouchedInv
  <2>2. ToDelete' = ToDelete
    BY <1>4, <2>1 DEF DropDead, ToDelete
  <2>3. \A i : ~ Waits(<<>>, i)
    BY NoEntry DEF Waits
  <2>4. ASSUME NEW i \in Instrs
        PROVE  ~ Abstract!Condemnable(i)
    <3>1. SUFFICES ASSUME i \notin ToDelete, i \notin Effects
                   PROVE  /\ ~ (i \in program.reachable
                                  /\ \A u \in Instrs : ~ Uses(program.operands, u, i))
                          /\ \A v \in ToDelete \cap program.reachable :
                               ~ Uses(program.operands, v, i)
      BY SameFunction DEF Abstract!Condemnable
    <3>2. i \notin Unused
      BY <2>1, <3>1 DEF DeadInv
    <3>3. QED
      BY <1>a, <2>1, <2>3, <3>1, <3>2 DEF Unused, DeadInv
  <2>5. Abstract!BeginErasing
    BY <1>0, <2>1, <2>2, <2>4, SameFunction DEF Abstract!BeginErasing
  <2>6. QED
    BY <2>5 DEF Abstract!Next
<1>5. ASSUME NEW i \in Instrs, Erase(i)
      PROVE  Abstract!Next
  <2>1. /\ pc = "erase" /\ i \in keysToRemove /\ i \in present
        /\ ToDelete = keysToRemove \cup (Instrs \ present)
        /\ present \subseteq Instrs
    BY <1>5 DEF Erase, ToDelete, PassInv, EraseInv, TypeOK
  <2>2. /\ \A u \in present \ keysToRemove : operands[u] = program.operands[u]
        /\ \A u \in keysToRemove : operands[u] = <<>>
    BY <2>1 DEF PassInv, EraseInv
  <2>3. CASE use_empty(i)
    <3>1. /\ pc' = "erase" /\ present' = present \ {i}
          /\ keysToRemove' = keysToRemove \ {i}
      BY <1>5, <2>1, <2>3 DEF Erase
    <3>2. ToDelete' = ToDelete
      BY <2>1, <3>1 DEF ToDelete
    <3>3. ASSUME NEW u \in Instrs, Uses(program.operands, u, i)
          PROVE  u \in ToDelete
      BY <2>1, <2>2, <2>3, <3>3 DEF use_empty, Uses
    <3>4. Abstract!Erase(i)
      BY <1>0, <2>1, <3>1, <3>2, <3>3, SameFunction DEF Abstract!Erase
    <3>5. QED
      BY <3>4, SameFunction DEF Abstract!Next
  <2>4. CASE ~ use_empty(i)
    <3>1. pc' = "undefined" /\ present' = present /\ keysToRemove' = keysToRemove
      BY <1>5, <2>4 DEF Erase
    <3>2. ToDelete' = ToDelete
      BY <2>1, <3>1 DEF ToDelete
    <3>3. PICK u \in present : Uses(operands, u, i)
      BY <2>4 DEF use_empty
    <3>4. u \notin keysToRemove
      BY <2>2, <3>3, NoEntry DEF Uses
    <3>5. u \in Instrs /\ u \notin ToDelete /\ Uses(program.operands, u, i)
      BY <2>1, <2>2, <3>3, <3>4 DEF Uses
    <3>6. Abstract!Fail(i)
      BY <1>0, <2>1, <3>1, <3>2, <3>5, SameFunction DEF Abstract!Fail
    <3>7. QED
      BY <3>6, SameFunction DEF Abstract!Next
  <2>5. QED
    BY <2>3, <2>4
<1>6. CASE EraseDone
  <2>1. /\ pc = "erase" /\ pc' = "mark" /\ present' = present
        /\ ToDelete = Instrs \ present /\ ToDelete' = ToDelete
    BY <1>6 DEF EraseDone, ToDelete
  <2>2. Abstract!Finish
    BY <1>0, <2>1 DEF Abstract!Finish
  <2>3. QED
    BY <2>2 DEF Abstract!Next
<1>7. CASE PopLive \/ VisitLiveOperand
  <2>1. /\ pc = "mark" /\ pc' = "mark" /\ present' = present
        /\ keysToRemove' = keysToRemove
    BY <1>7 DEF PopLive, VisitLiveOperand
  <2>2. QED
    BY <1>0, <2>1 DEF Abstract!vars, ToDelete
<1>8. CASE EraseAgain
  <2>1. keysToRemove = {} /\ Marked("dead") = {} /\ pc = "mark" /\ pc' = "done"
    BY <1>8 DEF EraseAgain, PassInv, EraseInv
  <2>2. present' = present /\ keysToRemove' = keysToRemove
    BY <1>8, <2>1 DEF EraseAgain, TypeOK
  <2>3. QED
    BY <1>0, <2>1, <2>2 DEF Abstract!vars, ToDelete
<1>9. CASE Finished \/ UNCHANGED vars
  BY <1>9 DEF vars, Finished, Abstract!vars, ToDelete, Marked
<1>10. QED
  BY <1>1, <1>2, <1>3, <1>4, <1>5, <1>6, <1>7, <1>8, <1>9 DEF Next

(* The pass implements the abstract dead-code elimination step by step: it *)
(* condemns only what is unused or an operand of something condemned, as   *)
(* long as there is such an instruction without effect, and erases only    *)
(* what condemned instructions alone use.                                  *)
THEOREM Refinement == Spec => ImplementsDeadCode
<1>1. Init => DeadInv
  BY InitMarks
<1>2. TypeOK /\ ListsInv /\ PassInv /\ DeadInv /\ [Next]_vars => DeadInv'
  BY NextDead
<1>3. QED
  BY <1>1, <1>2, InitRefines, NextRefines, PassInvariant, PTL
     DEF Spec, ImplementsDeadCode, Abstract!Spec

============================================================================
