----------------------------- MODULE DeadCode ------------------------------
(***************************************************************************)
(* Dead-code elimination whatever the lists, the marks and the order it    *)
(* works in: instructions without effect are condemned one by one, because *)
(* nothing uses them or because a condemned instruction does, until there  *)
(* is none left to condemn; then the condemned are erased one by one.      *)
(*                                                                         *)
(* It looks at the function only where the pass in src/llvm-passes/ADCE.cpp*)
(* does, so it condemns what else is used too, and fails when it comes to  *)
(* erase an instruction that one it has not condemned uses.                *)
(***************************************************************************)
EXTENDS DefUse

VARIABLES program, condemned, present, status

vars == <<program, condemned, present, status>>

UsersOf(i) == {u \in Instrs : Uses(program.operands, u, i)}

Init ==
  /\ program \in Program /\ WellFormed(program)
  /\ condemned = {}
  /\ present = Instrs
  /\ status = "running"

Condemnable(i) ==
  /\ i \notin condemned \cup EffectsOf(program)
  /\ \/ i \in program.reachable /\ UsersOf(i) = {}
     \/ UsersOf(i) \cap condemned \cap program.reachable # {}

Condemn(i) ==
  /\ status = "running"
  /\ Condemnable(i)
  /\ condemned' = condemned \cup {i}
  /\ UNCHANGED <<program, present, status>>

BeginErasing ==
  /\ status = "running"
  /\ \A i \in Instrs : ~ Condemnable(i)
  /\ status' = "erasing"
  /\ UNCHANGED <<program, condemned, present>>

Erase(i) ==
  /\ status = "erasing"
  /\ i \in condemned \cap present
  /\ UsersOf(i) \subseteq condemned
  /\ present' = present \ {i}
  /\ UNCHANGED <<program, condemned, status>>

(* i is to be erased, and used by an instruction that stays.               *)
Fail(i) ==
  /\ status = "erasing"
  /\ i \in condemned \cap present
  /\ UsersOf(i) \ condemned # {}
  /\ status' = "undefined"
  /\ UNCHANGED <<program, condemned, present>>

Finish ==
  /\ status = "erasing" /\ condemned \cap present = {}
  /\ status' = "done"
  /\ UNCHANGED <<program, condemned, present>>

Next ==
  \/ \E i \in Instrs : Condemn(i) \/ Erase(i) \/ Fail(i)
  \/ BeginErasing \/ Finish

Spec == Init /\ [][Next]_vars

============================================================================
