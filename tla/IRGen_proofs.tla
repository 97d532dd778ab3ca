---------------------------- MODULE IRGen_proofs ----------------------------
(***************************************************************************)
(* Proofs about IRGen: for every bound on the program compiled, no         *)
(* assertion of llvmlite fails, the verifier accepts each function, code   *)
(* goes before the insert blocks, and a loop's jumps are right until a     *)
(* loop inside it has been visited.                                        *)
(*                                                                         *)
(* The calls still to be made are abstracted to what they need of the      *)
(* generator's state and do to it, a "context"; the inductive invariant    *)
(* is that the calls lead, each allowed where it comes, from the context   *)
(* of the present state to that of a finished function.                    *)
(***************************************************************************)
EXTENDS IRGen, SequenceTheorems, TLAPS

----------------------------------------------------------------------------
(* Contexts                                                                *)

(* Block x lies before block y in the layout L.                            *)
Before(L, x, y) ==
  \E i, j \in DOMAIN L : i < j /\ L[i] = x /\ L[j] = y

(* Block x is in L, before the newest of the insert blocks s.              *)
Ahead(L, x, s) ==
  /\ \E i \in DOMAIN L : L[i] = x
  /\ s # <<>> => Before(L, x, s[Len(s)])

(* A context says: the current block (0: some block), whether it is open,  *)
(* which other blocks wait for their code, the insert blocks, the block    *)
(* just branched to when its phi is owed an incoming block, the increment  *)
(* the innermost loop has still to push, and whether the function is done. *)

(* Code is going to block x.                                               *)
Filling(x, W, s, u) ==
  [at |-> x, filling |-> TRUE, waiting |-> W, inserts |-> s, owing |-> 0,
   due |-> u, done |-> FALSE]

(* The current block has its terminator.                                   *)
Ended(W, s, o, u) ==
  [at |-> 0, filling |-> FALSE, waiting |-> W, inserts |-> s, owing |-> o,
   due |-> u, done |-> FALSE]

(* The function has been generated.                                        *)
Done ==
  [at |-> 0, filling |-> FALSE, waiting |-> {}, inserts |-> <<>>, owing |-> 0,
   due |-> {}, done |-> TRUE]

(* What the call i needs: E are the blocks that have a phi, L the layout,  *)
(* n the number of blocks.                                                 *)
Allowed(i, c, E, L, n) ==
  /\ ~ c.done
  /\ i.a \in 0 .. n /\ i.b \in 0 .. n
  /\ c.owing = IF i.name = "add_incoming" THEN i.a ELSE 0
  /\ \/ i.name = "stmts" /\ c.filling /\ c.due = {}
     \/ i.name = "expr" /\ c.filling
     \/ i.name = "branch" /\ c.filling /\ i.a # 0
     \/ i.name = "branchIfOpen" /\ c.filling /\ i.a # 0 /\ i.a \notin E
     \/ /\ i.name = "cbranch" /\ c.filling /\ i.a # 0 /\ i.b # 0
        /\ i.a \notin E /\ i.b \notin E
     \/ i.name = "ret" /\ c.filling
     \/ /\ i.name = "position" /\ ~ c.filling /\ i.a \in c.waiting
        /\ Ahead(L, i.a, c.inserts)
     \/ i.name = "newBlock" /\ ~ c.filling
     \/ i.name = "add_incoming" /\ ~ c.filling /\ i.a # 0 /\ i.a \in E
     \/ /\ i.name = "pushInsert" /\ c.filling /\ c.at # 0
        /\ Ahead(L, i.a, c.inserts) /\ Before(L, c.at, i.a)
     \/ i.name = "popInsert" /\ c.filling /\ c.inserts # <<>>
     \/ i.name = "incrementor" /\ c.filling /\ c.due = {i.a} /\ i.a \notin E
     \/ i.name = "leave" /\ ~ c.filling
     \/ i.name = "finish" /\ c.waiting = {} /\ c.inserts = <<>> /\ c.due = {}

(* The context it leaves.                                                  *)
After(i, c, E) ==
  CASE i.name \in {"stmts", "expr"} -> [c EXCEPT !.at = 0]
    [] i.name = "branch" ->
         [c EXCEPT !.at = 0, !.filling = FALSE,
                   !.owing = IF i.a \in E THEN i.a ELSE 0]
    [] i.name \in {"branchIfOpen", "cbranch", "ret"} ->
         [c EXCEPT !.at = 0, !.filling = FALSE]
    [] i.name = "position" ->
         [c EXCEPT !.at = i.a, !.filling = TRUE, !.waiting = @ \ {i.a}]
    [] i.name = "newBlock" -> [c EXCEPT !.at = 0, !.filling = TRUE]
    [] i.name = "add_incoming" -> [c EXCEPT !.owing = 0]
    [] i.name = "pushInsert" -> [c EXCEPT !.inserts = Append(@, i.a)]
    [] i.name = "popInsert" -> [c EXCEPT !.at = 0, !.inserts = Front(@)]
    [] i.name = "incrementor" -> [c EXCEPT !.due = {}]
    [] i.name = "leave" -> c
    [] i.name = "finish" -> Done

(* The calls s lead from context c to context d, through the contexts f.   *)
Through(f, s, c, d, E, L, n) ==
  /\ f[1] = c /\ f[Len(s) + 1] = d
  /\ \A k \in 1 .. Len(s) :
       Allowed(s[k], f[k], E, L, n) /\ f[k + 1] = After(s[k], f[k], E)

Path(s, c, d, E, L, n) == \E f : Through(f, s, c, d, E, L, n)

----------------------------------------------------------------------------
(* Lemmas: paths                                                           *)

Names ==
  {"stmts", "expr", "branch", "branchIfOpen", "cbranch", "ret", "position",
   "newBlock", "add_incoming", "pushInsert", "popInsert", "incrementor",
   "leave", "finish"}

Calls == [name : Names, a : Nat, b : Nat]

(* Two paths one after the other are a path.                               *)
LEMMA PathConcat ==
  ASSUME NEW s \in Seq(Calls), NEW t \in Seq(Calls), NEW c, NEW d, NEW e,
         NEW E, NEW L, NEW n,
         Path(s, c, d, E, L, n), Path(t, d, e, E, L, n)
  PROVE  /\ s \o t \in Seq(Calls)
         /\ Path(s \o t, c, e, E, L, n)
<1>1. PICK f : Through(f, s, c, d, E, L, n)
  BY DEF Path
<1>2. PICK g : Through(g, t, d, e, E, L, n)
  BY DEF Path
<1> DEFINE h == [k \in 1 .. Len(s) + Len(t) + 1 |->
                   IF k <= Len(s) THEN f[k] ELSE g[k - Len(s)]]
<1>3. /\ s \o t \in Seq(Calls) /\ Len(s) \in Nat /\ Len(t) \in Nat
      /\ Len(s \o t) = Len(s) + Len(t)
  OBVIOUS
<1>4. h[1] = c /\ h[Len(s) + Len(t) + 1] = e
  <2>1. f[1] = c /\ f[Len(s) + 1] = d /\ g[1] = d /\ g[Len(t) + 1] = e
    BY <1>1, <1>2 DEF Through
  <2>2. CASE Len(s) = 0
    <3>1. h[1] = g[1] /\ d = c /\ h[Len(s) + Len(t) + 1] = g[Len(t) + 1]
      BY <1>3, <2>1, <2>2
    <3>2. QED
      BY <2>1, <3>1
  <2>3. CASE Len(s) # 0
    <3>1. h[1] = f[1]
      BY <1>3, <2>3
    <3>2. h[Len(s) + Len(t) + 1] = g[Len(t) + 1]
      BY <1>3
    <3>3. QED
      BY <2>1, <3>1, <3>2
  <2>4. QED
    BY <2>2, <2>3
<1>5. ASSUME NEW k \in 1 .. Len(s)
      PROVE  (s \o t)[k] = s[k] /\ h[k] = f[k] /\ h[k + 1] = f[k + 1]
  BY <1>1, <1>2, <1>3 DEF Through
<1>6. ASSUME NEW k \in 1 .. Len(t)
      PROVE  /\ (s \o t)[Len(s) + k] = t[k]
             /\ h[Len(s) + k] = g[k] /\ h[Len(s) + k + 1] = g[k + 1]
  BY <1>3
<1>7. ASSUME NEW k \in 1 .. Len(s) + Len(t)
      PROVE  /\ Allowed((s \o t)[k], h[k], E, L, n)
             /\ h[k + 1] = After((s \o t)[k], h[k], E)
  <2> HIDE DEF h
  <2>1. CASE k \in 1 .. Len(s)
    BY <1>1, <1>5, <2>1 DEF Through
  <2>2. CASE k \notin 1 .. Len(s)
    <3>1. k - Len(s) \in 1 .. Len(t) /\ Len(s) + (k - Len(s)) = k
      BY <1>3, <2>2
    <3>2. PICK m \in 1 .. Len(t) : Len(s) + m = k
      BY <3>1
    <3>3. QED
      BY <1>2, <1>6, <3>2 DEF Through
  <2>3. QED
    BY <2>1, <2>2
<1>8. Through(h, s \o t, c, e, E, L, n)
  BY <1>3, <1>4, <1>7 DEF Through
<1>9. QED
  BY <1>3, <1>8 DEF Path

(* The path of no calls.                                                   *)
LEMMA PathEmpty ==
  ASSUME NEW c, NEW E, NEW L, NEW n
  PROVE  Path(<<>>, c, c, E, L, n)
<1> DEFINE f == [k \in 1 .. 1 |-> c]
<1>1. Through(f, <<>>, c, c, E, L, n)
  BY DEF Through
<1>2. QED
  BY <1>1 DEF Path

(* The path of one call.                                                   *)
LEMMA PathOne ==
  ASSUME NEW i \in Calls, NEW c, NEW E, NEW L, NEW n, Allowed(i, c, E, L, n)
  PROVE  /\ <<i>> \in Seq(Calls)
         /\ Path(<<i>>, c, After(i, c, E), E, L, n)
<1> DEFINE f == [k \in 1 .. 2 |-> IF k = 1 THEN c ELSE After(i, c, E)]
<1>1. Len(<<i>>) = 1 /\ <<i>>[1] = i
  OBVIOUS
<1>2. f[1] = c /\ f[1 + 1] = After(i, c, E)
  OBVIOUS
<1>3. Through(f, <<i>>, c, After(i, c, E), E, L, n)
  <2> HIDE DEF f
  <2>1. ASSUME NEW k \in 1 .. 1 PROVE k = 1
    OBVIOUS
  <2>2. QED
    BY <1>1, <1>2, <2>1 DEF Through
<1>4. <<i>> \in Seq(Calls)
  OBVIOUS
<1>5. QED
  BY <1>3, <1>4 DEF Path

(* The first call of a path is allowed, and the others go on from there.   *)
LEMMA PathHead ==
  ASSUME NEW s \in Seq(Calls), s # <<>>, NEW c, NEW d, NEW E, NEW L, NEW n,
         Path(s, c, d, E, L, n)
  PROVE  /\ Allowed(Head(s), c, E, L, n)
         /\ Path(Tail(s), After(Head(s), c, E), d, E, L, n)
<1>1. PICK f : Through(f, s, c, d, E, L, n)
  BY DEF Path
<1>2. /\ Len(s) \in Nat \ {0} /\ Head(s) = s[1]
      /\ Len(Tail(s)) = Len(s) - 1
      /\ \A k \in 1 .. Len(s) - 1 : Tail(s)[k] = s[k + 1]
  OBVIOUS
<1> DEFINE g == [k \in 1 .. Len(s) |-> f[k + 1]]
<1>3. /\ Allowed(Head(s), c, E, L, n)
      /\ f[2] = After(Head(s), c, E)
  BY <1>1, <1>2 DEF Through
<1>4. /\ g[1] = f[2] /\ g[Len(s)] = f[Len(s) + 1]
      /\ \A k \in 1 .. Len(s) - 1 : g[k] = f[k + 1] /\ g[k + 1] = f[(k + 1) + 1]
  BY <1>2
<1>5. ASSUME NEW k \in 1 .. Len(Tail(s))
      PROVE  /\ Allowed(Tail(s)[k], g[k], E, L, n)
             /\ g[k + 1] = After(Tail(s)[k], g[k], E)
  <2> HIDE DEF g
  <2>1. k + 1 \in 1 .. Len(s) /\ k \in 1 .. Len(s) - 1
    BY <1>2
  <2>2. QED
    BY <1>1, <1>2, <1>4, <2>1 DEF Through
<1>6. (Len(s) - 1) + 1 = Len(s)
  BY <1>2
<1>7. Through(g, Tail(s), After(Head(s), c, E), d, E, L, n)
  <2> HIDE DEF g
  <2> QED BY <1>1, <1>2, <1>3, <1>4, <1>5, <1>6 DEF Through
<1>8. QED
  BY <1>3, <1>7 DEF Path

(* The path of a first call and the others.                                *)
LEMMA PathCons ==
  ASSUME NEW s \in Seq(Calls), s # <<>>, NEW c, NEW d, NEW E, NEW L, NEW n,
         Allowed(Head(s), c, E, L, n),
         Path(Tail(s), After(Head(s), c, E), d, E, L, n)
  PROVE  Path(s, c, d, E, L, n)
<1>1. Head(s) \in Calls /\ Tail(s) \in Seq(Calls) /\ <<Head(s)>> \in Seq(Calls)
  OBVIOUS
<1>2. Path(<<Head(s)>>, c, After(Head(s), c, E), E, L, n)
  BY <1>1, PathOne
<1>3. Path(<<Head(s)>> \o Tail(s), c, d, E, L, n)
  BY <1>1, <1>2, PathConcat
<1>4. <<Head(s)>> \o Tail(s) = s
  OBVIOUS
<1>5. QED
  BY <1>3, <1>4

(* A path stays one when blocks are added, to the layout and to those that *)
(* have a phi: its calls are about the others.                             *)
LEMMA PathGrows ==
  ASSUME NEW s \in Seq(Calls), NEW c, NEW d, NEW E, NEW E2, NEW L, NEW L2,
         NEW n \in Nat, NEW n2 \in Nat, n <= n2,
         \A b \in 0 .. n : b \in E <=> b \in E2,
         \A x, y : Before(L, x, y) => Before(L2, x, y),
         \A i \in DOMAIN L : \E j \in DOMAIN L2 : L2[j] = L[i],
         Path(s, c, d, E, L, n)
  PROVE  Path(s, c, d, E2, L2, n2)
<1>1. ASSUME NEW x, NEW t, Ahead(L, x, t) PROVE Ahead(L2, x, t)
  BY <1>1 DEF Ahead
<1>2. ASSUME NEW i \in Calls, NEW e, Allowed(i, e, E, L, n)
      PROVE  Allowed(i, e, E2, L2, n2) /\ After(i, e, E) = After(i, e, E2)
  <2>1. i.a \in 0 .. n /\ i.b \in 0 .. n /\ i.a \in 0 .. n2 /\ i.b \in 0 .. n2
    BY <1>2 DEF Allowed
  <2>2. (i.a \in E <=> i.a \in E2) /\ (i.b \in E <=> i.b \in E2)
    BY <2>1
  <2>3. Allowed(i, e, E2, L2, n2)
    BY <1>1, <1>2, <2>1, <2>2 DEF Allowed
  <2>4. After(i, e, E) = After(i, e, E2)
    BY <2>2 DEF After
  <2>5. QED
    BY <2>3, <2>4
<1>3. PICK f : Through(f, s, c, d, E, L, n)
  BY DEF Path
<1>4. \A k \in 1 .. Len(s) : s[k] \in Calls
  OBVIOUS
<1>5. Through(f, s, c, d, E2, L2, n2)
  BY <1>2, <1>3, <1>4 DEF Through
<1>6. QED
  BY <1>5 DEF Path

----------------------------------------------------------------------------
(* Lemmas: the paths of the calls a visit method makes                     *)

LEMMA CallOne ==
  ASSUME NEW i, i \in Calls, NEW c, NEW d, NEW E, NEW L, NEW n,
         Allowed(i, c, E, L, n), d = After(i, c, E)
  PROVE  <<i>> \in Seq(Calls) /\ Path(<<i>>, c, d, E, L, n)
BY PathOne

LEMMA PathBranch ==
  ASSUME NEW x, NEW W, NEW s, NEW u, NEW E, NEW L, NEW n \in Nat,
         NEW b \in 1 .. n, NEW o, o = IF b \in E THEN b ELSE 0
  PROVE  /\ Branch(b) \in Seq(Calls)
         /\ Path(Branch(b), Filling(x, W, s, u), Ended(W, s, o, u), E, L, n)
<1>1. /\ Call("branch", b, 0) \in Calls
      /\ Allowed(Call("branch", b, 0), Filling(x, W, s, u), E, L, n)
  BY DEF Allowed, Calls, Names, Call, Filling
<1>2. Ended(W, s, o, u) = After(Call("branch", b, 0), Filling(x, W, s, u), E)
  BY DEF After, Call, Filling, Ended
<1>3. QED
  BY <1>1, <1>2, CallOne DEF Branch

LEMMA PathBranchIfOpen ==
  ASSUME NEW x, NEW W, NEW s, NEW u, NEW E, NEW L, NEW n \in Nat,
         NEW b \in 1 .. n, b \notin E
  PROVE  /\ BranchIfOpen(b) \in Seq(Calls)
         /\ Path(BranchIfOpen(b), Filling(x, W, s, u), Ended(W, s, 0, u), E, L, n)
<1>1. /\ Call("branchIfOpen", b, 0) \in Calls
      /\ Allowed(Call("branchIfOpen", b, 0), Filling(x, W, s, u), E, L, n)
  BY DEF Allowed, Calls, Names, Call, Filling
<1>2. Ended(W, s, 0, u)
        = After(Call("branchIfOpen", b, 0), Filling(x, W, s, u), E)
  BY DEF After, Call, Filling, Ended
<1>3. QED
  BY <1>1, <1>2, CallOne DEF BranchIfOpen

LEMMA PathCBranch ==
  ASSUME NEW x, NEW W, NEW s, NEW u, NEW E, NEW L, NEW n \in Nat,
         NEW a \in 1 .. n, a \notin E, NEW b \in 1 .. n, b \notin E
  PROVE  /\ CBranch(a, b) \in Seq(Calls)
         /\ Path(CBranch(a, b), Filling(x, W, s, u), Ended(W, s, 0, u), E, L, n)
<1>1. /\ Call("cbranch", a, b) \in Calls
      /\ Allowed(Call("cbranch", a, b), Filling(x, W, s, u), E, L, n)
  BY DEF Allowed, Calls, Names, Call, Filling
<1>2. Ended(W, s, 0, u) = After(Call("cbranch", a, b), Filling(x, W, s, u), E)
  BY DEF After, Call, Filling, Ended
<1>3. QED
  BY <1>1, <1>2, CallOne DEF CBranch

LEMMA PathReturn ==
  ASSUME NEW x, NEW W, NEW s, NEW u, NEW E, NEW L, NEW n \in Nat
  PROVE  /\ Return \in Seq(Calls)
         /\ Path(Return, Filling(x, W, s, u), Ended(W, s, 0, u), E, L, n)
<1>1. /\ Call("ret", 0, 0) \in Calls
      /\ Allowed(Call("ret", 0, 0), Filling(x, W, s, u), E, L, n)
  BY DEF Allowed, Calls, Names, Call, Filling
<1>2. Ended(W, s, 0, u) = After(Call("ret", 0, 0), Filling(x, W, s, u), E)
  BY DEF After, Call, Filling, Ended
<1>3. QED
  BY <1>1, <1>2, CallOne DEF Return

LEMMA PathPosition ==
  ASSUME NEW W, NEW s, NEW u, NEW E, NEW L, NEW n \in Nat,
         NEW b \in 1 .. n, b \in W, Ahead(L, b, s), NEW V, V = W \ {b}
  PROVE  /\ Position(b) \in Seq(Calls)
         /\ Path(Position(b), Ended(W, s, 0, u), Filling(b, V, s, u), E, L, n)
<1>1. /\ Call("position", b, 0) \in Calls
      /\ Allowed(Call("position", b, 0), Ended(W, s, 0, u), E, L, n)
  BY DEF Allowed, Calls, Names, Call, Ended
<1>2. Filling(b, V, s, u)
        = After(Call("position", b, 0), Ended(W, s, 0, u), E)
  BY DEF After, Call, Filling, Ended
<1>3. QED
  BY <1>1, <1>2, CallOne DEF Position

LEMMA PathNewBlock ==
  ASSUME NEW W, NEW s, NEW u, NEW E, NEW L, NEW n \in Nat
  PROVE  /\ NewBlock \in Seq(Calls)
         /\ Path(NewBlock, Ended(W, s, 0, u), Filling(0, W, s, u), E, L, n)
<1>1. /\ Call("newBlock", 0, 0) \in Calls
      /\ Allowed(Call("newBlock", 0, 0), Ended(W, s, 0, u), E, L, n)
  BY DEF Allowed, Calls, Names, Call, Ended
<1>2. Filling(0, W, s, u)
        = After(Call("newBlock", 0, 0), Ended(W, s, 0, u), E)
  BY DEF After, Call, Filling, Ended
<1>3. QED
  BY <1>1, <1>2, CallOne DEF NewBlock

LEMMA PathAddIncoming ==
  ASSUME NEW W, NEW s, NEW u, NEW E, NEW L, NEW n \in Nat, NEW b \in 1 .. n,
         b \in E
  PROVE  /\ AddIncoming(b) \in Seq(Calls)
         /\ Path(AddIncoming(b), Ended(W, s, b, u), Ended(W, s, 0, u), E, L, n)
<1>1. /\ Call("add_incoming", b, 0) \in Calls
      /\ Allowed(Call("add_incoming", b, 0), Ended(W, s, b, u), E, L, n)
  BY DEF Allowed, Calls, Names, Call, Ended
<1>2. Ended(W, s, 0, u)
        = After(Call("add_incoming", b, 0), Ended(W, s, b, u), E)
  BY DEF After, Call, Ended
<1>3. QED
  BY <1>1, <1>2, CallOne DEF AddIncoming

LEMMA PathPushIncrementor ==
  ASSUME NEW x, NEW W, NEW s, NEW E, NEW L, NEW n \in Nat,
         NEW b \in 0 .. n, b \notin E
  PROVE  /\ PushIncrementor(b) \in Seq(Calls)
         /\ Path(PushIncrementor(b), Filling(x, W, s, {b}),
                 Filling(x, W, s, {}), E, L, n)
<1>1. /\ Call("incrementor", b, 0) \in Calls
      /\ Allowed(Call("incrementor", b, 0), Filling(x, W, s, {b}), E, L, n)
  BY DEF Allowed, Calls, Names, Call, Filling
<1>2. Filling(x, W, s, {})
        = After(Call("incrementor", b, 0), Filling(x, W, s, {b}), E)
  BY DEF After, Call, Filling
<1>3. QED
  BY <1>1, <1>2, CallOne DEF PushIncrementor

LEMMA PathLeaveLoop ==
  ASSUME NEW W, NEW s, NEW u, NEW E, NEW L, NEW n \in Nat
  PROVE  /\ LeaveLoop \in Seq(Calls)
         /\ Path(LeaveLoop, Ended(W, s, 0, u), Ended(W, s, 0, u), E, L, n)
<1>1. /\ Call("leave", 0, 0) \in Calls
      /\ Allowed(Call("leave", 0, 0), Ended(W, s, 0, u), E, L, n)
  BY DEF Allowed, Calls, Names, Call, Ended
<1>2. Ended(W, s, 0, u) = After(Call("leave", 0, 0), Ended(W, s, 0, u), E)
  BY DEF After, Call, Ended
<1>3. QED
  BY <1>1, <1>2, CallOne DEF LeaveLoop

LEMMA PathFinishFunction ==
  ASSUME NEW x, NEW E, NEW L, NEW n \in Nat
  PROVE  /\ FinishFunction \in Seq(Calls)
         /\ Path(FinishFunction, Filling(x, {}, <<>>, {}), Done, E, L, n)
<1>1. /\ Call("finish", 0, 0) \in Calls
      /\ Allowed(Call("finish", 0, 0), Filling(x, {}, <<>>, {}), E, L, n)
  BY DEF Allowed, Calls, Names, Call, Filling
<1>2. Done = After(Call("finish", 0, 0), Filling(x, {}, <<>>, {}), E)
  BY DEF After, Call, Filling, Done
<1>3. QED
  BY <1>1, <1>2, CallOne DEF FinishFunction

LEMMA PathExpression ==
  ASSUME NEW x, NEW W, NEW s, NEW u, NEW E, NEW L, NEW n \in Nat
  PROVE  /\ Expression \in Seq(Calls)
         /\ Path(Expression, Filling(x, W, s, u), Filling(0, W, s, u), E, L, n)
<1>1. /\ Call("expr", 0, 0) \in Calls
      /\ Allowed(Call("expr", 0, 0), Filling(x, W, s, u), E, L, n)
  BY DEF Allowed, Calls, Names, Call, Filling
<1>2. Filling(0, W, s, u) = After(Call("expr", 0, 0), Filling(x, W, s, u), E)
  BY DEF After, Call, Filling
<1>3. QED
  BY <1>1, <1>2, CallOne DEF Expression

LEMMA PathStatements ==
  ASSUME NEW x, NEW W, NEW s, NEW E, NEW L, NEW n \in Nat
  PROVE  /\ Statements \in Seq(Calls)
         /\ Path(Statements, Filling(x, W, s, {}), Filling(0, W, s, {}), E, L, n)
<1>1. /\ Call("stmts", 0, 0) \in Calls
      /\ Allowed(Call("stmts", 0, 0), Filling(x, W, s, {}), E, L, n)
  BY DEF Allowed, Calls, Names, Call, Filling
<1>2. Filling(0, W, s, {}) = After(Call("stmts", 0, 0), Filling(x, W, s, {}), E)
  BY DEF After, Call, Filling
<1>3. QED
  BY <1>1, <1>2, CallOne DEF Statements

(* The calls of a node, whatever the current block has become after them.  *)
LEMMA PathVisitBefore ==
  ASSUME NEW node \in Seq(Calls), NEW x \in Nat, x # 0, NEW y,
         NEW W, NEW s \in Seq(Nat), NEW u, NEW E, NEW L,
         NEW n \in Nat, NEW b \in 1 .. n, Ahead(L, b, s), Before(L, x, b),
         Path(node, Filling(x, W, Append(s, b), u),
              Filling(y, W, Append(s, b), u), E, L, n)
  PROVE  /\ VisitBefore(node, b) \in Seq(Calls)
         /\ Path(VisitBefore(node, b), Filling(x, W, s, u),
                 Filling(0, W, s, u), E, L, n)
<1> DEFINE t == Append(s, b)
<1>1. t \in Seq(Nat) /\ t # <<>> /\ Front(t) = s
  <2>1. /\ t \in Seq(Nat) /\ Len(t) = Len(s) + 1 /\ Len(s) \in Nat
        /\ \A k \in 1 .. Len(s) : t[k] = s[k]
    OBVIOUS
  <2>2. /\ Front(t) \in Seq(Nat) /\ Len(Front(t)) = Len(s)
        /\ \A k \in 1 .. Len(s) : Front(t)[k] = s[k]
    BY <2>1 DEF Front
  <2> HIDE DEF t
  <2>3. Front(t) = s
    BY <2>2, SeqEqual
  <2>4. QED
    BY <2>1, <2>3
<1>2. /\ <<Call("pushInsert", b, 0)>> \in Seq(Calls)
      /\ Path(<<Call("pushInsert", b, 0)>>, Filling(x, W, s, u),
              Filling(x, W, t, u), E, L, n)
  <2>1. /\ Call("pushInsert", b, 0) \in Calls
        /\ Allowed(Call("pushInsert", b, 0), Filling(x, W, s, u), E, L, n)
    BY DEF Allowed, Calls, Names, Call, Filling
  <2>2. Filling(x, W, t, u)
          = After(Call("pushInsert", b, 0), Filling(x, W, s, u), E)
    BY DEF After, Call, Filling
  <2> HIDE DEF t
  <2>3. QED
    BY <2>1, <2>2, CallOne
<1> HIDE DEF t
<1>3. /\ <<Call("popInsert", 0, 0)>> \in Seq(Calls)
      /\ Path(<<Call("popInsert", 0, 0)>>, Filling(y, W, t, u),
              Filling(0, W, s, u), E, L, n)
  <2>1. /\ Call("popInsert", 0, 0) \in Calls
        /\ Allowed(Call("popInsert", 0, 0), Filling(y, W, t, u), E, L, n)
    BY <1>1 DEF Allowed, Calls, Names, Call, Filling
  <2>2. Filling(0, W, s, u)
          = After(Call("popInsert", 0, 0), Filling(y, W, t, u), E)
    BY <1>1 DEF After, Call, Filling
  <2>3. QED
    BY <2>1, <2>2, CallOne
<1>4. Path(node, Filling(x, W, t, u), Filling(y, W, t, u), E, L, n)
  BY DEF t
<1>5. /\ <<Call("pushInsert", b, 0)>> \o node \in Seq(Calls)
      /\ Path(<<Call("pushInsert", b, 0)>> \o node, Filling(x, W, s, u),
              Filling(y, W, t, u), E, L, n)
  BY <1>2, <1>4, PathConcat
<1>6. QED
  BY <1>3, <1>5, PathConcat DEF VisitBefore

----------------------------------------------------------------------------
(* Lemmas: the first call of a path                                        *)

(* A path to Done has calls unless it starts there.                        *)
LEMMA PathNotEmpty ==
  ASSUME NEW s \in Seq(Calls), NEW c, c # Done, NEW E, NEW L, NEW n,
         Path(s, c, Done, E, L, n)
  PROVE  s # <<>>
<1>1. SUFFICES ASSUME s = <<>> PROVE FALSE
  OBVIOUS
<1>2. PICK f : Through(f, s, c, Done, E, L, n)
  BY DEF Path
<1>3. Len(s) + 1 = 1
  BY <1>1
<1>4. QED
  BY <1>2, <1>3 DEF Through

LEMMA NotDone ==
  ASSUME NEW x, NEW W, NEW s, NEW o, NEW u
  PROVE  Filling(x, W, s, u) # Done /\ Ended(W, s, o, u) # Done
<1>1. Filling(x, W, s, u).done = FALSE /\ Ended(W, s, o, u).done = FALSE
  BY DEF Filling, Ended
<1>2. Done.done = TRUE
  BY DEF Done
<1>3. QED
  BY <1>1, <1>2

(* There is nothing after Done.                                            *)
LEMMA PathFromDone ==
  ASSUME NEW s \in Seq(Calls), NEW E, NEW L, NEW n,
         Path(s, Done, Done, E, L, n)
  PROVE  s = <<>>
<1>1. SUFFICES ASSUME s # <<>> PROVE FALSE
  OBVIOUS
<1>2. Allowed(Head(s), Done, E, L, n)
  BY <1>1, PathHead
<1>3. QED
  BY <1>2 DEF Allowed, Done

(* What the first call needs, and where the others go on from, when code   *)
(* is going to a block.                                                    *)
FirstFills(i, t, x, W, s, u, E, L, n) ==
  LET On(c) == Path(t, c, Done, E, L, n) IN
  /\ i.name \notin {"position", "newBlock", "add_incoming", "leave"}
  /\ i.name = "stmts" => u = {} /\ On(Filling(0, W, s, u))
  /\ i.name = "expr" => On(Filling(0, W, s, u))
  /\ i.name = "branch" =>
       i.a \in 1 .. n /\ On(Ended(W, s, IF i.a \in E THEN i.a ELSE 0, u))
  /\ i.name = "branchIfOpen" =>
       i.a \in 1 .. n /\ i.a \notin E /\ On(Ended(W, s, 0, u))
  /\ i.name = "cbranch" =>
       /\ i.a \in 1 .. n /\ i.a \notin E /\ i.b \in 1 .. n /\ i.b \notin E
       /\ On(Ended(W, s, 0, u))
  /\ i.name = "ret" => On(Ended(W, s, 0, u))
  /\ i.name = "pushInsert" =>
       /\ Ahead(L, i.a, s) /\ x # 0 /\ Before(L, x, i.a)
       /\ On(Filling(x, W, Append(s, i.a), u))
  /\ i.name = "popInsert" => s # <<>> /\ On(Filling(0, W, Front(s), u))
  /\ i.name = "incrementor" =>
       /\ i.a \in 0 .. n /\ i.a \notin E /\ u = {i.a}
       /\ On(Filling(x, W, s, {}))
  /\ i.name = "finish" => W = {} /\ s = <<>> /\ u = {} /\ t = <<>>

LEMMA FirstFilling ==
  ASSUME NEW todos \in Seq(Calls), NEW x, NEW W, NEW s, NEW u,
         NEW E, NEW L, NEW n \in Nat,
         Path(todos, Filling(x, W, s, u), Done, E, L, n)
  PROVE  /\ todos # <<>>
         /\ FirstFills(Head(todos), Tail(todos), x, W, s, u, E, L, n)
<1>1. todos # <<>>
  BY PathNotEmpty, NotDone
<1>2. PICK i, t : i = Head(todos) /\ t = Tail(todos)
  OBVIOUS
<1> DEFINE c == Filling(x, W, s, u)
<1>3. /\ Allowed(i, c, E, L, n) /\ Path(t, After(i, c, E), Done, E, L, n)
      /\ i \in Calls /\ t \in Seq(Calls)
  <2>1. Head(todos) \in Calls /\ Tail(todos) \in Seq(Calls)
    BY <1>1
  <2> HIDE DEF c
  <2>2. Path(todos, c, Done, E, L, n)
    BY DEF c
  <2>3. QED
    BY <1>1, <1>2, <2>1, <2>2, PathHead
<1>4. i.name \notin {"position", "newBlock", "add_incoming", "leave"}
  BY <1>3 DEF Allowed, Filling
<1>5. i.name = "stmts" => u = {} /\ After(i, c, E) = Filling(0, W, s, u)
  BY <1>3 DEF Allowed, After, Filling
<1>6. i.name = "expr" => After(i, c, E) = Filling(0, W, s, u)
  BY <1>3 DEF After, Filling
<1>7. i.name = "branch" =>
        /\ i.a \in 1 .. n
        /\ After(i, c, E) = Ended(W, s, IF i.a \in E THEN i.a ELSE 0, u)
  <2>1. i.name = "branch" => i.a \in 1 .. n
    BY <1>3 DEF Allowed
  <2>2. i.name = "branch" =>
          After(i, c, E) = Ended(W, s, IF i.a \in E THEN i.a ELSE 0, u)
    BY DEF After, Filling, Ended
  <2>3. QED
    BY <2>1, <2>2
<1>8. i.name = "branchIfOpen" =>
        /\ i.a \in 1 .. n /\ i.a \notin E
        /\ After(i, c, E) = Ended(W, s, 0, u)
  <2>1. i.name = "branchIfOpen" =>
          i.a \in 1 .. n /\ i.a \notin E
    BY <1>3 DEF Allowed
  <2>2. i.name = "branchIfOpen" => After(i, c, E) = Ended(W, s, 0, u)
    BY DEF After, Filling, Ended
  <2>3. QED
    BY <2>1, <2>2
<1>9. i.name = "cbranch" =>
        /\ i.a \in 1 .. n /\ i.a \notin E /\ i.b \in 1 .. n /\ i.b \notin E
        /\ After(i, c, E) = Ended(W, s, 0, u)
  <2>1. i.name = "cbranch" =>
          i.a \in 1 .. n /\ i.a \notin E /\ i.b \in 1 .. n /\ i.b \notin E
    BY <1>3 DEF Allowed
  <2>2. i.name = "cbranch" => After(i, c, E) = Ended(W, s, 0, u)
    BY DEF After, Filling, Ended
  <2>3. QED
    BY <2>1, <2>2
<1>10. i.name = "ret" => After(i, c, E) = Ended(W, s, 0, u)
  BY <1>3 DEF Allowed, After, Filling, Ended
<1>11. i.name = "pushInsert" =>
         /\ Ahead(L, i.a, s) /\ x # 0 /\ Before(L, x, i.a)
         /\ After(i, c, E) = Filling(x, W, Append(s, i.a), u)
  BY <1>3 DEF Allowed, After, Filling
<1>12. i.name = "popInsert" =>
         s # <<>> /\ After(i, c, E) = Filling(0, W, Front(s), u)
  BY <1>3 DEF Allowed, After, Filling
<1>13. i.name = "incrementor" =>
         /\ i.a \in 0 .. n /\ i.a \notin E /\ u = {i.a}
         /\ After(i, c, E) = Filling(x, W, s, {})
  BY <1>3 DEF Allowed, After, Filling
<1>14. i.name = "finish" =>
         W = {} /\ s = <<>> /\ u = {} /\ After(i, c, E) = Done
  BY <1>3 DEF Allowed, After, Filling
<1>15. i.name = "finish" => t = <<>>
  BY <1>3, <1>14, PathFromDone
<1> HIDE DEF c
<1>16. FirstFills(i, t, x, W, s, u, E, L, n)
  BY <1>3, <1>4, <1>5, <1>6, <1>7, <1>8, <1>9, <1>10, <1>11, <1>12, <1>13,
     <1>14, <1>15 DEF FirstFills
<1>17. QED
  BY <1>1, <1>2, <1>16

(* The same when the current block has its terminator.                     *)
FirstEnds(i, t, W, s, o, u, E, L, n) ==
  LET On(c) == Path(t, c, Done, E, L, n) IN
  /\ i.name \in {"position", "newBlock", "add_incoming", "leave", "finish"}
  /\ i.name # "add_incoming" => o = 0
  /\ i.name = "position" =>
       /\ i.a \in W /\ Ahead(L, i.a, s)
       /\ On(Filling(i.a, W \ {i.a}, s, u))
  /\ i.name = "newBlock" => On(Filling(0, W, s, u))
  /\ i.name = "add_incoming" =>
       o = i.a /\ i.a \in 1 .. n /\ i.a \in E /\ On(Ended(W, s, 0, u))
  /\ i.name = "leave" => On(Ended(W, s, 0, u))
  /\ i.name = "finish" => W = {} /\ s = <<>> /\ u = {} /\ t = <<>>

LEMMA FirstEnded ==
  ASSUME NEW todos \in Seq(Calls), NEW W, NEW s, NEW o, NEW u,
         NEW E, NEW L, NEW n \in Nat,
         Path(todos, Ended(W, s, o, u), Done, E, L, n)
  PROVE  /\ todos # <<>>
         /\ FirstEnds(Head(todos), Tail(todos), W, s, o, u, E, L, n)
<1>1. todos # <<>>
  BY PathNotEmpty, NotDone
<1>2. PICK i, t : i = Head(todos) /\ t = Tail(todos)
  OBVIOUS
<1> DEFINE c == Ended(W, s, o, u)
<1>3. /\ Allowed(i, c, E, L, n) /\ Path(t, After(i, c, E), Done, E, L, n)
      /\ i \in Calls /\ t \in Seq(Calls)
  <2>1. Head(todos) \in Calls /\ Tail(todos) \in Seq(Calls)
    BY <1>1
  <2> HIDE DEF c
  <2>2. Path(todos, c, Done, E, L, n)
    BY DEF c
  <2>3. QED
    BY <1>1, <1>2, <2>1, <2>2, PathHead
<1>4. /\ i.name \in {"position", "newBlock", "add_incoming", "leave", "finish"}
      /\ i.name # "add_incoming" => o = 0
  BY <1>3 DEF Allowed, Ended
<1>5. i.name = "position" =>
        /\ i.a \in W /\ Ahead(L, i.a, s)
        /\ After(i, c, E) = Filling(i.a, W \ {i.a}, s, u)
  BY <1>3, <1>4 DEF Allowed, After, Ended, Filling
<1>6. i.name = "newBlock" => After(i, c, E) = Filling(0, W, s, u)
  BY <1>3, <1>4 DEF After, Ended, Filling
<1>7. i.name = "add_incoming" =>
        /\ o = i.a /\ i.a \in 1 .. n /\ i.a \in E
        /\ After(i, c, E) = Ended(W, s, 0, u)
  <2>1. i.name = "add_incoming" => i.a \in 1 .. n /\ i.a \in E
    BY <1>3 DEF Allowed
  <2>2. i.name = "add_incoming" => o = i.a
    BY <1>3 DEF Allowed, Ended
  <2>3. i.name = "add_incoming" => After(i, c, E) = Ended(W, s, 0, u)
    BY DEF After, Ended
  <2>4. QED
    BY <2>1, <2>2, <2>3
<1>8. i.name = "leave" => After(i, c, E) = Ended(W, s, 0, u)
  BY <1>3, <1>4 DEF After, Ended
<1>9. i.name = "finish" =>
        W = {} /\ s = <<>> /\ u = {} /\ After(i, c, E) = Done
  BY <1>3 DEF Allowed, After, Ended
<1>10. i.name = "finish" => t = <<>>
  BY <1>3, <1>9, PathFromDone
<1> HIDE DEF c
<1>11. FirstEnds(i, t, W, s, o, u, E, L, n)
  BY <1>3, <1>4, <1>5, <1>6, <1>7, <1>8, <1>9, <1>10 DEF FirstEnds
<1>12. QED
  BY <1>1, <1>2, <1>11

(* A path that starts with a node does not say which block is current.     *)
LEMMA PathFromAnywhere ==
  ASSUME NEW todos \in Seq(Calls), todos # <<>>,
         Head(todos).name \in {"stmts", "expr"},
         NEW x, NEW y, NEW W, NEW s, NEW u, NEW E, NEW L, NEW n \in Nat,
         Path(todos, Filling(x, W, s, u), Done, E, L, n)
  PROVE  Path(todos, Filling(y, W, s, u), Done, E, L, n)
<1>1. PICK i, t : i = Head(todos) /\ t = Tail(todos)
  OBVIOUS
<1>2. /\ Allowed(i, Filling(x, W, s, u), E, L, n)
      /\ Path(t, After(i, Filling(x, W, s, u), E), Done, E, L, n)
  BY <1>1, PathHead
<1>3. i.name \in {"stmts", "expr"}
  BY <1>1
<1>4. Allowed(i, Filling(y, W, s, u), E, L, n)
  BY <1>2, <1>3 DEF Allowed, Filling
<1>5. After(i, Filling(x, W, s, u), E) = After(i, Filling(y, W, s, u), E)
  <2>1. \A z : After(i, Filling(z, W, s, u), E) = Filling(0, W, s, u)
    <3>1. CASE i.name = "stmts"
      BY <3>1 DEF After, Filling
    <3>2. CASE i.name = "expr"
      BY <3>2 DEF After, Filling
    <3>3. QED
      BY <1>3, <3>1, <3>2
  <2>2. QED
    BY <2>1
<1>6. QED
  BY <1>1, <1>2, <1>4, <1>5, PathCons

----------------------------------------------------------------------------
(* Lemmas: blocks added to the layout                                      *)

Injective(L) == \A i, j \in DOMAIN L : L[i] = L[j] => i = j

(* The layout L with m new blocks before place p.                          *)
Added(L, n, m, p) ==
  SubSeq(L, 1, p - 1) \o [k \in 1 .. m |-> n + k] \o SubSeq(L, p, Len(L))

(* In the layout M the new blocks come in order, after the blocks before    *)
(* the place and before the others, which keep their order.                *)
AddedRight(L, n, m, p, M) ==
  /\ M \in Seq(1 .. n + m)
  /\ Injective(M)
  /\ \A x, y : Before(L, x, y) => Before(M, x, y)
  /\ \A i \in DOMAIN L : \E j \in DOMAIN M : M[j] = L[i]
  /\ \A k \in 1 .. m : \E j \in DOMAIN M : M[j] = n + k
  /\ \A k, l \in 1 .. m : k < l => Before(M, n + k, n + l)
  /\ \A i \in 1 .. p - 1, k \in 1 .. m : Before(M, L[i], n + k)
  /\ \A i \in p .. Len(L), k \in 1 .. m : Before(M, n + k, L[i])

(* Putting two sequences together: each keeps its entries in order.        *)
LEMMA Concatenated ==
  ASSUME NEW S, NEW a \in Seq(S), NEW b \in Seq(S)
  PROVE  /\ a \o b \in Seq(S) /\ Len(a \o b) = Len(a) + Len(b)
         /\ \A i \in 1 .. Len(a) : (a \o b)[i] = a[i]
         /\ \A i \in 1 .. Len(b) : (a \o b)[Len(a) + i] = b[i]
OBVIOUS

LEMMA AddedLayout ==
  ASSUME NEW n \in Nat, NEW m \in Nat, NEW L \in Seq(1 .. n), Injective(L),
         NEW p \in 1 .. Len(L) + 1, NEW M, M = Added(L, n, m, p)
  PROVE  AddedRight(L, n, m, p, M)
<1> DEFINE new == [k \in 1 .. m |-> n + k]
<1>1. /\ Len(L) \in Nat /\ p \in Nat /\ p >= 1 /\ p <= Len(L) + 1
      /\ DOMAIN L = 1 .. Len(L)
  OBVIOUS
<1>2. /\ SubSeq(L, 1, p - 1) \in Seq(1 .. n) /\ Len(SubSeq(L, 1, p - 1)) = p - 1
      /\ \A i \in 1 .. p - 1 : SubSeq(L, 1, p - 1)[i] = L[i]
  BY <1>1
<1>3. /\ SubSeq(L, p, Len(L)) \in Seq(1 .. n)
      /\ Len(SubSeq(L, p, Len(L))) = Len(L) - p + 1
      /\ \A i \in 1 .. Len(L) - p + 1 : SubSeq(L, p, Len(L))[i] = L[p + i - 1]
  BY <1>1
<1>4. /\ new \in Seq(1 .. n + m) /\ Len(new) = m
      /\ \A k \in 1 .. m : new[k] = n + k
  <2>1. new \in [1 .. m -> 1 .. n + m]
    OBVIOUS
  <2>2. QED
    BY <2>1
<1>5. PICK s, t, u : /\ s = SubSeq(L, 1, p - 1) /\ t = new
                     /\ u = SubSeq(L, p, Len(L)) /\ M = s \o t \o u
  BY DEF Added
<1>6. s \in Seq(1 .. n + m) /\ t \in Seq(1 .. n + m) /\ u \in Seq(1 .. n + m)
  <2>1. 1 .. n \subseteq 1 .. n + m
    OBVIOUS
  <2>2. s \in Seq(1 .. n) /\ u \in Seq(1 .. n) /\ t \in Seq(1 .. n + m)
    BY <1>2, <1>3, <1>4, <1>5
  <2> HIDE DEF new
  <2>3. QED
    BY <2>1, <2>2, SeqMonotonic
<1>7. /\ Len(s) = p - 1 /\ Len(t) = m /\ Len(u) = Len(L) - p + 1
      /\ \A i \in 1 .. p - 1 : s[i] = L[i]
      /\ \A k \in 1 .. m : t[k] = n + k
      /\ \A i \in 1 .. Len(L) - p + 1 : u[i] = L[p + i - 1]
  BY <1>2, <1>3, <1>4, <1>5
<1> HIDE DEF new
<1>8. /\ M \in Seq(1 .. n + m) /\ Len(M) = Len(L) + m
      /\ DOMAIN M = 1 .. Len(L) + m
  <2>1. /\ s \o t \in Seq(1 .. n + m) /\ M \in Seq(1 .. n + m)
        /\ Len(s \o t) = Len(s) + Len(t) /\ Len(M) = Len(s \o t) + Len(u)
    BY <1>5, <1>6
  <2>2. Len(M) = Len(L) + m
    <3>1. PICK a, b, l : a = Len(s \o t) /\ b = Len(M) /\ l = Len(L)
      OBVIOUS
    <3>2. l \in Nat /\ a = (p - 1) + m /\ b = a + (l - p + 1)
      BY <1>7, <2>1, <3>1
    <3>3. b = l + m
      BY <1>1, <3>2
    <3>4. QED
      BY <3>1, <3>3
  <2>3. DOMAIN M = 1 .. Len(M)
    BY <2>1
  <2>4. QED
    BY <2>1, <2>2, <2>3
<1>9. \A i \in 1 .. p - 1 : M[i] = L[i]
  <2>1. TAKE i \in 1 .. p - 1
  <2>2. PICK v : v = s \o t
    OBVIOUS
  <2>3. v \in Seq(1 .. n + m) /\ Len(v) = Len(s) + Len(t) /\ M = v \o u
    BY <1>5, <1>6, <2>2, Concatenated
  <2>4. i \in 1 .. Len(s) /\ i \in 1 .. Len(v)
    BY <1>7, <2>3
  <2>5. v[i] = s[i]
    BY <1>6, <2>2, <2>4, Concatenated
  <2>6. M[i] = v[i]
    BY <1>6, <2>3, <2>4, Concatenated
  <2>7. QED
    BY <1>7, <2>5, <2>6
<1>10. \A k \in 1 .. m : M[p - 1 + k] = n + k
  <2>1. TAKE k \in 1 .. m
  <2>2. PICK v : v = s \o t
    OBVIOUS
  <2>3. v \in Seq(1 .. n + m) /\ Len(v) = Len(s) + Len(t) /\ M = v \o u
    BY <1>5, <1>6, <2>2, Concatenated
  <2>4. PICK q : q = p - 1 + k
    OBVIOUS
  <2>5. k \in 1 .. Len(t) /\ q = Len(s) + k /\ q \in 1 .. Len(v)
    <3>1. PICK a, b : a = Len(s) /\ b = Len(v)
      OBVIOUS
    <3>2. a = p - 1 /\ b = a + m /\ Len(t) = m
      BY <1>7, <2>3, <3>1
    <3>3. q = a + k /\ q \in 1 .. b
      BY <1>1, <2>4, <3>2
    <3>4. QED
      BY <3>1, <3>2, <3>3
  <2>6. v[q] = t[k]
    BY <1>6, <2>2, <2>5, Concatenated
  <2>7. M[q] = v[q]
    BY <1>6, <2>3, <2>5, Concatenated
  <2>8. QED
    BY <1>7, <2>4, <2>6, <2>7
<1>11. \A i \in p .. Len(L) : M[m + i] = L[i]
  <2>1. TAKE i \in p .. Len(L)
  <2>2. PICK j \in 1 .. Len(L) - p + 1 : i = p + j - 1
    <3>1. i - p + 1 \in 1 .. Len(L) - p + 1 /\ i = p + (i - p + 1) - 1
      BY <1>1
    <3>2. QED
      BY <3>1
  <2>3. j \in 1 .. Len(u) /\ Len(s \o t) = p - 1 + m
    <3>1. Len(s \o t) = Len(s) + Len(t)
      BY <1>6
    <3>2. QED
      BY <1>1, <1>7, <2>2, <3>1
  <2>4. M[Len(s \o t) + j] = u[j]
    <3>1. PICK v : v = s \o t
      OBVIOUS
    <3>2. v \in Seq(1 .. n + m) /\ M = v \o u
      <4>1. s \o t \in Seq(1 .. n + m)
        BY <1>6
      <4>2. M = (s \o t) \o u
        BY <1>5
      <4>3. QED
        BY <3>1, <4>1, <4>2
    <3>3. M[Len(v) + j] = u[j]
      BY <1>6, <2>3, <3>2
    <3>4. QED
      BY <3>1, <3>3
  <2>5. Len(s \o t) + j = m + i
    <3>1. j \in Nat /\ i = p + j - 1 /\ Len(s \o t) = p - 1 + m
      BY <2>2, <2>3
    <3>2. (p - 1 + m) + j = m + (p + j - 1)
      BY <1>1, <3>1
    <3>3. QED
      BY <3>1, <3>2
  <2>6. QED
    BY <1>7, <2>2, <2>4, <2>5
<1> DEFINE Place2(i) == IF i < p THEN i ELSE m + i
<1>12. \A i \in 1 .. Len(L) : Place2(i) \in 1 .. Len(L) + m /\ M[Place2(i)] = L[i]
  BY <1>1, <1>9, <1>11
<1>13. \A k \in 1 .. m : p - 1 + k \in 1 .. Len(L) + m
  BY <1>1
<1>14. \A j \in 1 .. Len(L) + m :
         \/ \E i \in 1 .. Len(L) : j = Place2(i)
         \/ \E k \in 1 .. m : j = p - 1 + k
  <2>1. TAKE j \in 1 .. Len(L) + m
  <2>2. CASE j < p
    BY <1>1, <2>2
  <2>3. CASE j >= p /\ j < p + m
    <3>1. j - p + 1 \in 1 .. m /\ j = p - 1 + (j - p + 1)
      BY <1>1, <2>3
    <3>2. QED
      BY <3>1
  <2>4. CASE j >= p + m
    <3>1. j - m \in 1 .. Len(L) /\ ~ (j - m < p) /\ j = m + (j - m)
      BY <1>1, <2>4
    <3>2. QED
      BY <3>1
  <2>5. QED
    BY <1>1, <2>2, <2>3, <2>4
<1>15. \A i \in 1 .. Len(L) : L[i] \in 1 .. n
  OBVIOUS
<1>16. Injective(M)
  <2>1. SUFFICES ASSUME NEW i \in 1 .. Len(L) + m, NEW j \in 1 .. Len(L) + m,
                        M[i] = M[j]
                 PROVE  i = j
    BY <1>8 DEF Injective
  <2>2. CASE /\ \E a \in 1 .. Len(L) : i = Place2(a)
             /\ \E b \in 1 .. Len(L) : j = Place2(b)
    <3>1. PICK a \in 1 .. Len(L), b \in 1 .. Len(L) :
            i = Place2(a) /\ j = Place2(b)
      BY <2>2
    <3>2. L[a] = L[b]
      BY <1>12, <2>1, <3>1
    <3>3. a = b
      BY <1>1, <3>2 DEF Injective
    <3>4. QED
      BY <3>1, <3>3
  <2>3. CASE /\ \E a \in 1 .. m : i = p - 1 + a
             /\ \E b \in 1 .. m : j = p - 1 + b
    <3>1. PICK a \in 1 .. m, b \in 1 .. m : i = p - 1 + a /\ j = p - 1 + b
      BY <2>3
    <3>2. n + a = n + b
      BY <1>10, <2>1, <3>1
    <3>3. QED
      BY <3>1, <3>2
  <2>4. CASE /\ \E a \in 1 .. Len(L) : i = Place2(a)
             /\ \E b \in 1 .. m : j = p - 1 + b
    <3>1. PICK a \in 1 .. Len(L), b \in 1 .. m : i = Place2(a) /\ j = p - 1 + b
      BY <2>4
    <3>2. M[i] = L[a] /\ M[j] = n + b
      BY <1>10, <1>12, <3>1
    <3>3. a \in Nat /\ b \in Nat /\ a > 0 /\ b > 0
      BY <3>1
    <3>4. L[a] <= n /\ L[a] \in Nat
      BY <1>15, <3>1
    <3>5. L[a] = n + b
      BY <2>1, <3>1, <3>2
    <3>6. QED
      BY <1>1, <3>3, <3>4, <3>5
  <2>5. CASE /\ \E a \in 1 .. m : i = p - 1 + a
             /\ \E b \in 1 .. Len(L) : j = Place2(b)
    <3>1. PICK a \in 1 .. m, b \in 1 .. Len(L) : i = p - 1 + a /\ j = Place2(b)
      BY <2>5
    <3>2. M[i] = n + a /\ M[j] = L[b]
      <4>1. M[p - 1 + a] = n + a
        BY <1>10
      <4>2. M[Place2(b)] = L[b]
        BY <1>12
      <4>3. QED
        BY <3>1, <4>1, <4>2
    <3>3. a \in Nat /\ b \in Nat /\ a > 0 /\ b > 0
      BY <3>1
    <3>4. L[b] <= n /\ L[b] \in Nat
      BY <1>15, <3>1
    <3>5. L[b] = n + a
      BY <2>1, <3>1, <3>2
    <3>6. QED
      BY <1>1, <3>3, <3>4, <3>5
  <2> HIDE DEF Place2
  <2>6. QED
    BY <1>14, <2>2, <2>3, <2>4, <2>5
<1>17. \A x, y : Before(L, x, y) => Before(M, x, y)
  <2>1. SUFFICES ASSUME NEW x, NEW y, Before(L, x, y) PROVE Before(M, x, y)
    OBVIOUS
  <2>2. PICK i \in 1 .. Len(L), j \in 1 .. Len(L) :
          i < j /\ L[i] = x /\ L[j] = y
    BY <1>1, <2>1 DEF Before
  <2>3. Place2(i) < Place2(j)
    BY <1>1, <2>2
  <2>4. QED
    BY <1>8, <1>12, <2>2, <2>3 DEF Before
<1>18. \A i \in DOMAIN L : \E j \in DOMAIN M : M[j] = L[i]
  BY <1>1, <1>8, <1>12
<1>19. \A k \in 1 .. m : \E j \in DOMAIN M : M[j] = n + k
  BY <1>8, <1>10, <1>13
<1>20. \A k, l \in 1 .. m : k < l => Before(M, n + k, n + l)
  <2>1. TAKE k, l \in 1 .. m
  <2>2. HAVE k < l
  <2>3. p - 1 + k < p - 1 + l
    BY <1>1, <2>2
  <2>4. QED
    BY <1>8, <1>10, <1>13, <2>3 DEF Before
<1>21. \A i \in 1 .. p - 1, k \in 1 .. m : Before(M, L[i], n + k)
  <2>1. TAKE i \in 1 .. p - 1, k \in 1 .. m
  <2>2. i \in 1 .. Len(L) + m /\ i < p - 1 + k
    BY <1>1
  <2>3. QED
    BY <1>8, <1>9, <1>10, <1>13, <2>2 DEF Before
<1>22. \A i \in p .. Len(L), k \in 1 .. m : Before(M, n + k, L[i])
  <2>1. TAKE i \in p .. Len(L), k \in 1 .. m
  <2>2. m + i \in 1 .. Len(L) + m /\ p - 1 + k < m + i
    BY <1>1
  <2>3. QED
    BY <1>8, <1>10, <1>11, <1>13, <2>2 DEF Before
<1>23. QED
  BY <1>8, <1>16, <1>17, <1>18, <1>19, <1>20, <1>21, <1>22 DEF AddedRight

----------------------------------------------------------------------------
(* Lemmas: the paths of the visit methods                                  *)

LEMMA PathVisitExpression ==
  ASSUME NEW x \in Nat, x # 0, NEW W, NEW s \in Seq(Nat), NEW u, NEW E, NEW L,
         NEW n \in Nat, NEW b \in 1 .. n, Ahead(L, b, s), Before(L, x, b)
  PROVE  /\ VisitBefore(Expression, b) \in Seq(Calls)
         /\ Path(VisitBefore(Expression, b), Filling(x, W, s, u),
                 Filling(0, W, s, u), E, L, n)
<1>1. /\ Expression \in Seq(Calls)
      /\ Path(Expression, Filling(x, W, Append(s, b), u),
              Filling(0, W, Append(s, b), u), E, L, n)
  BY PathExpression
<1>2. QED
  BY <1>1, PathVisitBefore

LEMMA PathVisitStatements ==
  ASSUME NEW x \in Nat, x # 0, NEW W, NEW s \in Seq(Nat), NEW E, NEW L,
         NEW n \in Nat, NEW b \in 1 .. n, Ahead(L, b, s), Before(L, x, b)
  PROVE  /\ VisitBefore(Statements, b) \in Seq(Calls)
         /\ Path(VisitBefore(Statements, b), Filling(x, W, s, {}),
                 Filling(0, W, s, {}), E, L, n)
<1>1. /\ Statements \in Seq(Calls)
      /\ Path(Statements, Filling(x, W, Append(s, b), {}),
              Filling(0, W, Append(s, b), {}), E, L, n)
  BY PathStatements
<1>2. QED
  BY <1>1, PathVisitBefore

LEMMA PathVisitNothing ==
  ASSUME NEW x \in Nat, x # 0, NEW W, NEW s \in Seq(Nat), NEW u, NEW E, NEW L,
         NEW n \in Nat, NEW b \in 1 .. n, Ahead(L, b, s), Before(L, x, b)
  PROVE  /\ VisitBefore(<<>>, b) \in Seq(Calls)
         /\ Path(VisitBefore(<<>>, b), Filling(x, W, s, u),
                 Filling(0, W, s, u), E, L, n)
<1>1. <<>> \in Seq(Calls)
  OBVIOUS
<1>2. Path(<<>>, Filling(x, W, Append(s, b), u), Filling(x, W, Append(s, b), u),
           E, L, n)
  BY PathEmpty
<1>3. QED
  BY <1>1, <1>2, PathVisitBefore

(* visitIf, with the blocks a = bif and b = bend.                          *)
LEMMA PathIf ==
  ASSUME NEW n \in Nat, NEW x \in Nat, x # 0, NEW s \in Seq(Nat),
         NEW E, NEW L, NEW W,
         NEW a \in 1 .. n, a \notin W, Ahead(L, a, s),
         NEW b \in 1 .. n, b \notin W, Ahead(L, b, s),
         a # b,
         Before(L, x, a), Before(L, a, b),
         a \notin E, b \notin E
  PROVE  LET calls ==
             VisitBefore(Expression, a) \o CBranch(a, b)
             \o Position(a) \o VisitBefore(Statements, b)
             \o Branch(b) \o Position(b)
         IN /\ calls \in Seq(Calls)
            /\ Path(calls, Filling(x, W \cup {a, b}, s, {}),
                    Filling(b, W, s, {}), E, L, n)
<1>1. /\ VisitBefore(Expression, a) \in Seq(Calls)
      /\ Path(VisitBefore(Expression, a), Filling(x, W \cup {a, b}, s, {}),
              Filling(0, W \cup {a, b}, s, {}), E, L, n)
  BY PathVisitExpression
<1>2. /\ CBranch(a, b) \in Seq(Calls)
      /\ Path(CBranch(a, b), Filling(0, W \cup {a, b}, s, {}),
              Ended(W \cup {a, b}, s, 0, {}), E, L, n)
  BY PathCBranch
<1>3. /\ Position(a) \in Seq(Calls)
      /\ Path(Position(a), Ended(W \cup {a, b}, s, 0, {}),
              Filling(a, W \cup {b}, s, {}), E, L, n)
  BY PathPosition
<1>4. /\ VisitBefore(Statements, b) \in Seq(Calls)
      /\ Path(VisitBefore(Statements, b), Filling(a, W \cup {b}, s, {}),
              Filling(0, W \cup {b}, s, {}), E, L, n)
  BY PathVisitStatements
<1>5. /\ Branch(b) \in Seq(Calls)
      /\ Path(Branch(b), Filling(0, W \cup {b}, s, {}),
              Ended(W \cup {b}, s, 0, {}), E, L, n)
  BY PathBranch
<1>6. /\ Position(b) \in Seq(Calls)
      /\ Path(Position(b), Ended(W \cup {b}, s, 0, {}),
              Filling(b, W, s, {}), E, L, n)
  BY PathPosition
<1> DEFINE s1 == VisitBefore(Expression, a)
           s2 == s1 \o CBranch(a, b)
           s3 == s2 \o Position(a)
           s4 == s3 \o VisitBefore(Statements, b)
           s5 == s4 \o Branch(b)
           s6 == s5 \o Position(b)
<1>7. /\ s2 \in Seq(Calls)
      /\ Path(s2, Filling(x, W \cup {a, b}, s, {}),
              Ended(W \cup {a, b}, s, 0, {}), E, L, n)
  BY <1>1, <1>2, PathConcat
<1>8. /\ s3 \in Seq(Calls)
      /\ Path(s3, Filling(x, W \cup {a, b}, s, {}),
              Filling(a, W \cup {b}, s, {}), E, L, n)
  <2> HIDE DEF s2
  <2> QED BY <1>7, <1>3, PathConcat
<1>9. /\ s4 \in Seq(Calls)
      /\ Path(s4, Filling(x, W \cup {a, b}, s, {}),
              Filling(0, W \cup {b}, s, {}), E, L, n)
  <2> HIDE DEF s3
  <2> QED BY <1>8, <1>4, PathConcat
<1>10. /\ s5 \in Seq(Calls)
       /\ Path(s5, Filling(x, W \cup {a, b}, s, {}),
               Ended(W \cup {b}, s, 0, {}), E, L, n)
  <2> HIDE DEF s4
  <2> QED BY <1>9, <1>5, PathConcat
<1>11. /\ s6 \in Seq(Calls)
       /\ Path(s6, Filling(x, W \cup {a, b}, s, {}),
               Filling(b, W, s, {}), E, L, n)
  <2> HIDE DEF s5
  <2> QED BY <1>10, <1>6, PathConcat
<1>12. QED
  BY <1>11

(* visitIfElse, with a = bif, b = belse and c = bend.                      *)
LEMMA PathIfElse ==
  ASSUME NEW n \in Nat, NEW x \in Nat, x # 0, NEW s \in Seq(Nat),
         NEW E, NEW L, NEW W,
         NEW a \in 1 .. n, a \notin W, Ahead(L, a, s),
         NEW b \in 1 .. n, b \notin W, Ahead(L, b, s),
         NEW c \in 1 .. n, c \notin W, Ahead(L, c, s),
         a # b, a # c, b # c,
         Before(L, x, a), Before(L, a, b), Before(L, b, c),
         a \notin E, b \notin E, c \notin E
  PROVE  LET calls ==
             VisitBefore(Expression, a) \o CBranch(a, b)
             \o Position(a) \o VisitBefore(Statements, b)
             \o Branch(c) \o Position(b)
             \o VisitBefore(Statements, c) \o Branch(c)
             \o Position(c)
         IN /\ calls \in Seq(Calls)
            /\ Path(calls, Filling(x, W \cup {a, b, c}, s, {}),
                    Filling(c, W, s, {}), E, L, n)
<1>1. /\ VisitBefore(Expression, a) \in Seq(Calls)
      /\ Path(VisitBefore(Expression, a), Filling(x, W \cup {a, b, c}, s, {}),
              Filling(0, W \cup {a, b, c}, s, {}), E, L, n)
  BY PathVisitExpression
<1>2. /\ CBranch(a, b) \in Seq(Calls)
      /\ Path(CBranch(a, b), Filling(0, W \cup {a, b, c}, s, {}),
              Ended(W \cup {a, b, c}, s, 0, {}), E, L, n)
  BY PathCBranch
<1>3. /\ Position(a) \in Seq(Calls)
      /\ Path(Position(a), Ended(W \cup {a, b, c}, s, 0, {}),
              Filling(a, W \cup {b, c}, s, {}), E, L, n)
  BY PathPosition
<1>4. /\ VisitBefore(Statements, b) \in Seq(Calls)
      /\ Path(VisitBefore(Statements, b), Filling(a, W \cup {b, c}, s, {}),
              Filling(0, W \cup {b, c}, s, {}), E, L, n)
  BY PathVisitStatements
<1>5. /\ Branch(c) \in Seq(Calls)
      /\ Path(Branch(c), Filling(0, W \cup {b, c}, s, {}),
              Ended(W \cup {b, c}, s, 0, {}), E, L, n)
  BY PathBranch
<1>6. /\ Position(b) \in Seq(Calls)
      /\ Path(Position(b), Ended(W \cup {b, c}, s, 0, {}),
              Filling(b, W \cup {c}, s, {}), E, L, n)
  BY PathPosition
<1>7. /\ VisitBefore(Statements, c) \in Seq(Calls)
      /\ Path(VisitBefore(Statements, c), Filling(b, W \cup {c}, s, {}),
              Filling(0, W \cup {c}, s, {}), E, L, n)
  BY PathVisitStatements
<1>8. /\ Branch(c) \in Seq(Calls)
      /\ Path(Branch(c), Filling(0, W \cup {c}, s, {}),
              Ended(W \cup {c}, s, 0, {}), E, L, n)
  BY PathBranch
<1>9. /\ Position(c) \in Seq(Calls)
      /\ Path(Position(c), Ended(W \cup {c}, s, 0, {}),
              Filling(c, W, s, {}), E, L, n)
  BY PathPosition
<1> DEFINE s1 == VisitBefore(Expression, a)
           s2 == s1 \o CBranch(a, b)
           s3 == s2 \o Position(a)
           s4 == s3 \o VisitBefore(Statements, b)
           s5 == s4 \o Branch(c)
           s6 == s5 \o Position(b)
           s7 == s6 \o VisitBefore(Statements, c)
           s8 == s7 \o Branch(c)
           s9 == s8 \o Position(c)
<1>10. /\ s2 \in Seq(Calls)
       /\ Path(s2, Filling(x, W \cup {a, b, c}, s, {}),
               Ended(W \cup {a, b, c}, s, 0, {}), E, L, n)
  BY <1>1, <1>2, PathConcat
<1>11. /\ s3 \in Seq(Calls)
       /\ Path(s3, Filling(x, W \cup {a, b, c}, s, {}),
               Filling(a, W \cup {b, c}, s, {}), E, L, n)
  <2> HIDE DEF s2
  <2> QED BY <1>10, <1>3, PathConcat
<1>12. /\ s4 \in Seq(Calls)
       /\ Path(s4, Filling(x, W \cup {a, b, c}, s, {}),
               Filling(0, W \cup {b, c}, s, {}), E, L, n)
  <2> HIDE DEF s3
  <2> QED BY <1>11, <1>4, PathConcat
<1>13. /\ s5 \in Seq(Calls)
       /\ Path(s5, Filling(x, W \cup {a, b, c}, s, {}),
               Ended(W \cup {b, c}, s, 0, {}), E, L, n)
  <2> HIDE DEF s4
  <2> QED BY <1>12, <1>5, PathConcat
<1>14. /\ s6 \in Seq(Calls)
       /\ Path(s6, Filling(x, W \cup {a, b, c}, s, {}),
               Filling(b, W \cup {c}, s, {}), E, L, n)
  <2> HIDE DEF s5
  <2> QED BY <1>13, <1>6, PathConcat
<1>15. /\ s7 \in Seq(Calls)
       /\ Path(s7, Filling(x, W \cup {a, b, c}, s, {}),
               Filling(0, W \cup {c}, s, {}), E, L, n)
  <2> HIDE DEF s6
  <2> QED BY <1>14, <1>7, PathConcat
<1>16. /\ s8 \in Seq(Calls)
       /\ Path(s8, Filling(x, W \cup {a, b, c}, s, {}),
               Ended(W \cup {c}, s, 0, {}), E, L, n)
  <2> HIDE DEF s7
  <2> QED BY <1>15, <1>8, PathConcat
<1>17. /\ s9 \in Seq(Calls)
       /\ Path(s9, Filling(x, W \cup {a, b, c}, s, {}),
               Filling(c, W, s, {}), E, L, n)
  <2> HIDE DEF s8
  <2> QED BY <1>16, <1>9, PathConcat
<1>18. QED
  BY <1>17

(* visitDoWhile, with a = cond, b = body and c = end.                      *)
LEMMA PathDoWhile ==
  ASSUME NEW n \in Nat, NEW x \in Nat, x # 0, NEW s \in Seq(Nat),
         NEW E, NEW L, NEW W,
         NEW a \in 1 .. n, a \notin W, Ahead(L, a, s),
         NEW b \in 1 .. n, b \notin W, Ahead(L, b, s),
         NEW c \in 1 .. n, c \notin W, Ahead(L, c, s),
         a # b, a # c, b # c,
         Before(L, a, b), Before(L, b, c),
         a \notin E, b \notin E, c \notin E
  PROVE  LET calls ==
             Branch(b) \o Position(a) \o VisitBefore(Expression, b)
             \o CBranch(b, c) \o Position(b)
             \o VisitBefore(Statements, c) \o BranchIfOpen(a)
             \o LeaveLoop \o Position(c)
         IN /\ calls \in Seq(Calls)
            /\ Path(calls, Filling(x, W \cup {a, b, c}, s, {}),
                    Filling(c, W, s, {}), E, L, n)
<1>1. /\ Branch(b) \in Seq(Calls)
      /\ Path(Branch(b), Filling(x, W \cup {a, b, c}, s, {}),
              Ended(W \cup {a, b, c}, s, 0, {}), E, L, n)
  BY PathBranch
<1>2. /\ Position(a) \in Seq(Calls)
      /\ Path(Position(a), Ended(W \cup {a, b, c}, s, 0, {}),
              Filling(a, W \cup {b, c}, s, {}), E, L, n)
  BY PathPosition
<1>3. /\ VisitBefore(Expression, b) \in Seq(Calls)
      /\ Path(VisitBefore(Expression, b), Filling(a, W \cup {b, c}, s, {}),
              Filling(0, W \cup {b, c}, s, {}), E, L, n)
  BY PathVisitExpression
<1>4. /\ CBranch(b, c) \in Seq(Calls)
      /\ Path(CBranch(b, c), Filling(0, W \cup {b, c}, s, {}),
              Ended(W \cup {b, c}, s, 0, {}), E, L, n)
  BY PathCBranch
<1>5. /\ Position(b) \in Seq(Calls)
      /\ Path(Position(b), Ended(W \cup {b, c}, s, 0, {}),
              Filling(b, W \cup {c}, s, {}), E, L, n)
  BY PathPosition
<1>6. /\ VisitBefore(Statements, c) \in Seq(Calls)
      /\ Path(VisitBefore(Statements, c), Filling(b, W \cup {c}, s, {}),
              Filling(0, W \cup {c}, s, {}), E, L, n)
  BY PathVisitStatements
<1>7. /\ BranchIfOpen(a) \in Seq(Calls)
      /\ Path(BranchIfOpen(a), Filling(0, W \cup {c}, s, {}),
              Ended(W \cup {c}, s, 0, {}), E, L, n)
  BY PathBranchIfOpen
<1>8. /\ LeaveLoop \in Seq(Calls)
      /\ Path(LeaveLoop, Ended(W \cup {c}, s, 0, {}),
              Ended(W \cup {c}, s, 0, {}), E, L, n)
  BY PathLeaveLoop
<1>9. /\ Position(c) \in Seq(Calls)
      /\ Path(Position(c), Ended(W \cup {c}, s, 0, {}),
              Filling(c, W, s, {}), E, L, n)
  BY PathPosition
<1> DEFINE s1 == Branch(b)
           s2 == s1 \o Position(a)
           s3 == s2 \o VisitBefore(Expression, b)
           s4 == s3 \o CBranch(b, c)
           s5 == s4 \o Position(b)
           s6 == s5 \o VisitBefore(Statements, c)
           s7 == s6 \o BranchIfOpen(a)
           s8 == s7 \o LeaveLoop
           s9 == s8 \o Position(c)
<1>10. /\ s2 \in Seq(Calls)
       /\ Path(s2, Filling(x, W \cup {a, b, c}, s, {}),
               Filling(a, W \cup {b, c}, s, {}), E, L, n)
  BY <1>1, <1>2, PathConcat
<1>11. /\ s3 \in Seq(Calls)
       /\ Path(s3, Filling(x, W \cup {a, b, c}, s, {}),
               Filling(0, W \cup {b, c}, s, {}), E, L, n)
  <2> HIDE DEF s2
  <2> QED BY <1>10, <1>3, PathConcat
<1>12. /\ s4 \in Seq(Calls)
       /\ Path(s4, Filling(x, W \cup {a, b, c}, s, {}),
               Ended(W \cup {b, c}, s, 0, {}), E, L, n)
  <2> HIDE DEF s3
  <2> QED BY <1>11, <1>4, PathConcat
<1>13. /\ s5 \in Seq(Calls)
       /\ Path(s5, Filling(x, W \cup {a, b, c}, s, {}),
               Filling(b, W \cup {c}, s, {}), E, L, n)
  <2> HIDE DEF s4
  <2> QED BY <1>12, <1>5, PathConcat
<1>14. /\ s6 \in Seq(Calls)
       /\ Path(s6, Filling(x, W \cup {a, b, c}, s, {}),
               Filling(0, W \cup {c}, s, {}), E, L, n)
  <2> HIDE DEF s5
  <2> QED BY <1>13, <1>6, PathConcat
<1>15. /\ s7 \in Seq(Calls)
       /\ Path(s7, Filling(x, W \cup {a, b, c}, s, {}),
               Ended(W \cup {c}, s, 0, {}), E, L, n)
  <2> HIDE DEF s6
  <2> QED BY <1>14, <1>7, PathConcat
<1>16. /\ s8 \in Seq(Calls)
       /\ Path(s8, Filling(x, W \cup {a, b, c}, s, {}),
               Ended(W \cup {c}, s, 0, {}), E, L, n)
  <2> HIDE DEF s7
  <2> QED BY <1>15, <1>8, PathConcat
<1>17. /\ s9 \in Seq(Calls)
       /\ Path(s9, Filling(x, W \cup {a, b, c}, s, {}),
               Filling(c, W, s, {}), E, L, n)
  <2> HIDE DEF s8
  <2> QED BY <1>16, <1>9, PathConcat
<1>18. QED
  BY <1>17

(* visitWhile, with a = cond, b = body and c = end.                        *)
LEMMA PathWhile ==
  ASSUME NEW n \in Nat, NEW x \in Nat, x # 0, NEW s \in Seq(Nat),
         NEW E, NEW L, NEW W,
         NEW a \in 1 .. n, a \notin W, Ahead(L, a, s),
         NEW b \in 1 .. n, b \notin W, Ahead(L, b, s),
         NEW c \in 1 .. n, c \notin W, Ahead(L, c, s),
         a # b, a # c, b # c,
         Before(L, a, b), Before(L, b, c),
         a \notin E, b \notin E, c \notin E, 0 \notin E
  PROVE  LET calls ==
             Branch(a) \o Position(a) \o VisitBefore(Expression, b)
             \o CBranch(b, c) \o Position(b)
             \o PushIncrementor(Empty) \o VisitBefore(Statements, c)
             \o BranchIfOpen(a) \o LeaveLoop \o Position(c)
         IN /\ calls \in Seq(Calls)
            /\ Path(calls, Filling(x, W \cup {a, b, c}, s, {0}),
                    Filling(c, W, s, {}), E, L, n)
<1>1. /\ Branch(a) \in Seq(Calls)
      /\ Path(Branch(a), Filling(x, W \cup {a, b, c}, s, {0}),
              Ended(W \cup {a, b, c}, s, 0, {0}), E, L, n)
  BY PathBranch
<1>2. /\ Position(a) \in Seq(Calls)
      /\ Path(Position(a), Ended(W \cup {a, b, c}, s, 0, {0}),
              Filling(a, W \cup {b, c}, s, {0}), E, L, n)
  BY PathPosition
<1>3. /\ VisitBefore(Expression, b) \in Seq(Calls)
      /\ Path(VisitBefore(Expression, b), Filling(a, W \cup {b, c}, s, {0}),
              Filling(0, W \cup {b, c}, s, {0}), E, L, n)
  BY PathVisitExpression
<1>4. /\ CBranch(b, c) \in Seq(Calls)
      /\ Path(CBranch(b, c), Filling(0, W \cup {b, c}, s, {0}),
              Ended(W \cup {b, c}, s, 0, {0}), E, L, n)
  BY PathCBranch
<1>5. /\ Position(b) \in Seq(Calls)
      /\ Path(Position(b), Ended(W \cup {b, c}, s, 0, {0}),
              Filling(b, W \cup {c}, s, {0}), E, L, n)
  BY PathPosition
<1>6. /\ PushIncrementor(Empty) \in Seq(Calls)
      /\ Path(PushIncrementor(Empty), Filling(b, W \cup {c}, s, {0}),
              Filling(b, W \cup {c}, s, {}), E, L, n)
  BY PathPushIncrementor DEF Empty
<1>7. /\ VisitBefore(Statements, c) \in Seq(Calls)
      /\ Path(VisitBefore(Statements, c), Filling(b, W \cup {c}, s, {}),
              Filling(0, W \cup {c}, s, {}), E, L, n)
  BY PathVisitStatements
<1>8. /\ BranchIfOpen(a) \in Seq(Calls)
      /\ Path(BranchIfOpen(a), Filling(0, W \cup {c}, s, {}),
              Ended(W \cup {c}, s, 0, {}), E, L, n)
  BY PathBranchIfOpen
<1>9. /\ LeaveLoop \in Seq(Calls)
      /\ Path(LeaveLoop, Ended(W \cup {c}, s, 0, {}),
              Ended(W \cup {c}, s, 0, {}), E, L, n)
  BY PathLeaveLoop
<1>10. /\ Position(c) \in Seq(Calls)
      /\ Path(Position(c), Ended(W \cup {c}, s, 0, {}),
              Filling(c, W, s, {}), E, L, n)
  BY PathPosition
<1> DEFINE s1 == Branch(a)
           s2 == s1 \o Position(a)
           s3 == s2 \o VisitBefore(Expression, b)
           s4 == s3 \o CBranch(b, c)
           s5 == s4 \o Position(b)
           s6 == s5 \o PushIncrementor(Empty)
           s7 == s6 \o VisitBefore(Statements, c)
           s8 == s7 \o BranchIfOpen(a)
           s9 == s8 \o LeaveLoop
           s10 == s9 \o Position(c)
<1>11. /\ s2 \in Seq(Calls)
       /\ Path(s2, Filling(x, W \cup {a, b, c}, s, {0}),
               Filling(a, W \cup {b, c}, s, {0}), E, L, n)
  BY <1>1, <1>2, PathConcat
<1>12. /\ s3 \in Seq(Calls)
       /\ Path(s3, Filling(x, W \cup {a, b, c}, s, {0}),
               Filling(0, W \cup {b, c}, s, {0}), E, L, n)
  <2> HIDE DEF s2
  <2> QED BY <1>11, <1>3, PathConcat
<1>13. /\ s4 \in Seq(Calls)
       /\ Path(s4, Filling(x, W \cup {a, b, c}, s, {0}),
               Ended(W \cup {b, c}, s, 0, {0}), E, L, n)
  <2> HIDE DEF s3
  <2> QED BY <1>12, <1>4, PathConcat
<1>14. /\ s5 \in Seq(Calls)
       /\ Path(s5, Filling(x, W \cup {a, b, c}, s, {0}),
               Filling(b, W \cup {c}, s, {0}), E, L, n)
  <2> HIDE DEF s4
  <2> QED BY <1>13, <1>5, PathConcat
<1>15. /\ s6 \in Seq(Calls)
       /\ Path(s6, Filling(x, W \cup {a, b, c}, s, {0}),
               Filling(b, W \cup {c}, s, {}), E, L, n)
  <2> HIDE DEF s5
  <2> QED BY <1>14, <1>6, PathConcat
<1>16. /\ s7 \in Seq(Calls)
       /\ Path(s7, Filling(x, W \cup {a, b, c}, s, {0}),
               Filling(0, W \cup {c}, s, {}), E, L, n)
  <2> HIDE DEF s6
  <2> QED BY <1>15, <1>7, PathConcat
<1>17. /\ s8 \in Seq(Calls)
       /\ Path(s8, Filling(x, W \cup {a, b, c}, s, {0}),
               Ended(W \cup {c}, s, 0, {}), E, L, n)
  <2> HIDE DEF s7
  <2> QED BY <1>16, <1>8, PathConcat
<1>18. /\ s9 \in Seq(Calls)
       /\ Path(s9, Filling(x, W \cup {a, b, c}, s, {0}),
               Ended(W \cup {c}, s, 0, {}), E, L, n)
  <2> HIDE DEF s8
  <2> QED BY <1>17, <1>9, PathConcat
<1>19. /\ s10 \in Seq(Calls)
       /\ Path(s10, Filling(x, W \cup {a, b, c}, s, {0}),
               Filling(c, W, s, {}), E, L, n)
  <2> HIDE DEF s9
  <2> QED BY <1>18, <1>10, PathConcat
<1>20. QED
  BY <1>19

(* visitWhile of a for loop, with a = cond, b = body, c = increment and     *)
(* d = end.                                                                *)
LEMMA PathWhileFor ==
  ASSUME NEW n \in Nat, NEW x \in Nat, x # 0, NEW s \in Seq(Nat),
         NEW E, NEW L, NEW W,
         NEW a \in 1 .. n, a \notin W, Ahead(L, a, s),
         NEW b \in 1 .. n, b \notin W, Ahead(L, b, s),
         NEW c \in 1 .. n, c \notin W, Ahead(L, c, s),
         NEW d \in 1 .. n, d \notin W, Ahead(L, d, s),
         a # b, a # c, a # d, b # c, b # d, c # d,
         Before(L, a, b), Before(L, b, c), Before(L, c, d),
         a \notin E, b \notin E, c \notin E, d \notin E
  PROVE  LET calls ==
             Branch(a) \o Position(a) \o VisitBefore(Expression, b)
             \o CBranch(b, d) \o Position(b) \o PushIncrementor(c)
             \o VisitBefore(Statements, c) \o Branch(c)
             \o Position(c) \o VisitBefore(<<>>, d)
             \o BranchIfOpen(a) \o LeaveLoop \o Position(d)
         IN /\ calls \in Seq(Calls)
            /\ Path(calls, Filling(x, W \cup {a, b, c, d}, s, {c}),
                    Filling(d, W, s, {}), E, L, n)
<1>1. /\ Branch(a) \in Seq(Calls)
      /\ Path(Branch(a), Filling(x, W \cup {a, b, c, d}, s, {c}),
              Ended(W \cup {a, b, c, d}, s, 0, {c}), E, L, n)
  BY PathBranch
<1>2. /\ Position(a) \in Seq(Calls)
      /\ Path(Position(a), Ended(W \cup {a, b, c, d}, s, 0, {c}),
              Filling(a, W \cup {b, c, d}, s, {c}), E, L, n)
  BY PathPosition
<1>3. /\ VisitBefore(Expression, b) \in Seq(Calls)
      /\ Path(VisitBefore(Expression, b), Filling(a, W \cup {b, c, d}, s, {c}),
              Filling(0, W \cup {b, c, d}, s, {c}), E, L, n)
  BY PathVisitExpression
<1>4. /\ CBranch(b, d) \in Seq(Calls)
      /\ Path(CBranch(b, d), Filling(0, W \cup {b, c, d}, s, {c}),
              Ended(W \cup {b, c, d}, s, 0, {c}), E, L, n)
  BY PathCBranch
<1>5. /\ Position(b) \in Seq(Calls)
      /\ Path(Position(b), Ended(W \cup {b, c, d}, s, 0, {c}),
              Filling(b, W \cup {c, d}, s, {c}), E, L, n)
  BY PathPosition
<1>6. /\ PushIncrementor(c) \in Seq(Calls)
      /\ Path(PushIncrementor(c), Filling(b, W \cup {c, d}, s, {c}),
              Filling(b, W \cup {c, d}, s, {}), E, L, n)
  BY PathPushIncrementor
<1>7. /\ VisitBefore(Statements, c) \in Seq(Calls)
      /\ Path(VisitBefore(Statements, c), Filling(b, W \cup {c, d}, s, {}),
              Filling(0, W \cup {c, d}, s, {}), E, L, n)
  BY PathVisitStatements
<1>8. /\ Branch(c) \in Seq(Calls)
      /\ Path(Branch(c), Filling(0, W \cup {c, d}, s, {}),
              Ended(W \cup {c, d}, s, 0, {}), E, L, n)
  BY PathBranch
<1>9. /\ Position(c) \in Seq(Calls)
      /\ Path(Position(c), Ended(W \cup {c, d}, s, 0, {}),
              Filling(c, W \cup {d}, s, {}), E, L, n)
  BY PathPosition
<1>10. /\ VisitBefore(<<>>, d) \in Seq(Calls)
      /\ Path(VisitBefore(<<>>, d), Filling(c, W \cup {d}, s, {}),
              Filling(0, W \cup {d}, s, {}), E, L, n)
  BY PathVisitNothing
<1>11. /\ BranchIfOpen(a) \in Seq(Calls)
      /\ Path(BranchIfOpen(a), Filling(0, W \cup {d}, s, {}),
              Ended(W \cup {d}, s, 0, {}), E, L, n)
  BY PathBranchIfOpen
<1>12. /\ LeaveLoop \in Seq(Calls)
      /\ Path(LeaveLoop, Ended(W \cup {d}, s, 0, {}),
              Ended(W \cup {d}, s, 0, {}), E, L, n)
  BY PathLeaveLoop
<1>13. /\ Position(d) \in Seq(Calls)
      /\ Path(Position(d), Ended(W \cup {d}, s, 0, {}),
              Filling(d, W, s, {}), E, L, n)
  BY PathPosition
<1> DEFINE s1 == Branch(a)
           s2 == s1 \o Position(a)
           s3 == s2 \o VisitBefore(Expression, b)
           s4 == s3 \o CBranch(b, d)
           s5 == s4 \o Position(b)
           s6 == s5 \o PushIncrementor(c)
           s7 == s6 \o VisitBefore(Statements, c)
           s8 == s7 \o Branch(c)
           s9 == s8 \o Position(c)
           s10 == s9 \o VisitBefore(<<>>, d)
           s11 == s10 \o BranchIfOpen(a)
           s12 == s11 \o LeaveLoop
           s13 == s12 \o Position(d)
<1>14. /\ s2 \in Seq(Calls)
       /\ Path(s2, Filling(x, W \cup {a, b, c, d}, s, {c}),
               Filling(a, W \cup {b, c, d}, s, {c}), E, L, n)
  BY <1>1, <1>2, PathConcat
<1>15. /\ s3 \in Seq(Calls)
       /\ Path(s3, Filling(x, W \cup {a, b, c, d}, s, {c}),
               Filling(0, W \cup {b, c, d}, s, {c}), E, L, n)
  <2> HIDE DEF s2
  <2> QED BY <1>14, <1>3, PathConcat
<1>16. /\ s4 \in Seq(Calls)
       /\ Path(s4, Filling(x, W \cup {a, b, c, d}, s, {c}),
               Ended(W \cup {b, c, d}, s, 0, {c}), E, L, n)
  <2> HIDE DEF s3
  <2> QED BY <1>15, <1>4, PathConcat
<1>17. /\ s5 \in Seq(Calls)
       /\ Path(s5, Filling(x, W \cup {a, b, c, d}, s, {c}),
               Filling(b, W \cup {c, d}, s, {c}), E, L, n)
  <2> HIDE DEF s4
  <2> QED BY <1>16, <1>5, PathConcat
<1>18. /\ s6 \in Seq(Calls)
       /\ Path(s6, Filling(x, W \cup {a, b, c, d}, s, {c}),
               Filling(b, W \cup {c, d}, s, {}), E, L, n)
  <2> HIDE DEF s5
  <2> QED BY <1>17, <1>6, PathConcat
<1>19. /\ s7 \in Seq(Calls)
       /\ Path(s7, Filling(x, W \cup {a, b, c, d}, s, {c}),
               Filling(0, W \cup {c, d}, s, {}), E, L, n)
  <2> HIDE DEF s6
  <2> QED BY <1>18, <1>7, PathConcat
<1>20. /\ s8 \in Seq(Calls)
       /\ Path(s8, Filling(x, W \cup {a, b, c, d}, s, {c}),
               Ended(W \cup {c, d}, s, 0, {}), E, L, n)
  <2> HIDE DEF s7
  <2> QED BY <1>19, <1>8, PathConcat
<1>21. /\ s9 \in Seq(Calls)
       /\ Path(s9, Filling(x, W \cup {a, b, c, d}, s, {c}),
               Filling(c, W \cup {d}, s, {}), E, L, n)
  <2> HIDE DEF s8
  <2> QED BY <1>20, <1>9, PathConcat
<1>22. /\ s10 \in Seq(Calls)
       /\ Path(s10, Filling(x, W \cup {a, b, c, d}, s, {c}),
               Filling(0, W \cup {d}, s, {}), E, L, n)
  <2> HIDE DEF s9
  <2> QED BY <1>21, <1>10, PathConcat
<1>23. /\ s11 \in Seq(Calls)
       /\ Path(s11, Filling(x, W \cup {a, b, c, d}, s, {c}),
               Ended(W \cup {d}, s, 0, {}), E, L, n)
  <2> HIDE DEF s10
  <2> QED BY <1>22, <1>11, PathConcat
<1>24. /\ s12 \in Seq(Calls)
       /\ Path(s12, Filling(x, W \cup {a, b, c, d}, s, {c}),
               Ended(W \cup {d}, s, 0, {}), E, L, n)
  <2> HIDE DEF s11
  <2> QED BY <1>23, <1>12, PathConcat
<1>25. /\ s13 \in Seq(Calls)
       /\ Path(s13, Filling(x, W \cup {a, b, c, d}, s, {c}),
               Filling(d, W, s, {}), E, L, n)
  <2> HIDE DEF s12
  <2> QED BY <1>24, <1>13, PathConcat
<1>26. QED
  BY <1>25

(* lazy_conditional, with a = byes, b = bno and c = bend, which has the    *)
(* phi.                                                                    *)
LEMMA PathLazy ==
  ASSUME NEW n \in Nat, NEW x \in Nat, x # 0, NEW s \in Seq(Nat),
         NEW E, NEW L, NEW W,
         NEW a \in 1 .. n, a \notin W, Ahead(L, a, s),
         NEW b \in 1 .. n, b \notin W, Ahead(L, b, s),
         NEW c \in 1 .. n, c \notin W, Ahead(L, c, s),
         a # b, a # c, b # c,
         Before(L, x, a), Before(L, a, b), Before(L, b, c),
         a \notin E, b \notin E, c \in E, NEW u,
         NEW yes \in {Expression, <<>>}, NEW no \in {Expression, <<>>}
  PROVE  LET calls ==
             VisitBefore(Expression, a) \o CBranch(a, b)
             \o Position(a) \o VisitBefore(yes, b) \o Branch(c)
             \o AddIncoming(c) \o Position(b) \o VisitBefore(no, c)
             \o Branch(c) \o AddIncoming(c) \o Position(c)
         IN /\ calls \in Seq(Calls)
            /\ Path(calls, Filling(x, W \cup {a, b, c}, s, u),
                    Filling(c, W, s, u), E, L, n)
<1>1. /\ VisitBefore(Expression, a) \in Seq(Calls)
      /\ Path(VisitBefore(Expression, a), Filling(x, W \cup {a, b, c}, s, u),
              Filling(0, W \cup {a, b, c}, s, u), E, L, n)
  BY PathVisitExpression
<1>2. /\ CBranch(a, b) \in Seq(Calls)
      /\ Path(CBranch(a, b), Filling(0, W \cup {a, b, c}, s, u),
              Ended(W \cup {a, b, c}, s, 0, u), E, L, n)
  BY PathCBranch
<1>3. /\ Position(a) \in Seq(Calls)
      /\ Path(Position(a), Ended(W \cup {a, b, c}, s, 0, u),
              Filling(a, W \cup {b, c}, s, u), E, L, n)
  BY PathPosition
<1>4. /\ VisitBefore(yes, b) \in Seq(Calls)
      /\ Path(VisitBefore(yes, b), Filling(a, W \cup {b, c}, s, u),
              Filling(0, W \cup {b, c}, s, u), E, L, n)
  BY PathVisitExpression, PathVisitNothing
<1>5. /\ Branch(c) \in Seq(Calls)
      /\ Path(Branch(c), Filling(0, W \cup {b, c}, s, u),
              Ended(W \cup {b, c}, s, c, u), E, L, n)
  BY PathBranch
<1>6. /\ AddIncoming(c) \in Seq(Calls)
      /\ Path(AddIncoming(c), Ended(W \cup {b, c}, s, c, u),
              Ended(W \cup {b, c}, s, 0, u), E, L, n)
  BY PathAddIncoming
<1>7. /\ Position(b) \in Seq(Calls)
      /\ Path(Position(b), Ended(W \cup {b, c}, s, 0, u),
              Filling(b, W \cup {c}, s, u), E, L, n)
  BY PathPosition
<1>8. /\ VisitBefore(no, c) \in Seq(Calls)
      /\ Path(VisitBefore(no, c), Filling(b, W \cup {c}, s, u),
              Filling(0, W \cup {c}, s, u), E, L, n)
  BY PathVisitExpression, PathVisitNothing
<1>9. /\ Branch(c) \in Seq(Calls)
      /\ Path(Branch(c), Filling(0, W \cup {c}, s, u),
              Ended(W \cup {c}, s, c, u), E, L, n)
  BY PathBranch
<1>10. /\ AddIncoming(c) \in Seq(Calls)
      /\ Path(AddIncoming(c), Ended(W \cup {c}, s, c, u),
              Ended(W \cup {c}, s, 0, u), E, L, n)
  BY PathAddIncoming
<1>11. /\ Position(c) \in Seq(Calls)
      /\ Path(Position(c), Ended(W \cup {c}, s, 0, u),
              Filling(c, W, s, u), E, L, n)
  BY PathPosition
<1> DEFINE s1 == VisitBefore(Expression, a)
           s2 == s1 \o CBranch(a, b)
           s3 == s2 \o Position(a)
           s4 == s3 \o VisitBefore(yes, b)
           s5 == s4 \o Branch(c)
           s6 == s5 \o AddIncoming(c)
           s7 == s6 \o Position(b)
           s8 == s7 \o VisitBefore(no, c)
           s9 == s8 \o Branch(c)
           s10 == s9 \o AddIncoming(c)
           s11 == s10 \o Position(c)
<1>12. /\ s2 \in Seq(Calls)
       /\ Path(s2, Filling(x, W \cup {a, b, c}, s, u),
               Ended(W \cup {a, b, c}, s, 0, u), E, L, n)
  BY <1>1, <1>2, PathConcat
<1>13. /\ s3 \in Seq(Calls)
       /\ Path(s3, Filling(x, W \cup {a, b, c}, s, u),
               Filling(a, W \cup {b, c}, s, u), E, L, n)
  <2> HIDE DEF s2
  <2> QED BY <1>12, <1>3, PathConcat
<1>14. /\ s4 \in Seq(Calls)
       /\ Path(s4, Filling(x, W \cup {a, b, c}, s, u),
               Filling(0, W \cup {b, c}, s, u), E, L, n)
  <2> HIDE DEF s3
  <2> QED BY <1>13, <1>4, PathConcat
<1>15. /\ s5 \in Seq(Calls)
       /\ Path(s5, Filling(x, W \cup {a, b, c}, s, u),
               Ended(W \cup {b, c}, s, c, u), E, L, n)
  <2> HIDE DEF s4
  <2> QED BY <1>14, <1>5, PathConcat
<1>16. /\ s6 \in Seq(Calls)
       /\ Path(s6, Filling(x, W \cup {a, b, c}, s, u),
               Ended(W \cup {b, c}, s, 0, u), E, L, n)
  <2> HIDE DEF s5
  <2> QED BY <1>15, <1>6, PathConcat
<1>17. /\ s7 \in Seq(Calls)
       /\ Path(s7, Filling(x, W \cup {a, b, c}, s, u),
               Filling(b, W \cup {c}, s, u), E, L, n)
  <2> HIDE DEF s6
  <2> QED BY <1>16, <1>7, PathConcat
<1>18. /\ s8 \in Seq(Calls)
       /\ Path(s8, Filling(x, W \cup {a, b, c}, s, u),
               Filling(0, W \cup {c}, s, u), E, L, n)
  <2> HIDE DEF s7
  <2> QED BY <1>17, <1>8, PathConcat
<1>19. /\ s9 \in Seq(Calls)
       /\ Path(s9, Filling(x, W \cup {a, b, c}, s, u),
               Ended(W \cup {c}, s, c, u), E, L, n)
  <2> HIDE DEF s8
  <2> QED BY <1>18, <1>9, PathConcat
<1>20. /\ s10 \in Seq(Calls)
       /\ Path(s10, Filling(x, W \cup {a, b, c}, s, u),
               Ended(W \cup {c}, s, 0, u), E, L, n)
  <2> HIDE DEF s9
  <2> QED BY <1>19, <1>10, PathConcat
<1>21. /\ s11 \in Seq(Calls)
       /\ Path(s11, Filling(x, W \cup {a, b, c}, s, u),
               Filling(c, W, s, u), E, L, n)
  <2> HIDE DEF s10
  <2> QED BY <1>20, <1>11, PathConcat
<1>22. QED
  BY <1>21

(* visitBreak and visitContinue.                                           *)
LEMMA PathJumpTo ==
  ASSUME NEW n \in Nat, NEW x, NEW s, NEW E, NEW L, NEW W, NEW a \in 1 .. n, a \notin E
  PROVE  LET calls ==
             Branch(a) \o NewBlock
         IN /\ calls \in Seq(Calls)
            /\ Path(calls, Filling(x, W, s, {}),
                    Filling(0, W, s, {}), E, L, n)
<1>1. /\ Branch(a) \in Seq(Calls)
      /\ Path(Branch(a), Filling(x, W, s, {}),
              Ended(W, s, 0, {}), E, L, n)
  BY PathBranch
<1>2. /\ NewBlock \in Seq(Calls)
      /\ Path(NewBlock, Ended(W, s, 0, {}),
              Filling(0, W, s, {}), E, L, n)
  BY PathNewBlock
<1> DEFINE s1 == Branch(a)
           s2 == s1 \o NewBlock
<1>3. /\ s2 \in Seq(Calls)
      /\ Path(s2, Filling(x, W, s, {}),
              Filling(0, W, s, {}), E, L, n)
  BY <1>1, <1>2, PathConcat
<1>4. QED
  BY <1>3

(* visitReturn.                                                            *)
LEMMA PathVisitReturn ==
  ASSUME NEW n \in Nat, NEW x, NEW s, NEW E, NEW L, NEW W
  PROVE  LET calls ==
             Expression \o Return \o NewBlock
         IN /\ calls \in Seq(Calls)
            /\ Path(calls, Filling(x, W, s, {}),
                    Filling(0, W, s, {}), E, L, n)
<1>1. /\ Expression \in Seq(Calls)
      /\ Path(Expression, Filling(x, W, s, {}),
              Filling(0, W, s, {}), E, L, n)
  BY PathExpression
<1>2. /\ Return \in Seq(Calls)
      /\ Path(Return, Filling(0, W, s, {}),
              Ended(W, s, 0, {}), E, L, n)
  BY PathReturn
<1>3. /\ NewBlock \in Seq(Calls)
      /\ Path(NewBlock, Ended(W, s, 0, {}),
              Filling(0, W, s, {}), E, L, n)
  BY PathNewBlock
<1> DEFINE s1 == Expression
           s2 == s1 \o Return
           s3 == s2 \o NewBlock
<1>4. /\ s2 \in Seq(Calls)
      /\ Path(s2, Filling(x, W, s, {}),
              Ended(W, s, 0, {}), E, L, n)
  BY <1>1, <1>2, PathConcat
<1>5. /\ s3 \in Seq(Calls)
      /\ Path(s3, Filling(x, W, s, {}),
              Filling(0, W, s, {}), E, L, n)
  <2> HIDE DEF s2
  <2> QED BY <1>4, <1>3, PathConcat
<1>6. QED
  BY <1>5
----------------------------------------------------------------------------
(* The inductive invariant                                                 *)

LoopRecords ==
  [kind : {"dowhile", "while", "for"}, start : Nat, end : Nat,
   continueAt : Nat, clean : BOOLEAN]

Types ==
  /\ TypeOK
  /\ ~ failed
  /\ todo \in Seq(Calls)
  /\ nest \in Seq(LoopRecords)
  /\ nest # <<>> => loops # <<>>
  /\ for_loop_incrementor # <<>>
  /\ todo # <<>> => block # 0

Descending(L, s) == \A k, l \in DOMAIN s : k < l => Before(L, s[l], s[k])

InLayout(L, s) == \A k \in DOMAIN s : \E i \in DOMAIN L : L[i] = s[k]

(* No block is in the layout twice, the insert blocks are in it, the newer *)
(* before the older, and the block being filled is before them.            *)
Placed ==
  /\ Injective(layout)
  /\ InLayout(layout, insert_blocks)
  /\ Descending(layout, insert_blocks)
  /\ block \in open => Ahead(layout, block, insert_blocks)

OpenUnended == \A b \in open : successors[b] = {}

(* E are the blocks that have a phi.  Its incoming blocks are those that   *)
(* branch to it, but for the current one while that is owed.               *)
PhisRight(E, owing) ==
  /\ \A pair \in phis : pair[1] \in E
  /\ \A b \in E, c \in Blocks :
       b \in successors[c] <=> <<b, c>> \in phis \/ (b = owing /\ c = block)

(* No break or continue goes to such a block.                              *)
NoPhiIsTarget(E) ==
  /\ \A k \in DOMAIN loops : loops[k][1] \notin E /\ loops[k][2] \notin E
  /\ \A k \in DOMAIN for_loop_incrementor : for_loop_incrementor[k] \notin E

(* The innermost loop, when no loop inside it has been visited, is the last*)
(* of loops, and its increment is to be pushed or is the last one pushed.  *)
DueRight(u) ==
  nest # <<>> /\ Last(nest).clean =>
    /\ Last(loops) = <<Last(nest).start, Last(nest).end>>
    /\ Last(nest).kind = "while" =>
         /\ Last(nest).continueAt = Last(nest).start
         /\ u = {Empty} \/ (u = {} /\ Last(for_loop_incrementor) = Empty)
    /\ Last(nest).kind = "for" =>
         /\ Last(nest).continueAt # Empty
         /\ \/ u = {Last(nest).continueAt}
            \/ /\ u = {}
               /\ Last(for_loop_incrementor) = Last(nest).continueAt

(* The calls still to be made lead from the present state to the end.      *)
Fills(x, E, u) ==
  /\ block \in open
  /\ Path(todo, Filling(x, open \ {block}, insert_blocks, u), Done,
          E, layout, created)

Ends(E, owing, u) ==
  /\ block \notin open
  /\ Path(todo, Ended(open, insert_blocks, owing, u), Done,
          E, layout, created)

Idle == todo = <<>> /\ open = {} /\ insert_blocks = <<>>

Calling(E, owing, u) ==
  \/ owing = 0 /\ \E x \in {0, block} : Fills(x, E, u)
  \/ Ends(E, owing, u)
  \/ owing = 0 /\ u = {} /\ Idle

Right(E, owing, u) ==
  /\ E \subseteq Blocks
  /\ PhisRight(E, owing)
  /\ NoPhiIsTarget(E)
  /\ DueRight(u)

Going == \E E, owing, u : Right(E, owing, u) /\ Calling(E, owing, u)

IndInv == Types /\ Placed /\ OpenUnended /\ Going

(* What is known at a statement list or an expression: any block may be    *)
(* the current one.                                                        *)
Node(E, u) == Right(E, 0, u) /\ \A y : Fills(y, E, u)

LEMMA AtNodeFacts ==
  ASSUME IndInv, todo # <<>>, Head(todo).name \in {"stmts", "expr"}
  PROVE  \E E, u : Node(E, u) /\ (Is("stmts") => u = {})
<1>1. PICK E, owing, u : Right(E, owing, u) /\ Calling(E, owing, u)
  BY DEF IndInv, Going
<1>2. todo \in Seq(Calls) /\ created \in Nat
  BY DEF IndInv, Types, TypeOK
<1>3. ~ Ends(E, owing, u)
  <2>1. SUFFICES ASSUME Ends(E, owing, u) PROVE FALSE
    OBVIOUS
  <2>2. FirstEnds(Head(todo), Tail(todo), open, insert_blocks, owing, u,
                  E, layout, created)
    BY <1>2, <2>1, FirstEnded DEF Ends
  <2>3. Head(todo).name \in {"position", "newBlock", "add_incoming", "leave", "finish"}
    BY <2>2 DEF FirstEnds
  <2>4. QED
    BY <2>3
<1>4. owing = 0 /\ \E x : Fills(x, E, u)
  BY <1>1, <1>3 DEF Calling, Idle
<1>5. PICK x : Fills(x, E, u)
  BY <1>4
<1>6. \A y : Fills(y, E, u)
  BY <1>2, <1>5, PathFromAnywhere DEF Fills
<1>7. Is("stmts") => u = {}
  <2>1. FirstFills(Head(todo), Tail(todo), x, open \ {block}, insert_blocks, u,
                   E, layout, created)
    BY <1>2, <1>5, FirstFilling DEF Fills
  <2>2. QED
    BY <2>1 DEF FirstFills, Is
<1>8. QED
  BY <1>1, <1>4, <1>6, <1>7 DEF Node

----------------------------------------------------------------------------
(* Lemmas: the state after blocks have been added                          *)

(* m blocks have been added before the newest insert block.                *)
Grown(m) ==
  /\ created' = created + m
  /\ layout' \in Seq(1 .. created + m)
  /\ Injective(layout')
  /\ \A x, y : Before(layout, x, y) => Before(layout', x, y)
  /\ \A i \in DOMAIN layout : \E j \in DOMAIN layout' : layout'[j] = layout[i]
  /\ \A k \in 1 .. m : Ahead(layout', created + k, insert_blocks)
  /\ \A k, l \in 1 .. m :
       k < l => Before(layout', created + k, created + l)
  /\ \A k \in 1 .. m : block \in open => Before(layout', block, created + k)
  /\ open' = open \cup (created + 1 .. created + m)
  /\ successors' \in [1 .. created + m -> SUBSET (1 .. created + m)]
  /\ \A b \in created + 1 .. created + m : successors'[b] = {}
  /\ \A b \in Blocks : successors'[b] = successors[b]
  /\ entry' = entry /\ phis' = phis

LEMMA GrownByNothing ==
  ASSUME IndInv, UNCHANGED graph
  PROVE  Grown(0)
<1>1. /\ created' = created /\ entry' = entry /\ layout' = layout
      /\ open' = open /\ successors' = successors /\ phis' = phis
  BY DEF graph
<1>2. /\ created \in Nat /\ created + 0 = created /\ layout \in Seq(1 .. created)
      /\ successors \in [1 .. created -> SUBSET (1 .. created)]
      /\ Injective(layout)
  BY DEF IndInv, Types, TypeOK, Placed, Blocks
<1>3. 1 .. 0 = {} /\ created + 1 .. created + 0 = {}
  BY <1>2
<1>4. layout' \in Seq(1 .. created + 0) /\ Injective(layout')
  BY <1>1, <1>2
<1>5. successors' \in [1 .. created + 0 -> SUBSET (1 .. created + 0)]
  BY <1>1, <1>2
<1>6. QED
  BY <1>1, <1>2, <1>3, <1>4, <1>5 DEF Grown

(* Places in an injective layout compare as the blocks do.                 *)
LEMMA PlaceOf ==
  ASSUME NEW i \in DOMAIN layout, Injective(layout)
  PROVE  Place(layout[i]) = i
<1>1. Place(layout[i]) \in DOMAIN layout /\ layout[Place(layout[i])] = layout[i]
  BY DEF Place
<1>2. QED
  BY <1>1 DEF Injective

LEMMA PlaceBefore ==
  ASSUME Injective(layout), layout \in Seq(Blocks), created \in Nat,
         NEW x, NEW y, Before(layout, x, y)
  PROVE  Place(x) < Place(y)
<1>1. PICK i \in DOMAIN layout, j \in DOMAIN layout :
        i < j /\ layout[i] = x /\ layout[j] = y
  BY DEF Before
<1>2. Place(x) = i /\ Place(y) = j
  BY <1>1, PlaceOf
<1>3. QED
  BY <1>1, <1>2

LEMMA GrownByBlocks ==
  ASSUME IndInv, NEW m \in Nat, AddBlocks(m)
  PROVE  Grown(m)
<1>1. /\ created \in Nat /\ layout \in Seq(1 .. created) /\ Injective(layout)
      /\ open \subseteq 1 .. created
      /\ successors \in [1 .. created -> SUBSET (1 .. created)]
      /\ insert_blocks \in Seq(1 .. created)
      /\ InLayout(layout, insert_blocks)
      /\ block \in open => Ahead(layout, block, insert_blocks)
  BY DEF IndInv, Types, TypeOK, Placed, Blocks
<1>2. PICK p : p = IF insert_blocks = <<>> THEN Len(layout) + 1
                                           ELSE Place(Last(insert_blocks))
  OBVIOUS
<1>3. p \in 1 .. Len(layout) + 1
      /\ (insert_blocks # <<>> =>
            p \in DOMAIN layout /\ layout[p] = insert_blocks[Len(insert_blocks)])
  <2>1. CASE insert_blocks = <<>>
    BY <1>1, <1>2, <2>1
  <2>2. CASE insert_blocks # <<>>
    <3>1. /\ Len(insert_blocks) \in DOMAIN insert_blocks
          /\ Last(insert_blocks) = insert_blocks[Len(insert_blocks)]
      BY <1>1, <2>2 DEF Last
    <3>2. PICK i \in DOMAIN layout : layout[i] = insert_blocks[Len(insert_blocks)]
      BY <1>1, <3>1 DEF InLayout
    <3>3. p = i
      BY <1>1, <1>2, <2>2, <3>1, <3>2, PlaceOf
    <3>4. i \in 1 .. Len(layout) + 1
      BY <1>1
    <3>5. QED
      BY <3>2, <3>3, <3>4
  <2>3. QED
    BY <2>1, <2>2
<1>4. /\ created' = created + m
      /\ layout' = Added(layout, created, m, p)
      /\ open' = open \cup (created + 1 .. created + m)
      /\ successors' = [b \in 1 .. created + m |->
                          IF b \in Blocks THEN successors[b] ELSE {}]
      /\ entry' = entry /\ phis' = phis
  BY <1>2 DEF AddBlocks, Added, Fresh
<1>5. /\ layout' \in Seq(1 .. created + m)
      /\ Injective(layout')
      /\ \A x, y : Before(layout, x, y) => Before(layout', x, y)
      /\ \A i \in DOMAIN layout : \E j \in DOMAIN layout' : layout'[j] = layout[i]
      /\ \A k \in 1 .. m : \E j \in DOMAIN layout' : layout'[j] = created + k
      /\ \A k, l \in 1 .. m : k < l => Before(layout', created + k, created + l)
      /\ \A i \in 1 .. p - 1, k \in 1 .. m : Before(layout', layout[i], created + k)
      /\ \A i \in p .. Len(layout), k \in 1 .. m :
           Before(layout', created + k, layout[i])
  <2>1. PICK L, n, M : L = layout /\ n = created /\ M = layout'
    OBVIOUS
  <2>2. /\ n \in Nat /\ L \in Seq(1 .. n) /\ Injective(L)
        /\ p \in 1 .. Len(L) + 1 /\ M = Added(L, n, m, p)
    BY <1>1, <1>3, <1>4, <2>1
  <2>3. AddedRight(L, n, m, p, M)
    BY <2>2, AddedLayout
  <2>4. QED
    BY <2>1, <2>3 DEF AddedRight
<1>6. \A k \in 1 .. m : Ahead(layout', created + k, insert_blocks)
  <2>1. TAKE k \in 1 .. m
  <2>2. insert_blocks # <<>> =>
          Before(layout', created + k, insert_blocks[Len(insert_blocks)])
    <3>1. HAVE insert_blocks # <<>>
    <3>2. p \in p .. Len(layout)
      BY <1>1, <1>3, <3>1
    <3>3. QED
      BY <1>3, <1>5, <3>1, <3>2
  <2>3. QED
    BY <1>5, <2>2 DEF Ahead
<1>7. \A k \in 1 .. m : block \in open => Before(layout', block, created + k)
  <2>1. TAKE k \in 1 .. m
  <2>2. HAVE block \in open
  <2>3. PICK i \in 1 .. p - 1 : layout[i] = block
    <3>1. CASE insert_blocks = <<>>
      <4>1. PICK i \in DOMAIN layout : layout[i] = block
        BY <1>1, <2>2 DEF Ahead
      <4>2. p = Len(layout) + 1 /\ DOMAIN layout = 1 .. Len(layout)
            /\ Len(layout) \in Nat
        BY <1>1, <1>2, <3>1
      <4>3. QED
        BY <4>1, <4>2
    <3>2. CASE insert_blocks # <<>>
      <4>1. PICK i \in DOMAIN layout, j \in DOMAIN layout :
              /\ i < j /\ layout[i] = block
              /\ layout[j] = insert_blocks[Len(insert_blocks)]
        BY <1>1, <2>2, <3>2 DEF Ahead, Before
      <4>2. j = p
        BY <1>1, <1>3, <3>2, <4>1 DEF Injective
      <4>3. DOMAIN layout = 1 .. Len(layout) /\ Len(layout) \in Nat
        BY <1>1
      <4>4. i \in 1 .. p - 1
        BY <4>1, <4>2, <4>3
      <4>5. QED
        BY <4>1, <4>4
    <3>3. QED
      BY <3>1, <3>2
  <2>4. QED
    BY <1>5, <2>3
<1>8. /\ successors' \in [1 .. created + m -> SUBSET (1 .. created + m)]
      /\ \A b \in created + 1 .. created + m : successors'[b] = {}
      /\ \A b \in Blocks : successors'[b] = successors[b]
  BY <1>1, <1>4 DEF Blocks
<1>9. QED
  BY <1>4, <1>5, <1>6, <1>7, <1>8 DEF Grown

----------------------------------------------------------------------------
(* Lemmas: a visit keeps the invariant                                     *)

(* The phis are right with the new blocks, which nothing branches to yet.  *)
LEMMA PhisOfGrown ==
  ASSUME IndInv, NEW m \in Nat, Grown(m), NEW E, NEW E2,
         E2 \subseteq 1 .. created + m, E \subseteq Blocks,
         \A b \in 0 .. created : b \in E <=> b \in E2,
         PhisRight(E, 0)
  PROVE  PhisRight(E2, 0)'
<1>1. /\ created \in Nat /\ phis \subseteq (1 .. created) \X (1 .. created)
      /\ successors \in [1 .. created -> SUBSET (1 .. created)]
  BY DEF IndInv, Types, TypeOK, Blocks
<1>2. /\ created' = created + m /\ phis' = phis
      /\ \A b \in created + 1 .. created + m : successors'[b] = {}
      /\ \A b \in 1 .. created : successors'[b] = successors[b]
  BY DEF Grown, Blocks
<1>3. \A pair \in phis : pair[1] \in 1 .. created /\ pair[2] \in 1 .. created
  BY <1>1
<1>4. \A pair \in phis' : pair[1] \in E2
  <2>1. TAKE pair \in phis'
  <2>2. pair[1] \in E /\ pair[1] \in 1 .. created
    BY <1>2, <1>3 DEF PhisRight
  <2>3. pair[1] \in 0 .. created
    BY <1>1, <2>2
  <2>4. QED
    BY <2>2, <2>3
<1>5. \A b \in E2, c \in 1 .. created + m :
        b \in successors'[c] <=> <<b, c>> \in phis'
  <2>1. TAKE b \in E2, c \in 1 .. created + m
  <2>2. <<b, c>> \in phis => b \in 1 .. created /\ c \in 1 .. created
    <3>1. HAVE <<b, c>> \in phis
    <3>2. <<b, c>>[1] \in 1 .. created /\ <<b, c>>[2] \in 1 .. created
      BY <1>3, <3>1
    <3>3. QED
      BY <3>2
  <2>3. CASE c \in 1 .. created /\ b \in 1 .. created
    <3>1. b \in E
      BY <1>1, <2>3
    <3>2. b \in successors[c] <=> <<b, c>> \in phis
      BY <1>1, <2>3, <3>1 DEF PhisRight, Blocks
    <3>3. QED
      BY <1>2, <2>3, <3>2
  <2>4. CASE c \in 1 .. created /\ b \notin 1 .. created
    BY <1>1, <1>2, <2>2, <2>4
  <2>5. CASE c \notin 1 .. created
    <3>1. c \in created + 1 .. created + m
      BY <1>1, <2>5
    <3>2. QED
      BY <1>2, <2>2, <2>5, <3>1
  <2>6. QED
    BY <2>3, <2>4, <2>5
<1>6. \A b \in E2 : b # 0
  BY <1>1
<1>7. \A b \in E2, c \in Blocks' :
        b \in successors'[c] <=> <<b, c>> \in phis' \/ (b = 0 /\ c = block')
  <2>1. Blocks' = 1 .. created + m
    BY <1>2 DEF Blocks
  <2>2. QED
    BY <1>5, <1>6, <2>1
<1>8. QED
  BY <1>4, <1>7 DEF PhisRight

(* The blocks that have a phi are no targets after the visit either.       *)
LEMMA TargetsOfGrown ==
  ASSUME IndInv, NEW E, NEW E2,
         \A b \in 0 .. created : b \in E <=> b \in E2, NoPhiIsTarget(E)
  PROVE  NoPhiIsTarget(E2)
<1>1. /\ created \in Nat
      /\ loops \in Seq((1 .. created) \X (1 .. created))
      /\ for_loop_incrementor \in Seq(0 .. created)
  BY DEF IndInv, Types, TypeOK, Blocks
<1>2. \A k \in DOMAIN loops : /\ loops[k][1] \in 0 .. created
                              /\ loops[k][2] \in 0 .. created
  <2>1. TAKE k \in DOMAIN loops
  <2>2. loops[k] \in (1 .. created) \X (1 .. created)
    BY <1>1
  <2>3. QED
    BY <1>1, <2>2
<1>3. \A k \in DOMAIN for_loop_incrementor :
        for_loop_incrementor[k] \in 0 .. created
  BY <1>1
<1>4. QED
  BY <1>2, <1>3 DEF NoPhiIsTarget

(* What is placed stays so when blocks are added.                          *)
LEMMA PlacedOfGrown ==
  ASSUME IndInv, NEW m \in Nat, Grown(m), block' = block, block \in open,
         insert_blocks' = insert_blocks
  PROVE  Placed'
<1>1. /\ InLayout(layout, insert_blocks) /\ Descending(layout, insert_blocks)
      /\ Ahead(layout, block, insert_blocks)
  BY DEF IndInv, Placed
<1>2. /\ Injective(layout')
      /\ \A x, y : Before(layout, x, y) => Before(layout', x, y)
      /\ \A i \in DOMAIN layout : \E j \in DOMAIN layout' : layout'[j] = layout[i]
  BY DEF Grown
<1>3. InLayout(layout', insert_blocks)
  BY <1>1, <1>2 DEF InLayout
<1>4. Descending(layout', insert_blocks)
  BY <1>1, <1>2 DEF Descending
<1>5. Ahead(layout', block, insert_blocks)
  BY <1>1, <1>2 DEF Ahead
<1>6. QED
  BY <1>2, <1>3, <1>4, <1>5 DEF Placed

LEMMA UnendedOfGrown ==
  ASSUME IndInv, NEW m \in Nat, Grown(m)
  PROVE  OpenUnended'
<1>1. \A b \in open : b \in Blocks /\ successors[b] = {}
  BY DEF IndInv, Types, TypeOK, OpenUnended
<1>2. QED
  BY <1>1 DEF Grown, OpenUnended

(* A visit puts its calls before the others.                               *)
VisitsOnly ==
  /\ functions' \in 0 .. MaxFunctions
  /\ statements' \in 0 .. MaxStatements
  /\ lazies' \in 0 .. MaxLazy
  /\ UNCHANGED <<block, insert_blocks, for_loop_incrementor, failed>>

LEMMA VisitKeepsInv ==
  ASSUME IndInv, todo # <<>>, NEW m \in Nat, Grown(m), NEW E, NEW u, Node(E, u),
         NEW E2, E2 \subseteq 1 .. created + m,
         \A b \in 0 .. created : b \in E <=> b \in E2,
         NEW calls \in Seq(Calls), NEW y, NEW v,
         Path(calls,
              Filling(block, (open \ {block}) \cup (created + 1 .. created + m),
                      insert_blocks, v),
              Filling(y, open \ {block}, insert_blocks, u),
              E2, layout', created + m),
         todo' = calls \o todo, VisitsOnly,
         nest' \in Seq(LoopRecords), nest' # <<>> => loops' # <<>>,
         loops' \in Seq((1 .. created + m) \X (1 .. created + m)),
         NoPhiIsTarget(E2)', DueRight(v)'
  PROVE  IndInv'
<1>1. /\ created \in Nat /\ entry \in 0 .. created /\ todo \in Seq(Calls)
      /\ open \subseteq 1 .. created /\ phis \subseteq (1 .. created) \X (1 .. created)
      /\ block \in 0 .. created /\ insert_blocks \in Seq(1 .. created)
      /\ for_loop_incrementor \in Seq(0 .. created)
      /\ for_loop_incrementor # <<>> /\ failed = FALSE /\ block # 0
  BY DEF IndInv, Types, TypeOK, Blocks
<1>2. /\ created' = created + m /\ entry' = entry /\ phis' = phis
      /\ open' = open \cup (created + 1 .. created + m)
      /\ layout' \in Seq(1 .. created + m)
      /\ successors' \in [1 .. created + m -> SUBSET (1 .. created + m)]
      /\ \A x, z : Before(layout, x, z) => Before(layout', x, z)
      /\ \A i \in DOMAIN layout : \E j \in DOMAIN layout' : layout'[j] = layout[i]
  BY DEF Grown
<1>3. /\ block' = block /\ insert_blocks' = insert_blocks
      /\ for_loop_incrementor' = for_loop_incrementor /\ failed' = failed
      /\ functions' \in 0 .. MaxFunctions
      /\ statements' \in 0 .. MaxStatements /\ lazies' \in 0 .. MaxLazy
  BY DEF VisitsOnly
<1>4. Right(E, 0, u) /\ Fills(y, E, u) /\ block \in open
  BY DEF Node, Fills
<1>5. TypeOK'
  <2>1. Blocks' = 1 .. created + m
    BY <1>2 DEF Blocks
  <2>2. 1 .. created \subseteq 1 .. created + m /\ 0 .. created \subseteq 0 .. created + m
    <3>1. created \in Nat
      BY <1>1
    <3>2. QED
      BY <3>1
  <2>3. open' \subseteq 1 .. created + m
    <3>1. created + 1 .. created + m \subseteq 1 .. created + m
      BY <1>1
    <3>2. QED
      BY <1>1, <1>2, <2>2, <3>1
  <2>4. phis' \subseteq (1 .. created + m) \X (1 .. created + m)
    BY <1>1, <1>2, <2>2
  <2>5. insert_blocks' \in Seq(1 .. created + m)
    BY <1>1, <1>3, <2>2, SeqMonotonic
  <2>6. for_loop_incrementor' \in Seq(0 .. created + m)
    BY <1>1, <1>3, <2>2, SeqMonotonic
  <2>7. block' \in 0 .. created + m /\ entry' \in 0 .. created + m
    BY <1>1, <1>2, <1>3, <2>2
  <2>8. /\ created' \in Nat /\ entry' \in 0 .. created'
        /\ block' \in 0 .. created' /\ for_loop_incrementor' \in Seq(0 .. created')
    BY <1>1, <1>2, <2>6, <2>7
  <2>9. /\ layout' \in Seq(Blocks') /\ open' \subseteq Blocks'
        /\ successors' \in [Blocks' -> SUBSET Blocks']
        /\ phis' \subseteq Blocks' \X Blocks'
        /\ insert_blocks' \in Seq(Blocks') /\ loops' \in Seq(Blocks' \X Blocks')
    BY <1>2, <2>1, <2>3, <2>4, <2>5
  <2>10. failed' \in BOOLEAN
    BY <1>1, <1>3
  <2>11. QED
    BY <1>3, <2>8, <2>9, <2>10 DEF TypeOK
<1>6. Types'
  <2>1. todo' \in Seq(Calls)
    BY <1>1
  <2>2. QED
    BY <1>1, <1>3, <1>5, <2>1 DEF Types
<1>7. Placed'
  BY <1>3, <1>4, PlacedOfGrown
<1>8. OpenUnended'
  BY UnendedOfGrown
<1>9. Right(E2, 0, v)'
  <2>1. E2 \subseteq Blocks'
    BY <1>2 DEF Blocks
  <2>2. PhisRight(E2, 0)'
    BY <1>3, <1>4, PhisOfGrown DEF Right
  <2>3. QED
    BY <2>1, <2>2 DEF Right
<1>10. Path(todo, Filling(y, open \ {block}, insert_blocks, u), Done,
            E2, layout', created + m)
  <2>1. Path(todo, Filling(y, open \ {block}, insert_blocks, u), Done,
             E, layout, created)
    BY <1>4 DEF Fills
  <2>2. created + m \in Nat /\ created <= created + m
    BY <1>1
  <2>3. QED
    BY <1>1, <1>2, <2>1, <2>2, PathGrows
<1>11. Path(todo', Filling(block, (open \ {block}) \cup (created + 1 .. created + m),
                           insert_blocks, v), Done, E2, layout', created + m)
  BY <1>1, <1>10, PathConcat
<1>12. open' \ {block'} = (open \ {block}) \cup (created + 1 .. created + m)
  <2>1. block \notin created + 1 .. created + m
    BY <1>1
  <2>2. QED
    BY <1>2, <1>3, <2>1
<1>13. Fills(block, E2, v)'
  <2>1. block' \in open'
    BY <1>2, <1>3, <1>4
  <2>2. QED
    BY <1>2, <1>3, <1>11, <1>12, <2>1 DEF Fills
<1>14. Calling(E2, 0, v)'
  BY <1>3, <1>13 DEF Calling
<1>15. QED
  BY <1>6, <1>7, <1>8, <1>9, <1>14 DEF IndInv, Going

----------------------------------------------------------------------------
(* Every action keeps the invariant: visits                                *)

(* What a visit method relies on for its new blocks.                       *)
NewBlocks(m, L, W, s) ==
  \A k \in 1 .. m :
    /\ created + k \in 1 .. created + m
    /\ created + k \notin W /\ created + k \notin Blocks
    /\ Ahead(L, created + k, s) /\ Before(L, block, created + k)
    /\ \A l \in 1 .. m : k < l =>
         Before(L, created + k, created + l) /\ created + k # created + l

LEMMA NewBlocksRight ==
  ASSUME IndInv, block \in open, NEW m \in Nat, Grown(m)
  PROVE  /\ NewBlocks(m, layout', open \ {block}, insert_blocks)
         /\ created \in Nat /\ created + m \in Nat
         /\ block \in Nat /\ block # 0 /\ insert_blocks \in Seq(Nat)
<1>1. /\ created \in Nat /\ open \subseteq 1 .. created
      /\ insert_blocks \in Seq(1 .. created)
  BY DEF IndInv, Types, TypeOK, Blocks
<1>2. /\ \A k \in 1 .. m : Ahead(layout', created + k, insert_blocks)
      /\ \A k, l \in 1 .. m : k < l => Before(layout', created + k, created + l)
      /\ \A k \in 1 .. m : Before(layout', block, created + k)
  BY DEF Grown
<1>3. \A k \in 1 .. m :
        /\ created + k \in 1 .. created + m
        /\ created + k \notin open \ {block} /\ created + k \notin Blocks
        /\ \A l \in 1 .. m : k < l => created + k # created + l
  BY <1>1 DEF Blocks
<1>4. 1 .. created \subseteq Nat
  OBVIOUS
<1>5. insert_blocks \in Seq(Nat)
  BY <1>1, <1>4, SeqMonotonic
<1>6. NewBlocks(m, layout', open \ {block}, insert_blocks)
  BY <1>2, <1>3 DEF NewBlocks
<1>7. created + m \in Nat /\ block \in Nat /\ block # 0
  BY <1>1
<1>8. QED
  BY <1>1, <1>5, <1>6, <1>7

(* A visit method counts a statement and leaves the rest.                  *)
LEMMA VisitCounts ==
  ASSUME IndInv, MayVisit, statements' = statements + 1,
         UNCHANGED <<functions, lazies, failed, block, insert_blocks,
                     for_loop_incrementor>>
  PROVE  VisitsOnly
<1>1. /\ functions \in 0 .. MaxFunctions /\ lazies \in 0 .. MaxLazy
      /\ statements \in 0 .. MaxStatements /\ statements < MaxStatements
      /\ MaxStatements \in Nat
  BY BoundsAssumption DEF IndInv, Types, TypeOK, MayVisit
<1>2. statements' \in 0 .. MaxStatements
  BY <1>1
<1>3. QED
  BY <1>1, <1>2 DEF VisitsOnly

(* A visit that enters no loop.                                            *)
LEMMA VisitInLoop ==
  ASSUME IndInv, todo # <<>>, NEW m \in Nat, Grown(m), NEW E, NEW u, Node(E, u),
         NEW E2, E2 \subseteq 1 .. created + m,
         \A b \in 0 .. created : b \in E <=> b \in E2,
         NEW calls \in Seq(Calls), NEW y,
         Path(calls,
              Filling(block, (open \ {block}) \cup (created + 1 .. created + m),
                      insert_blocks, u),
              Filling(y, open \ {block}, insert_blocks, u),
              E2, layout', created + m),
         todo' = calls \o todo, VisitsOnly, UNCHANGED <<nest, loops>>
  PROVE  IndInv'
<1>1. /\ created \in Nat /\ nest \in Seq(LoopRecords)
      /\ nest # <<>> => loops # <<>>
      /\ loops \in Seq((1 .. created) \X (1 .. created))
  BY DEF IndInv, Types, TypeOK, Blocks
<1>2. loops' \in Seq((1 .. created + m) \X (1 .. created + m))
  <2>1. (1 .. created) \X (1 .. created)
          \subseteq (1 .. created + m) \X (1 .. created + m)
    BY <1>1
  <2>2. loops \in Seq((1 .. created + m) \X (1 .. created + m))
    BY <1>1, <2>1, SeqMonotonic
  <2>3. QED
    BY <2>2
<1>3. /\ nest' \in Seq(LoopRecords) /\ (nest' # <<>> => loops' # <<>>)
      /\ for_loop_incrementor' = for_loop_incrementor
  BY <1>1 DEF VisitsOnly
<1>4. NoPhiIsTarget(E2)'
  <2>1. NoPhiIsTarget(E2)
    BY TargetsOfGrown DEF Node, Right
  <2>2. QED
    BY <1>3, <2>1 DEF NoPhiIsTarget
<1>5. DueRight(u)'
  BY <1>3 DEF Node, Right, DueRight
<1>6. QED
  BY <1>2, <1>3, <1>4, <1>5, VisitKeepsInv

LEMMA KeepsIf ==
  ASSUME IndInv, visitIf
  PROVE  IndInv'
<1>1. /\ todo # <<>> /\ Head(todo).name = "stmts" /\ Is("stmts")
      /\ statements < MaxStatements
  BY DEF visitIf, MayVisit, Is
<1>2. PICK E, u : Node(E, u) /\ u = {}
  BY <1>1, AtNodeFacts
<1>3. block \in open /\ Right(E, 0, {}) /\ E \subseteq Blocks
  BY <1>2 DEF Node, Fills, Right
<1>4. Grown(2)
  BY GrownByBlocks DEF visitIf
<1>5. PICK n, x, s, L, W, a, b :
        /\ n = created + 2 /\ x = block /\ s = insert_blocks /\ L = layout'
        /\ W = open \ {block} /\ a = created + 1 /\ b = created + 2
  OBVIOUS
<1>6. /\ created \in Nat
      /\ n \in Nat /\ x \in Nat /\ x # 0 /\ s \in Seq(Nat)
      /\ a \in 1 .. n /\ a \notin W /\ Ahead(L, a, s) /\ a \notin E
      /\ b \in 1 .. n /\ b \notin W /\ Ahead(L, b, s) /\ b \notin E
      /\ a # b /\ Before(L, x, a) /\ Before(L, a, b)
  <2>1. /\ NewBlocks(2, layout', open \ {block}, insert_blocks)
        /\ created \in Nat /\ created + 2 \in Nat
        /\ block \in Nat /\ block # 0 /\ insert_blocks \in Seq(Nat)
    BY <1>3, <1>4, NewBlocksRight
  <2>2. 1 \in 1 .. 2 /\ 2 \in 1 .. 2 /\ 1 < 2
    OBVIOUS
  <2>3. QED
    BY <1>3, <1>5, <2>1, <2>2 DEF NewBlocks
<1>7. PICK calls : calls =
        VisitBefore(Expression, a) \o CBranch(a, b) \o Position(a)
        \o VisitBefore(Statements, b) \o Branch(b) \o Position(b)
  OBVIOUS
<1>8. /\ calls \in Seq(Calls)
      /\ Path(calls, Filling(x, W \cup {a, b}, s, {}), Filling(b, W, s, {}),
              E, L, n)
  BY <1>6, <1>7, PathIf
<1>9. created + 1 .. created + 2 = {a, b}
  BY <1>5, <1>6
<1>10. Path(calls, Filling(block, (open \ {block}) \cup (created + 1 .. created + 2),
                           insert_blocks, {}),
            Filling(b, open \ {block}, insert_blocks, {}), E, layout', created + 2)
  BY <1>5, <1>8, <1>9
<1>11. todo' = calls \o todo
  BY <1>5, <1>7 DEF visitIf, Visit, Fresh
<1>12. VisitsOnly /\ nest' = nest /\ loops' = loops
  BY VisitCounts DEF visitIf, Visit, stacks
<1>13. \A c \in 0 .. created : c \in E <=> c \in E
  OBVIOUS
<1>14. E \subseteq 1 .. created + 2
  BY <1>3, <1>6, <1>5 DEF Blocks
<1>15. QED
  BY <1>1, <1>2, <1>4, <1>10, <1>11, <1>12, <1>13, <1>14, <1>8, VisitInLoop
(* r is q with e at the end.                                               *)
Appended(T, q, e, r) ==
  /\ r \in Seq(T) /\ r # <<>> /\ Last(r) = e
  /\ \A k \in DOMAIN r : (k \in DOMAIN q /\ r[k] = q[k]) \/ r[k] = e

LEMMA LastOfAppend ==
  ASSUME NEW T, NEW q \in Seq(T), NEW e \in T, NEW r, r = Append(q, e)
  PROVE  Appended(T, q, e, r)
<1>1. /\ r \in Seq(T) /\ Len(r) = Len(q) + 1 /\ Len(q) \in Nat
      /\ DOMAIN r = 1 .. Len(q) + 1 /\ DOMAIN q = 1 .. Len(q)
      /\ r[Len(q) + 1] = e
      /\ \A k \in 1 .. Len(q) : r[k] = q[k]
  OBVIOUS
<1>2. r # <<>>
  BY <1>1
<1>3. Last(r) = e
  BY <1>1 DEF Last
<1>4. ASSUME NEW k \in DOMAIN r
      PROVE  (k \in DOMAIN q /\ r[k] = q[k]) \/ r[k] = e
  <2>1. k \in 1 .. Len(q) \/ k = Len(q) + 1
    BY <1>1
  <2>2. QED
    BY <1>1, <2>1
<1>5. QED
  BY <1>1, <1>2, <1>3, <1>4 DEF Appended

(* A visit that enters a loop.                                             *)
LEMMA VisitOfLoop ==
  ASSUME IndInv, todo # <<>>, NEW m \in Nat, Grown(m), NEW E, Node(E, {}),
         NEW calls \in Seq(Calls), NEW y, NEW v,
         Path(calls,
              Filling(block, (open \ {block}) \cup (created + 1 .. created + m),
                      insert_blocks, v),
              Filling(y, open \ {block}, insert_blocks, {}),
              E, layout', created + m),
         todo' = calls \o todo, VisitsOnly,
         NEW loop \in LoopRecords, loop.clean,
         loop.start \in created + 1 .. created + m,
         loop.end \in created + 1 .. created + m,
         loop.kind = "while" => loop.continueAt = loop.start /\ v = {Empty},
         loop.kind = "for" => loop.continueAt # Empty /\ v = {loop.continueAt},
         loops' = Append(loops, <<loop.start, loop.end>>),
         nest' = Append(nest, loop)
  PROVE  IndInv'
<1>1. /\ created \in Nat /\ nest \in Seq(LoopRecords)
      /\ loops \in Seq((1 .. created) \X (1 .. created))
  BY DEF IndInv, Types, TypeOK, Blocks
<1>2. PICK start, end : start = loop.start /\ end = loop.end
  OBVIOUS
<1>3. /\ start \in 1 .. created + m /\ end \in 1 .. created + m
      /\ start \notin 1 .. created /\ end \notin 1 .. created
  BY <1>1, <1>2
<1>5. /\ nest' \in Seq(LoopRecords) /\ nest' # <<>> /\ Last(nest') = loop
  <2>1. Appended(LoopRecords, nest, loop, nest')
    BY <1>1, LastOfAppend
  <2>2. QED
    BY <2>1 DEF Appended
<1>6. PICK T, q, p : /\ T = (1 .. created + m) \X (1 .. created + m)
                     /\ q = loops /\ p = <<start, end>>
  OBVIOUS
<1>7. q \in Seq(T) /\ p \in T
  <2>1. (1 .. created) \X (1 .. created)
          \subseteq (1 .. created + m) \X (1 .. created + m)
    <3>1. 1 .. created \subseteq 1 .. created + m
      BY <1>1
    <3>2. QED
      BY <3>1
  <2>2. loops \in Seq(T)
    BY <1>1, <1>6, <2>1, SeqMonotonic
  <2>3. <<start, end>> \in T
    BY <1>3, <1>6
  <2>4. QED
    BY <1>6, <2>2, <2>3
<1>8. loops' = Append(q, p)
  BY <1>2, <1>6
<1>9. /\ loops' \in Seq(T) /\ loops' # <<>> /\ Last(loops') = p
      /\ \A k \in DOMAIN loops' :
           (k \in DOMAIN loops /\ loops'[k] = loops[k]) \/ loops'[k] = p
  <2>1. PICK r : r = loops'
    OBVIOUS
  <2>2. Appended(T, q, p, r)
    BY <1>7, <1>8, <2>1, LastOfAppend
  <2>3. QED
    BY <1>6, <2>1, <2>2 DEF Appended
<1>10. E \subseteq 1 .. created /\ E \subseteq 1 .. created + m
  BY <1>1 DEF Node, Right, Blocks
<1>11. NoPhiIsTarget(E)'
  <2>1. /\ for_loop_incrementor' = for_loop_incrementor
        /\ NoPhiIsTarget(E)
    BY DEF VisitsOnly, Node, Right
  <2>2. p[1] \notin E /\ p[2] \notin E
    BY <1>3, <1>6, <1>10
  <2>3. ASSUME NEW k \in DOMAIN loops'
        PROVE  loops'[k][1] \notin E /\ loops'[k][2] \notin E
    BY <1>9, <2>1, <2>2 DEF NoPhiIsTarget
  <2>4. QED
    BY <2>1, <2>3 DEF NoPhiIsTarget
<1>12. DueRight(v)'
  BY <1>2, <1>5, <1>6, <1>9 DEF DueRight
<1>13. \A c \in 0 .. created : c \in E <=> c \in E
  OBVIOUS
<1>14. loops' \in Seq((1 .. created + m) \X (1 .. created + m))
  BY <1>6, <1>9
<1>15. QED
  BY <1>5, <1>9, <1>10, <1>11, <1>12, <1>13, <1>14, VisitKeepsInv

LEMMA KeepsIfElse ==
  ASSUME IndInv, visitIfElse
  PROVE  IndInv'
<1>1. /\ todo # <<>> /\ Head(todo).name = "stmts" /\ Is("stmts")
      /\ statements < MaxStatements
  BY DEF visitIfElse, MayVisit, Is
<1>2. PICK E, u : Node(E, u) /\ u = {}
  BY <1>1, AtNodeFacts
<1>3. block \in open /\ Right(E, 0, {}) /\ E \subseteq Blocks
  BY <1>2 DEF Node, Fills, Right
<1>4. Grown(3)
  BY GrownByBlocks DEF visitIfElse
<1>5. PICK n, x, s, L, W, a, b, c :
        /\ n = created + 3 /\ x = block /\ s = insert_blocks /\ L = layout'
        /\ W = open \ {block}
        /\ a = created + 1 /\ b = created + 2 /\ c = created + 3
  OBVIOUS
<1>6. /\ created \in Nat
      /\ n \in Nat /\ x \in Nat /\ x # 0 /\ s \in Seq(Nat)
      /\ a \in 1 .. n /\ a \notin W /\ Ahead(L, a, s) /\ a \notin E
      /\ b \in 1 .. n /\ b \notin W /\ Ahead(L, b, s) /\ b \notin E
      /\ c \in 1 .. n /\ c \notin W /\ Ahead(L, c, s) /\ c \notin E
      /\ a # b /\ a # c /\ b # c
      /\ Before(L, x, a) /\ Before(L, a, b) /\ Before(L, b, c)
  <2>1. /\ NewBlocks(3, layout', open \ {block}, insert_blocks)
        /\ created \in Nat /\ created + 3 \in Nat
        /\ block \in Nat /\ block # 0 /\ insert_blocks \in Seq(Nat)
    BY <1>3, <1>4, NewBlocksRight
  <2>2. /\ 1 \in 1 .. 3 /\ 2 \in 1 .. 3 /\ 3 \in 1 .. 3
        /\ 1 < 2 /\ 1 < 3 /\ 2 < 3
    OBVIOUS
  <2>3. 0 \notin E
    BY <1>3 DEF Blocks
  <2>4. QED
    BY <1>3, <1>5, <2>1, <2>2, <2>3 DEF NewBlocks
<1>7. PICK calls : calls =
        VisitBefore(Expression, a) \o CBranch(a, b) \o Position(a)
        \o VisitBefore(Statements, b) \o Branch(c) \o Position(b)
        \o VisitBefore(Statements, c) \o Branch(c) \o Position(c)
  OBVIOUS
<1>8. /\ calls \in Seq(Calls)
      /\ Path(calls, Filling(x, W \cup {a, b, c}, s, {}), Filling(c, W, s, {}),
              E, L, n)
  BY <1>6, <1>7, PathIfElse
<1>9. created + 1 .. created + 3 = {a, b, c}
  BY <1>5, <1>6
<1>10. Path(calls, Filling(block, (open \ {block}) \cup (created + 1 .. created + 3),
                           insert_blocks, {}),
            Filling(c, open \ {block}, insert_blocks, {}), E, layout', created + 3)
  BY <1>5, <1>8, <1>9
<1>11. todo' = calls \o todo
  BY <1>5, <1>7 DEF visitIfElse, Visit, Fresh
<1>12. VisitsOnly /\ nest' = nest /\ loops' = loops
  BY VisitCounts DEF visitIfElse, Visit, stacks
<1>13. \A z \in 0 .. created : z \in E <=> z \in E
  OBVIOUS
<1>14. E \subseteq 1 .. created + 3
  BY <1>3, <1>5, <1>6 DEF Blocks
<1>15. QED
  BY <1>1, <1>2, <1>4, <1>8, <1>10, <1>11, <1>12, <1>13, <1>14, VisitInLoop

LEMMA KeepsDoWhile ==
  ASSUME IndInv, visitDoWhile
  PROVE  IndInv'
<1>1. /\ todo # <<>> /\ Head(todo).name = "stmts" /\ Is("stmts")
      /\ statements < MaxStatements
  BY DEF visitDoWhile, MayVisit, Is
<1>2. PICK E, u : Node(E, u) /\ u = {}
  BY <1>1, AtNodeFacts
<1>3. block \in open /\ Right(E, 0, {}) /\ E \subseteq Blocks
  BY <1>2 DEF Node, Fills, Right
<1>4. Grown(3)
  BY GrownByBlocks DEF visitDoWhile
<1>5. PICK n, x, s, L, W, a, b, c :
        /\ n = created + 3 /\ x = block /\ s = insert_blocks /\ L = layout'
        /\ W = open \ {block}
        /\ a = created + 1 /\ b = created + 2 /\ c = created + 3
  OBVIOUS
<1>6. /\ created \in Nat
      /\ n \in Nat /\ x \in Nat /\ x # 0 /\ s \in Seq(Nat)
      /\ a \in 1 .. n /\ a \notin W /\ Ahead(L, a, s) /\ a \notin E
      /\ b \in 1 .. n /\ b \notin W /\ Ahead(L, b, s) /\ b \notin E
      /\ c \in 1 .. n /\ c \notin W /\ Ahead(L, c, s) /\ c \notin E
      /\ a # b /\ a # c /\ b # c
      /\ Before(L, a, b) /\ Before(L, b, c)
  <2>1. /\ NewBlocks(3, layout', open \ {block}, insert_blocks)
        /\ created \in Nat /\ created + 3 \in Nat
        /\ block \in Nat /\ block # 0 /\ insert_blocks \in Seq(Nat)
    BY <1>3, <1>4, NewBlocksRight
  <2>2. /\ 1 \in 1 .. 3 /\ 2 \in 1 .. 3 /\ 3 \in 1 .. 3
        /\ 1 < 2 /\ 1 < 3 /\ 2 < 3
    OBVIOUS
  <2>3. 0 \notin E
    BY <1>3 DEF Blocks
  <2>4. QED
    BY <1>3, <1>5, <2>1, <2>2, <2>3 DEF NewBlocks
<1>7. PICK calls : calls =
        Branch(b) \o Position(a) \o VisitBefore(Expression, b) \o CBranch(b, c)
        \o Position(b) \o VisitBefore(Statements, c) \o BranchIfOpen(a)
        \o LeaveLoop \o Position(c)
  OBVIOUS
<1>8. /\ calls \in Seq(Calls)
      /\ Path(calls, Filling(x, W \cup {a, b, c}, s, {}), Filling(c, W, s, {}),
              E, L, n)
  BY <1>6, <1>7, PathDoWhile
<1>9. created + 1 .. created + 3 = {a, b, c}
  BY <1>5, <1>6
<1>10. Path(calls, Filling(block, (open \ {block}) \cup (created + 1 .. created + 3),
                           insert_blocks, {}),
            Filling(c, open \ {block}, insert_blocks, {}), E, layout', created + 3)
  BY <1>5, <1>8, <1>9
<1>11. todo' = calls \o todo
  BY <1>5, <1>7 DEF visitDoWhile, Visit, Fresh
<1>12. VisitsOnly
  BY VisitCounts DEF visitDoWhile, Visit, BeginLoop
<1>13. PICK loop : loop = Loop("dowhile", a, c, a)
  OBVIOUS
<1>14. /\ loop \in LoopRecords /\ loop.clean /\ loop.kind = "dowhile"
       /\ loop.start = a /\ loop.end = c /\ loop.continueAt = a
  BY <1>6, <1>13 DEF Loop, LoopRecords
<1>15. /\ loops' = Append(loops, <<loop.start, loop.end>>)
       /\ nest' = Append(nest, loop)
  <2>1. loops' = Append(loops, <<a, c>>) /\ nest' = Append(nest, loop)
    BY <1>5, <1>13 DEF visitDoWhile, BeginLoop, Loop, Fresh
  <2>2. QED
    BY <1>14, <2>1
<1>16. /\ loop.start \in created + 1 .. created + 3
       /\ loop.end \in created + 1 .. created + 3
  BY <1>9, <1>14
<1>17. /\ loop.kind = "while" => loop.continueAt = loop.start /\ {} = {Empty}
       /\ loop.kind = "for" => loop.continueAt # Empty /\ {} = {loop.continueAt}
  <2>1. a # 0 /\ a # 0
    BY <1>6
  <2>2. QED
    BY <1>14, <2>1 DEF Empty
<1>18. Node(E, {})
  BY <1>2
<1>19. QED
  BY <1>1, <1>4, <1>8, <1>10, <1>11, <1>12, <1>14, <1>15, <1>16, <1>17,
     <1>18, VisitOfLoop

LEMMA KeepsWhile ==
  ASSUME IndInv, visitWhile
  PROVE  IndInv'
<1>1. /\ todo # <<>> /\ Head(todo).name = "stmts" /\ Is("stmts")
      /\ statements < MaxStatements
  BY DEF visitWhile, MayVisit, Is
<1>2. PICK E, u : Node(E, u) /\ u = {}
  BY <1>1, AtNodeFacts
<1>3. block \in open /\ Right(E, 0, {}) /\ E \subseteq Blocks
  BY <1>2 DEF Node, Fills, Right
<1>4. Grown(3)
  BY GrownByBlocks DEF visitWhile
<1>5. PICK n, x, s, L, W, a, b, c :
        /\ n = created + 3 /\ x = block /\ s = insert_blocks /\ L = layout'
        /\ W = open \ {block}
        /\ a = created + 1 /\ b = created + 2 /\ c = created + 3
  OBVIOUS
<1>6. /\ created \in Nat
      /\ n \in Nat /\ x \in Nat /\ x # 0 /\ s \in Seq(Nat)
      /\ a \in 1 .. n /\ a \notin W /\ Ahead(L, a, s) /\ a \notin E
      /\ b \in 1 .. n /\ b \notin W /\ Ahead(L, b, s) /\ b \notin E
      /\ c \in 1 .. n /\ c \notin W /\ Ahead(L, c, s) /\ c \notin E
      /\ a # b /\ a # c /\ b # c
      /\ Before(L, a, b) /\ Before(L, b, c)
      /\ 0 \notin E
  <2>1. /\ NewBlocks(3, layout', open \ {block}, insert_blocks)
        /\ created \in Nat /\ created + 3 \in Nat
        /\ block \in Nat /\ block # 0 /\ insert_blocks \in Seq(Nat)
    BY <1>3, <1>4, NewBlocksRight
  <2>2. /\ 1 \in 1 .. 3 /\ 2 \in 1 .. 3 /\ 3 \in 1 .. 3
        /\ 1 < 2 /\ 1 < 3 /\ 2 < 3
    OBVIOUS
  <2>3. 0 \notin E
    BY <1>3 DEF Blocks
  <2>4. QED
    BY <1>3, <1>5, <2>1, <2>2, <2>3 DEF NewBlocks
<1>7. PICK calls : calls =
        Branch(a) \o Position(a) \o VisitBefore(Expression, b) \o CBranch(b, c)
        \o Position(b) \o PushIncrementor(Empty) \o VisitBefore(Statements, c)
        \o BranchIfOpen(a) \o LeaveLoop \o Position(c)
  OBVIOUS
<1>8. /\ calls \in Seq(Calls)
      /\ Path(calls, Filling(x, W \cup {a, b, c}, s, {0}), Filling(c, W, s, {}),
              E, L, n)
  BY <1>6, <1>7, PathWhile
<1>9. created + 1 .. created + 3 = {a, b, c}
  BY <1>5, <1>6
<1>10. Path(calls, Filling(block, (open \ {block}) \cup (created + 1 .. created + 3),
                           insert_blocks, {0}),
            Filling(c, open \ {block}, insert_blocks, {}), E, layout', created + 3)
  BY <1>5, <1>8, <1>9
<1>11. todo' = calls \o todo
  BY <1>5, <1>7 DEF visitWhile, Visit, Fresh
<1>12. VisitsOnly
  BY VisitCounts DEF visitWhile, Visit, BeginLoop
<1>13. PICK loop : loop = Loop("while", a, c, a)
  OBVIOUS
<1>14. /\ loop \in LoopRecords /\ loop.clean /\ loop.kind = "while"
       /\ loop.start = a /\ loop.end = c /\ loop.continueAt = a
  BY <1>6, <1>13 DEF Loop, LoopRecords
<1>15. /\ loops' = Append(loops, <<loop.start, loop.end>>)
       /\ nest' = Append(nest, loop)
  <2>1. loops' = Append(loops, <<a, c>>) /\ nest' = Append(nest, loop)
    BY <1>5, <1>13 DEF visitWhile, BeginLoop, Loop, Fresh
  <2>2. QED
    BY <1>14, <2>1
<1>16. /\ loop.start \in created + 1 .. created + 3
       /\ loop.end \in created + 1 .. created + 3
  BY <1>9, <1>14
<1>17. /\ loop.kind = "while" => loop.continueAt = loop.start /\ {0} = {Empty}
       /\ loop.kind = "for" => loop.continueAt # Empty /\ {0} = {loop.continueAt}
  <2>1. a # 0 /\ a # 0
    BY <1>6
  <2>2. QED
    BY <1>14, <2>1 DEF Empty
<1>18. Node(E, {})
  BY <1>2
<1>19. QED
  BY <1>1, <1>4, <1>8, <1>10, <1>11, <1>12, <1>14, <1>15, <1>16, <1>17,
     <1>18, VisitOfLoop

LEMMA KeepsWhileFor ==
  ASSUME IndInv, visitWhileFor
  PROVE  IndInv'
<1>1. /\ todo # <<>> /\ Head(todo).name = "stmts" /\ Is("stmts")
      /\ statements < MaxStatements
  BY DEF visitWhileFor, MayVisit, Is
<1>2. PICK E, u : Node(E, u) /\ u = {}
  BY <1>1, AtNodeFacts
<1>3. block \in open /\ Right(E, 0, {}) /\ E \subseteq Blocks
  BY <1>2 DEF Node, Fills, Right
<1>4. Grown(4)
  BY GrownByBlocks DEF visitWhileFor
<1>5. PICK n, x, s, L, W, a, b, c, d :
        /\ n = created + 4 /\ x = block /\ s = insert_blocks /\ L = layout'
        /\ W = open \ {block}
        /\ a = created + 1 /\ b = created + 2 /\ c = created + 3 /\ d = created + 4
  OBVIOUS
<1>6. /\ created \in Nat
      /\ n \in Nat /\ x \in Nat /\ x # 0 /\ s \in Seq(Nat)
      /\ a \in 1 .. n /\ a \notin W /\ Ahead(L, a, s) /\ a \notin E
      /\ b \in 1 .. n /\ b \notin W /\ Ahead(L, b, s) /\ b \notin E
      /\ c \in 1 .. n /\ c \notin W /\ Ahead(L, c, s) /\ c \notin E
      /\ d \in 1 .. n /\ d \notin W /\ Ahead(L, d, s) /\ d \notin E
      /\ a # b /\ a # c /\ a # d /\ b # c /\ b # d /\ c # d
      /\ Before(L, a, b) /\ Before(L, b, c) /\ Before(L, c, d)
  <2>1. /\ NewBlocks(4, layout', open \ {block}, insert_blocks)
        /\ created \in Nat /\ created + 4 \in Nat
        /\ block \in Nat /\ block # 0 /\ insert_blocks \in Seq(Nat)
    BY <1>3, <1>4, NewBlocksRight
  <2>2. /\ 1 \in 1 .. 4 /\ 2 \in 1 .. 4 /\ 3 \in 1 .. 4 /\ 4 \in 1 .. 4
        /\ 1 < 2 /\ 1 < 3 /\ 1 < 4 /\ 2 < 3 /\ 2 < 4 /\ 3 < 4
    OBVIOUS
  <2>3. 0 \notin E
    BY <1>3 DEF Blocks
  <2>4. QED
    BY <1>3, <1>5, <2>1, <2>2, <2>3 DEF NewBlocks
<1>7. PICK calls : calls =
        Branch(a) \o Position(a) \o VisitBefore(Expression, b) \o CBranch(b, d)
        \o Position(b) \o PushIncrementor(c) \o VisitBefore(Statements, c)
        \o Branch(c) \o Position(c) \o VisitBefore(<<>>, d)
        \o BranchIfOpen(a) \o LeaveLoop \o Position(d)
  OBVIOUS
<1>8. /\ calls \in Seq(Calls)
      /\ Path(calls, Filling(x, W \cup {a, b, c, d}, s, {c}), Filling(d, W, s, {}),
              E, L, n)
  BY <1>6, <1>7, PathWhileFor
<1>9. created + 1 .. created + 4 = {a, b, c, d}
  BY <1>5, <1>6
<1>10. Path(calls, Filling(block, (open \ {block}) \cup (created + 1 .. created + 4),
                           insert_blocks, {c}),
            Filling(d, open \ {block}, insert_blocks, {}), E, layout', created + 4)
  BY <1>5, <1>8, <1>9
<1>11. todo' = calls \o todo
  BY <1>5, <1>7 DEF visitWhileFor, Visit, Fresh
<1>12. VisitsOnly
  BY VisitCounts DEF visitWhileFor, Visit, BeginLoop
<1>13. PICK loop : loop = Loop("for", a, d, c)
  OBVIOUS
<1>14. /\ loop \in LoopRecords /\ loop.clean /\ loop.kind = "for"
       /\ loop.start = a /\ loop.end = d /\ loop.continueAt = c
  BY <1>6, <1>13 DEF Loop, LoopRecords
<1>15. /\ loops' = Append(loops, <<loop.start, loop.end>>)
       /\ nest' = Append(nest, loop)
  <2>1. loops' = Append(loops, <<a, d>>) /\ nest' = Append(nest, loop)
    BY <1>5, <1>13 DEF visitWhileFor, BeginLoop, Loop, Fresh
  <2>2. QED
    BY <1>14, <2>1
<1>16. /\ loop.start \in created + 1 .. created + 4
       /\ loop.end \in created + 1 .. created + 4
  BY <1>9, <1>14
<1>17. /\ loop.kind = "while" => loop.continueAt = loop.start /\ {c} = {Empty}
       /\ loop.kind = "for" => loop.continueAt # Empty /\ {c} = {loop.continueAt}
  <2>1. a # 0 /\ c # 0
    BY <1>6
  <2>2. QED
    BY <1>14, <2>1 DEF Empty
<1>18. Node(E, {})
  BY <1>2
<1>19. QED
  BY <1>1, <1>4, <1>8, <1>10, <1>11, <1>12, <1>14, <1>15, <1>16, <1>17,
     <1>18, VisitOfLoop
(* A visit that adds no block.                                             *)
LEMMA VisitAddsNothing ==
  ASSUME IndInv, todo # <<>>, UNCHANGED graph, NEW E, NEW u, Node(E, u),
         NEW calls \in Seq(Calls), NEW y,
         Path(calls, Filling(block, open \ {block}, insert_blocks, u),
              Filling(y, open \ {block}, insert_blocks, u), E, layout, created),
         todo' = calls \o todo, VisitsOnly, UNCHANGED <<nest, loops>>
  PROVE  IndInv'
<1>1. Grown(0)
  BY GrownByNothing
<1>2. /\ created \in Nat /\ created + 0 = created
      /\ created + 1 .. created + 0 = {}
  BY DEF IndInv, Types, TypeOK
<1>3. (open \ {block}) \cup (created + 1 .. created + 0) = open \ {block}
  BY <1>2
<1>4. layout' = layout
  BY DEF graph
<1>5. Path(calls, Filling(block, (open \ {block}) \cup (created + 1 .. created + 0),
                          insert_blocks, u),
           Filling(y, open \ {block}, insert_blocks, u), E, layout', created + 0)
  BY <1>2, <1>3, <1>4
<1>6. E \subseteq 1 .. created + 0 /\ \A c \in 0 .. created : c \in E <=> c \in E
  BY <1>2 DEF Node, Right, Blocks
<1>7. 0 \in Nat
  OBVIOUS
<1>8. QED
  BY <1>1, <1>5, <1>6, <1>7, VisitInLoop

LEMMA JumpKeepsInv ==
  ASSUME IndInv, MayVisit, NEW E, Node(E, {}), NEW target,
         target \in Blocks, target \notin E, JumpTo(target)
  PROVE  IndInv'
<1>1. todo # <<>> /\ created \in Nat
  BY DEF MayVisit, Is, IndInv, Types, TypeOK
<1>2. PICK n, x, s, W, a :
        /\ n = created /\ x = block /\ s = insert_blocks /\ W = open \ {block}
        /\ a = target
  OBVIOUS
<1>3. n \in Nat /\ a \in 1 .. n /\ a \notin E
  BY <1>1, <1>2 DEF Blocks
<1>4. PICK calls : calls = Branch(a) \o NewBlock
  OBVIOUS
<1>5. /\ calls \in Seq(Calls)
      /\ Path(calls, Filling(x, W, s, {}), Filling(0, W, s, {}), E, layout, n)
  BY <1>3, <1>4, PathJumpTo
<1>6. Path(calls, Filling(block, open \ {block}, insert_blocks, {}),
           Filling(0, open \ {block}, insert_blocks, {}), E, layout, created)
  BY <1>2, <1>5
<1>7. todo' = calls \o todo
  BY <1>2, <1>4 DEF JumpTo, Visit
<1>8. VisitsOnly /\ UNCHANGED <<graph, nest, loops>>
  BY VisitCounts DEF JumpTo, Visit, stacks
<1>9. UNCHANGED graph /\ UNCHANGED <<nest, loops>>
  BY <1>8
<1>10. QED
  BY <1>1, <1>5, <1>6, <1>7, <1>8, <1>9, VisitAddsNothing

LEMMA AtJumpFacts ==
  ASSUME IndInv, MayVisit, nest # <<>>
  PROVE  \E E : /\ Node(E, {})
                /\ BreakTarget \in Blocks \ E /\ ContinueTarget \in Blocks \ E
<1>1. todo # <<>> /\ Head(todo).name \in {"stmts", "expr"} /\ Is("stmts")
  BY DEF MayVisit, Is
<1>2. PICK E, u : Node(E, u) /\ u = {}
  BY <1>1, AtNodeFacts
<1>3. /\ created \in Nat /\ loops # <<>> /\ for_loop_incrementor # <<>>
      /\ loops \in Seq((1 .. created) \X (1 .. created))
      /\ for_loop_incrementor \in Seq(0 .. created)
      /\ NoPhiIsTarget(E)
  BY <1>2 DEF IndInv, Types, TypeOK, Blocks, Node, Right
<1>4. /\ Last(loops) \in (1 .. created) \X (1 .. created)
      /\ Last(loops)[1] \notin E /\ Last(loops)[2] \notin E
  <2>1. PICK T : T = (1 .. created) \X (1 .. created)
    OBVIOUS
  <2>2. Len(loops) \in DOMAIN loops /\ Last(loops) = loops[Len(loops)]
        /\ Last(loops) \in T
    <3>1. loops \in Seq(T)
      BY <1>3, <2>1
    <3>2. QED
      BY <1>3, <3>1 DEF Last
  <2>3. QED
    BY <1>3, <2>1, <2>2 DEF NoPhiIsTarget
<1>5. /\ Last(for_loop_incrementor) \in 0 .. created
      /\ Last(for_loop_incrementor) \notin E
  <2>1. /\ Len(for_loop_incrementor) \in DOMAIN for_loop_incrementor
        /\ Last(for_loop_incrementor)
             = for_loop_incrementor[Len(for_loop_incrementor)]
        /\ Last(for_loop_incrementor) \in 0 .. created
    BY <1>3 DEF Last
  <2>2. QED
    BY <1>3, <2>1 DEF NoPhiIsTarget
<1>6. BreakTarget \in Blocks \ E
  BY <1>4 DEF BreakTarget, Blocks
<1>7. ContinueTarget \in Blocks \ E
  <2>1. CASE Last(for_loop_incrementor) # Empty
    BY <1>3, <1>5, <2>1 DEF ContinueTarget, Blocks, Empty
  <2>2. CASE Last(for_loop_incrementor) = Empty
    BY <1>4, <2>2 DEF ContinueTarget, Blocks
  <2>3. QED
    BY <2>1, <2>2
<1>8. QED
  BY <1>2, <1>6, <1>7

LEMMA KeepsBreak ==
  ASSUME IndInv, visitBreak
  PROVE  IndInv'
<1>1. MayVisit /\ nest # <<>> /\ JumpTo(BreakTarget)
  BY DEF visitBreak
<1>2. PICK E : Node(E, {}) /\ BreakTarget \in Blocks \ E
  BY <1>1, AtJumpFacts
<1>3. BreakTarget \in Blocks /\ BreakTarget \notin E
  BY <1>2
<1>4. QED
  BY <1>1, <1>2, <1>3, JumpKeepsInv

LEMMA KeepsContinue ==
  ASSUME IndInv, visitContinue
  PROVE  IndInv'
<1>1. MayVisit /\ nest # <<>> /\ JumpTo(ContinueTarget)
  BY DEF visitContinue
<1>2. PICK E : Node(E, {}) /\ ContinueTarget \in Blocks \ E
  BY <1>1, AtJumpFacts
<1>3. ContinueTarget \in Blocks /\ ContinueTarget \notin E
  BY <1>2
<1>4. QED
  BY <1>1, <1>2, <1>3, JumpKeepsInv

LEMMA KeepsReturn ==
  ASSUME IndInv, visitReturn
  PROVE  IndInv'
<1>1. MayVisit /\ todo # <<>> /\ Head(todo).name \in {"stmts", "expr"} /\ Is("stmts")
  BY DEF visitReturn, MayVisit, Is
<1>2. PICK E, u : Node(E, u) /\ u = {}
  BY <1>1, AtNodeFacts
<1>3. PICK n, x, s, W, L : /\ n = created /\ x = block /\ s = insert_blocks
                           /\ W = open \ {block} /\ L = layout
  OBVIOUS
<1>4. n \in Nat
  BY <1>3 DEF IndInv, Types, TypeOK
<1>5. PICK calls : calls = Expression \o Return \o NewBlock
  OBVIOUS
<1>6. /\ calls \in Seq(Calls)
      /\ Path(calls, Filling(x, W, s, {}), Filling(0, W, s, {}), E, L, n)
  BY <1>4, <1>5, PathVisitReturn
<1>7. Path(calls, Filling(block, open \ {block}, insert_blocks, u),
           Filling(0, open \ {block}, insert_blocks, u), E, layout, created)
  BY <1>2, <1>3, <1>6
<1>8. todo' = calls \o todo
  BY <1>5 DEF visitReturn, Visit
<1>9. VisitsOnly /\ UNCHANGED graph /\ UNCHANGED <<nest, loops>>
  BY <1>1, VisitCounts DEF visitReturn, Visit, stacks
<1>10. QED
  BY <1>1, <1>2, <1>6, <1>7, <1>8, <1>9, VisitAddsNothing

LEMMA KeepsExpressionStatement ==
  ASSUME IndInv, visitExpressionStatement
  PROVE  IndInv'
<1>1. MayVisit /\ todo # <<>> /\ Head(todo).name \in {"stmts", "expr"} /\ Is("stmts")
  BY DEF visitExpressionStatement, MayVisit, Is
<1>2. PICK E, u : Node(E, u) /\ u = {}
  BY <1>1, AtNodeFacts
<1>3. created \in Nat
  BY DEF IndInv, Types, TypeOK
<1>4. /\ Expression \in Seq(Calls)
      /\ Path(Expression, Filling(block, open \ {block}, insert_blocks, u),
              Filling(0, open \ {block}, insert_blocks, u), E, layout, created)
  BY <1>3, PathExpression
<1>5. todo' = Expression \o todo
  BY DEF visitExpressionStatement, Visit
<1>6. VisitsOnly /\ UNCHANGED graph /\ UNCHANGED <<nest, loops>>
  BY <1>1, VisitCounts DEF visitExpressionStatement, Visit, stacks
<1>7. QED
  BY <1>1, <1>2, <1>4, <1>5, <1>6, VisitAddsNothing

(* A step that changes nothing but the calls still to be made.             *)
LEMMA OnlyTodo ==
  ASSUME IndInv, todo # <<>>,
         UNCHANGED <<functions, lazies, failed, graph, block, stacks, nest>>,
         statements' \in 0 .. MaxStatements, todo' \in Seq(Calls),
         NEW E, NEW owing, NEW u, Right(E, owing, u), Calling(E, owing, u)'
  PROVE  IndInv'
<1>1. /\ functions' = functions /\ lazies' = lazies /\ failed' = failed
      /\ created' = created /\ entry' = entry /\ layout' = layout
      /\ open' = open /\ successors' = successors /\ phis' = phis
      /\ block' = block /\ insert_blocks' = insert_blocks /\ loops' = loops
      /\ for_loop_incrementor' = for_loop_incrementor /\ nest' = nest
  BY DEF graph, stacks
<1>2. Types'
  <2>1. Types /\ TypeOK /\ Blocks' = Blocks
    BY <1>1 DEF IndInv, Types, Blocks
  <2>2. TypeOK'
    BY <1>1, <2>1 DEF TypeOK
  <2>3. QED
    BY <1>1, <2>1, <2>2 DEF Types
<1>3. Placed' /\ OpenUnended'
  BY <1>1 DEF IndInv, Placed, OpenUnended
<1>4. Right(E, owing, u)'
  BY <1>1 DEF Right, PhisRight, NoPhiIsTarget, DueRight, Blocks
<1>5. QED
  BY <1>2, <1>3, <1>4 DEF IndInv, Going

LEMMA KeepsEndNode ==
  ASSUME IndInv, EndStatements \/ EndExpression
  PROVE  IndInv'
<1>1. /\ todo # <<>> /\ Head(todo).name \in {"stmts", "expr"}
      /\ todo' = Tail(todo)
      /\ UNCHANGED <<functions, lazies, failed, graph, block, stacks, nest>>
      /\ statements' = statements
  BY DEF EndStatements, EndExpression, Is, counts
<1>2. PICK E, u : Node(E, u)
  BY <1>1, AtNodeFacts
<1>3. todo \in Seq(Calls) /\ created \in Nat /\ statements \in 0 .. MaxStatements
  BY DEF IndInv, Types, TypeOK
<1>4. Right(E, 0, u) /\ Fills(0, E, u)
  BY <1>2 DEF Node
<1>5. FirstFills(Head(todo), Tail(todo), 0, open \ {block}, insert_blocks, u,
                 E, layout, created)
  BY <1>3, <1>4, FirstFilling DEF Fills
<1>6. Path(Tail(todo), Filling(0, open \ {block}, insert_blocks, u), Done,
           E, layout, created)
  BY <1>1, <1>5 DEF FirstFills
<1>7. Fills(0, E, u)'
  BY <1>1, <1>4, <1>6 DEF Fills, graph, stacks
<1>8. Calling(E, 0, u)'
  BY <1>7 DEF Calling
<1>9. todo' \in Seq(Calls) /\ statements' \in 0 .. MaxStatements
  BY <1>1, <1>3
<1>10. QED
  BY <1>1, <1>4, <1>8, <1>9, OnlyTodo

(* The last call of a function can be made when the block has ended too.   *)
LEMMA PathOfLast ==
  ASSUME NEW t \in Seq(Calls), Len(t) = 1, NEW x, NEW W, NEW s, NEW u, NEW E,
         NEW L, NEW n \in Nat, Path(t, Filling(x, W, s, u), Done, E, L, n)
  PROVE  Path(t, Ended(W, s, 0, u), Done, E, L, n)
<1>1. t # <<>> /\ Tail(t) = <<>> /\ Tail(t) \in Seq(Calls) /\ Head(t) \in Calls
  <2>1. t # <<>>
    OBVIOUS
  <2>2. Tail(t) \in Seq(Calls) /\ Len(Tail(t)) = 0 /\ Head(t) \in Calls
    BY <2>1
  <2>3. Tail(t) = <<>>
    BY <2>2, EmptySeq
  <2>4. QED
    BY <2>1, <2>2, <2>3
<1>2. FirstFills(Head(t), Tail(t), x, W, s, u, E, L, n)
  BY FirstFilling
<1>3. \A c : c # Done => ~ Path(Tail(t), c, Done, E, L, n)
  BY <1>1, PathNotEmpty
<1>4. \A y, V, r, o, v : /\ ~ Path(Tail(t), Filling(y, V, r, v), Done, E, L, n)
                         /\ ~ Path(Tail(t), Ended(V, r, o, v), Done, E, L, n)
  BY <1>3, NotDone
<1>5. Head(t).name = "finish"
  <2>1. Head(t).name \in Names
    BY <1>1 DEF Calls
  <2>2. QED
    BY <1>2, <1>4, <2>1 DEF FirstFills, Names
<1>6. W = {} /\ s = <<>> /\ u = {}
  BY <1>2, <1>5 DEF FirstFills
<1>7. Allowed(Head(t), Filling(x, W, s, u), E, L, n)
  BY <1>1, PathHead
<1>8. Allowed(Head(t), Ended(W, s, 0, u), E, L, n)
  BY <1>5, <1>6, <1>7 DEF Allowed, Filling, Ended
<1>9. After(Head(t), Ended(W, s, 0, u), E) = Done
  BY <1>5 DEF After
<1>10. Path(Tail(t), Done, Done, E, L, n)
  BY <1>1, PathEmpty
<1>11. QED
  BY <1>1, <1>8, <1>9, <1>10, PathCons

LEMMA KeepsTerminatingReturn ==
  ASSUME IndInv, visitTerminatingReturn
  PROVE  IndInv'
<1>1. /\ MayVisit /\ todo # <<>> /\ Head(todo).name \in {"stmts", "expr"}
      /\ Is("stmts") /\ Len(todo) = 2
      /\ todo' = Expression \o Return \o Tail(todo)
      /\ statements' = statements + 1
      /\ UNCHANGED <<functions, lazies, failed, graph, block, stacks, nest>>
  BY DEF visitTerminatingReturn, MayVisit, Is
<1>2. PICK E, u : Node(E, u) /\ u = {}
  BY <1>1, AtNodeFacts
<1>3. /\ todo \in Seq(Calls) /\ created \in Nat
      /\ statements \in 0 .. MaxStatements /\ MaxStatements \in Nat
  BY BoundsAssumption DEF IndInv, Types, TypeOK
<1>4. Right(E, 0, u) /\ Fills(0, E, u)
  BY <1>2 DEF Node
<1>5. PICK n, s, W, L, t : /\ n = created /\ s = insert_blocks /\ t = Tail(todo)
                           /\ W = open \ {block} /\ L = layout
  OBVIOUS
<1>6. n \in Nat /\ t \in Seq(Calls) /\ Len(t) = 1
  BY <1>1, <1>3, <1>5
<1>7. FirstFills(Head(todo), t, 0, W, s, u, E, L, n)
  BY <1>3, <1>4, <1>5, FirstFilling DEF Fills
<1>8. Path(t, Filling(0, W, s, u), Done, E, L, n)
  BY <1>1, <1>7 DEF FirstFills, Is
<1>9. Path(t, Ended(W, s, 0, u), Done, E, L, n)
  BY <1>6, <1>8, PathOfLast
<1>10. /\ Expression \in Seq(Calls) /\ Return \in Seq(Calls)
       /\ Path(Expression, Filling(0, W, s, u), Filling(0, W, s, u), E, L, n)
       /\ Path(Return, Filling(0, W, s, u), Ended(W, s, 0, u), E, L, n)
  BY <1>6, PathExpression, PathReturn
<1>11. PICK r : r = Expression \o Return
  OBVIOUS
<1>12. r \in Seq(Calls) /\ Path(r, Filling(0, W, s, u), Ended(W, s, 0, u), E, L, n)
  BY <1>10, <1>11, PathConcat
<1>13. r \o t \in Seq(Calls) /\ Path(r \o t, Filling(0, W, s, u), Done, E, L, n)
  BY <1>6, <1>9, <1>12, PathConcat
<1>14. todo' = r \o t
  BY <1>1, <1>5, <1>11
<1>15. Fills(0, E, u)'
  BY <1>1, <1>4, <1>5, <1>13, <1>14 DEF Fills, graph, stacks
<1>16. Calling(E, 0, u)'
  BY <1>15 DEF Calling
<1>17. todo' \in Seq(Calls) /\ statements' \in 0 .. MaxStatements
  <2>1. statements < MaxStatements
    BY <1>1 DEF MayVisit
  <2>2. statements' \in 0 .. MaxStatements
    BY <1>1, <1>3, <2>1
  <2>3. todo' \in Seq(Calls)
    BY <1>13, <1>14
  <2>4. QED
    BY <2>2, <2>3
<1>18. QED
  BY <1>1, <1>4, <1>16, <1>17, OnlyTodo

LEMMA KeepsLazy ==
  ASSUME IndInv, lazy_conditional
  PROVE  IndInv'
<1>1. /\ todo # <<>> /\ Head(todo).name \in {"stmts", "expr"}
      /\ lazies < MaxLazy /\ AddBlocks(3)
  BY DEF lazy_conditional, Is
<1>2. PICK E, u : Node(E, u)
  BY <1>1, AtNodeFacts
<1>3. block \in open /\ E \subseteq Blocks
  BY <1>2 DEF Node, Fills, Right
<1>4. Grown(3)
  BY <1>1, GrownByBlocks
<1>5. PICK n, x, s, L, W, a, b, c, E2 :
        /\ n = created + 3 /\ x = block /\ s = insert_blocks /\ L = layout'
        /\ W = open \ {block} /\ a = created + 1 /\ b = created + 2
        /\ c = created + 3 /\ E2 = E \cup {created + 3}
  OBVIOUS
<1>6. /\ created \in Nat
      /\ n \in Nat /\ x \in Nat /\ x # 0 /\ s \in Seq(Nat)
      /\ a \in 1 .. n /\ a \notin W /\ Ahead(L, a, s) /\ a \notin E2
      /\ b \in 1 .. n /\ b \notin W /\ Ahead(L, b, s) /\ b \notin E2
      /\ c \in 1 .. n /\ c \notin W /\ Ahead(L, c, s) /\ c \in E2
      /\ a # b /\ a # c /\ b # c
      /\ Before(L, x, a) /\ Before(L, a, b) /\ Before(L, b, c)
  <2>1. /\ NewBlocks(3, layout', open \ {block}, insert_blocks)
        /\ created \in Nat /\ created + 3 \in Nat
        /\ block \in Nat /\ block # 0 /\ insert_blocks \in Seq(Nat)
    BY <1>3, <1>4, NewBlocksRight
  <2>2. /\ 1 \in 1 .. 3 /\ 2 \in 1 .. 3 /\ 3 \in 1 .. 3
        /\ 1 < 2 /\ 1 < 3 /\ 2 < 3
    OBVIOUS
  <2>3. /\ a # b /\ a # c /\ b # c /\ a \notin E /\ b \notin E
        /\ Before(L, x, a) /\ Before(L, a, b) /\ Before(L, b, c)
    <3>1. a # b /\ a # c /\ b # c
      BY <1>5, <2>1
    <3>2. a \notin E /\ b \notin E
      BY <1>3, <1>5, <2>1 DEF Blocks
    <3>3. Before(L, x, a) /\ Before(L, a, b) /\ Before(L, b, c)
      BY <1>5, <2>1, <2>2 DEF NewBlocks
    <3>4. QED
      BY <3>1, <3>2, <3>3
  <2>4. /\ a \in 1 .. n /\ a \notin W /\ Ahead(L, a, s)
        /\ b \in 1 .. n /\ b \notin W /\ Ahead(L, b, s)
        /\ c \in 1 .. n /\ c \notin W /\ Ahead(L, c, s)
    BY <1>5, <2>1, <2>2 DEF NewBlocks
  <2>5. a \notin E2 /\ b \notin E2 /\ c \in E2
    BY <1>5, <2>3
  <2>6. QED
    BY <1>5, <2>1, <2>3, <2>4, <2>5
<1>7. PICK yes \in {Expression, <<>>}, no \in {Expression, <<>>} :
        todo' = VisitBefore(Expression, a) \o CBranch(a, b) \o Position(a)
                \o VisitBefore(yes, b) \o Branch(c) \o AddIncoming(c)
                \o Position(b) \o VisitBefore(no, c) \o Branch(c)
                \o AddIncoming(c) \o Position(c) \o todo
  <2>1. a = Fresh(1) /\ b = Fresh(2) /\ c = Fresh(3)
    BY <1>5 DEF Fresh
  <2>2. QED
    BY <2>1 DEF lazy_conditional
<1>8. PICK calls : calls =
        VisitBefore(Expression, a) \o CBranch(a, b) \o Position(a)
        \o VisitBefore(yes, b) \o Branch(c) \o AddIncoming(c)
        \o Position(b) \o VisitBefore(no, c) \o Branch(c)
        \o AddIncoming(c) \o Position(c)
  OBVIOUS
<1>9. /\ calls \in Seq(Calls)
      /\ Path(calls, Filling(x, W \cup {a, b, c}, s, u), Filling(c, W, s, u),
              E2, L, n)
  BY <1>6, <1>8, PathLazy
<1>10. created + 1 .. created + 3 = {a, b, c}
  BY <1>5, <1>6
<1>11. Path(calls, Filling(block, (open \ {block}) \cup (created + 1 .. created + 3),
                           insert_blocks, u),
            Filling(c, open \ {block}, insert_blocks, u), E2, layout', created + 3)
  BY <1>5, <1>9, <1>10
<1>12. todo' = calls \o todo
  BY <1>7, <1>8
<1>13. VisitsOnly /\ UNCHANGED <<nest, loops>>
  <2>1. /\ functions \in 0 .. MaxFunctions /\ statements \in 0 .. MaxStatements
        /\ lazies \in 0 .. MaxLazy /\ MaxLazy \in Nat
    BY BoundsAssumption DEF IndInv, Types, TypeOK
  <2>2. lazies + 1 \in 0 .. MaxLazy
    BY <1>1, <2>1
  <2>3. QED
    BY <2>1, <2>2 DEF lazy_conditional, VisitsOnly, stacks
<1>14. \A z \in 0 .. created : z \in E <=> z \in E2
  BY <1>5, <1>6
<1>15. E2 \subseteq 1 .. created + 3
  BY <1>3, <1>5, <1>6 DEF Blocks
<1>16. QED
  BY <1>1, <1>2, <1>4, <1>9, <1>11, <1>12, <1>13, <1>14, <1>15, VisitInLoop

----------------------------------------------------------------------------
(* Every action keeps the invariant: calls                                 *)

(* The first of the calls still to be made, in the present state.          *)
FirstHere(E, owing, u) ==
  \/ /\ owing = 0 /\ block \in open
     /\ \E x \in {0, block} :
          FirstFills(Head(todo), Tail(todo), x, open \ {block}, insert_blocks,
                     u, E, layout, created)
  \/ /\ block \notin open
     /\ FirstEnds(Head(todo), Tail(todo), open, insert_blocks, owing, u,
                  E, layout, created)

LEMMA FirstCall ==
  ASSUME IndInv, todo # <<>>
  PROVE  \E E, owing, u : Right(E, owing, u) /\ FirstHere(E, owing, u)
<1>1. PICK E, owing, u : Right(E, owing, u) /\ Calling(E, owing, u)
  BY DEF IndInv, Going
<1>2. todo \in Seq(Calls) /\ created \in Nat
  BY DEF IndInv, Types, TypeOK
<1>3. CASE owing = 0 /\ \E x \in {0, block} : Fills(x, E, u)
  <2>1. PICK x \in {0, block} : Fills(x, E, u)
    BY <1>3
  <2>2. FirstFills(Head(todo), Tail(todo), x, open \ {block}, insert_blocks, u,
                   E, layout, created)
    BY <1>2, <2>1, FirstFilling DEF Fills
  <2>3. block \in open
    BY <2>1 DEF Fills
  <2>4. QED
    BY <1>1, <1>3, <2>2, <2>3 DEF FirstHere
<1>4. CASE Ends(E, owing, u)
  <2>1. FirstEnds(Head(todo), Tail(todo), open, insert_blocks, owing, u,
                  E, layout, created)
    BY <1>2, <1>4, FirstEnded DEF Ends
  <2>2. QED
    BY <1>1, <1>4, <2>1 DEF FirstHere, Ends
<1>5. QED
  BY <1>1, <1>3, <1>4 DEF Calling, Idle

LEMMA NothingToDo ==
  ASSUME IndInv, todo = <<>>
  PROVE  \E E : Right(E, 0, {}) /\ Idle
<1>1. PICK E, owing, u : Right(E, owing, u) /\ Calling(E, owing, u)
  BY DEF IndInv, Going
<1>2. todo \in Seq(Calls) /\ created \in Nat
  BY DEF IndInv, Types, TypeOK
<1>3. ASSUME NEW x PROVE ~ Fills(x, E, u)
  BY <1>2, FirstFilling DEF Fills
<1>4. ~ Ends(E, owing, u)
  BY <1>2, FirstEnded DEF Ends
<1>5. QED
  BY <1>1, <1>3, <1>4 DEF Calling

(* The open block is ended with targets; owing is the target among the     *)
(* ends in E that still owes a phi its block.                              *)
EndsOpenBlock(E, u, targets, owing) ==
  /\ targets \subseteq Blocks
  /\ \A b \in E : b \in targets <=> b = owing
  /\ Path(Tail(todo), Ended(open \ {block}, insert_blocks, owing, u), Done,
          E, layout, created)
  /\ Terminate(targets, Tail(todo))

(* A step that ends the open block keeps the invariant.                    *)
LEMMA TerminateKeepsInv ==
  ASSUME IndInv, NEW E, NEW u, Right(E, 0, u), block \in open,
         NEW targets, NEW owing, EndsOpenBlock(E, u, targets, owing),
         todo # <<>>,
         UNCHANGED <<counts, created, entry, layout, phis, block, stacks, nest>>
  PROVE  IndInv'
<1>0. /\ targets \subseteq Blocks
      /\ \A b \in E : b \in targets <=> b = owing
      /\ Path(Tail(todo), Ended(open \ {block}, insert_blocks, owing, u), Done,
              E, layout, created)
      /\ Terminate(targets, Tail(todo))
  BY DEF EndsOpenBlock
<1>1. /\ open' = open \ {block} /\ todo' = Tail(todo) /\ failed' = failed
      /\ successors' = [successors EXCEPT ![block] = targets]
  BY <1>0 DEF Terminate
<1>2. /\ functions' = functions /\ lazies' = lazies /\ statements' = statements
      /\ created' = created /\ entry' = entry /\ layout' = layout
      /\ phis' = phis
      /\ block' = block /\ insert_blocks' = insert_blocks /\ loops' = loops
      /\ for_loop_incrementor' = for_loop_incrementor /\ nest' = nest
  BY DEF counts, stacks
<1>3. Types /\ TypeOK /\ Blocks' = Blocks /\ Placed /\ OpenUnended
  BY <1>2 DEF IndInv, Types, Blocks
<1>4. Types'
  <2>1. open' \subseteq Blocks /\ successors' \in [Blocks -> SUBSET Blocks]
    BY <1>0, <1>1, <1>3 DEF TypeOK
  <2>2. TypeOK'
    BY <1>1, <1>2, <1>3, <2>1 DEF TypeOK
  <2>3. todo' \in Seq(Calls)
    BY <1>1, <1>3 DEF Types
  <2>4. QED
    BY <1>1, <1>2, <1>3, <2>2, <2>3 DEF Types
<1>5. Placed'
  BY <1>1, <1>2, <1>3 DEF Placed
<1>6. OpenUnended'
  BY <1>1, <1>3 DEF OpenUnended, TypeOK
<1>7. PhisRight(E, owing)'
  <2>1. /\ \A c \in Blocks : successors'[c] =
             IF c = block THEN targets ELSE successors[c]
        /\ successors[block] = {} /\ block \in Blocks /\ 0 \notin E
        /\ E \subseteq Blocks
    <3>1. /\ successors \in [Blocks -> SUBSET Blocks] /\ open \subseteq Blocks
          /\ E \subseteq Blocks /\ 0 \notin Blocks
      BY <1>3 DEF TypeOK, Right, Blocks
    <3>2. successors[block] = {}
      BY <1>3 DEF OpenUnended
    <3>3. QED
      BY <1>1, <3>1, <3>2
  <2>2. PhisRight(E, 0)
    BY DEF Right
  <2>3. ASSUME NEW b \in E, NEW c \in Blocks
        PROVE  b \in successors'[c]
                 <=> <<b, c>> \in phis \/ (b = owing /\ c = block)
    <3>1. b \in successors[c] <=> <<b, c>> \in phis
      BY <2>1, <2>2 DEF PhisRight
    <3>2. QED
      BY <1>0, <2>1, <3>1
  <2>4. QED
    BY <1>2, <1>3, <2>2, <2>3 DEF PhisRight
<1>8. Right(E, owing, u)'
  BY <1>2, <1>3, <1>7 DEF Right, NoPhiIsTarget, DueRight
<1>9. Ends(E, owing, u)'
  BY <1>0, <1>1, <1>2 DEF Ends
<1>10. QED
  BY <1>4, <1>5, <1>6, <1>8, <1>9 DEF IndInv, Going, Calling

LEMMA KeepsTerminator ==
  ASSUME IndInv, TerminatorCall
  PROVE  IndInv'
<1>1. /\ todo # <<>>
      /\ Head(todo).name \in {"branch", "cbranch", "ret", "branchIfOpen"}
      /\ UNCHANGED <<counts, created, entry, layout, phis, block, stacks, nest>>
  BY DEF TerminatorCall, Is
<1>2. PICK E, owing, u : Right(E, owing, u) /\ FirstHere(E, owing, u)
  BY <1>1, FirstCall
<1>3. /\ owing = 0 /\ block \in open
      /\ \E x \in {0, block} :
           FirstFills(Head(todo), Tail(todo), x, open \ {block}, insert_blocks,
                      u, E, layout, created)
  <2>1. ~ FirstEnds(Head(todo), Tail(todo), open, insert_blocks, owing, u,
                    E, layout, created)
    BY <1>1 DEF FirstEnds
  <2>2. QED
    BY <1>2, <2>1 DEF FirstHere
<1>4. PICK x : FirstFills(Head(todo), Tail(todo), x, open \ {block},
                          insert_blocks, u, E, layout, created)
  BY <1>3
<1>5. E \subseteq Blocks /\ 0 \notin E
  BY <1>2 DEF Right, Blocks
<1>6. PICK i : i = Head(todo)
  OBVIOUS
<1>7. CASE i.name = "branch"
  <2>1. PICK o : o = IF i.a \in E THEN i.a ELSE 0
    OBVIOUS
  <2>2. /\ i.a \in Blocks
        /\ Path(Tail(todo), Ended(open \ {block}, insert_blocks, o, u), Done,
                E, layout, created)
    BY <1>4, <1>6, <1>7, <2>1 DEF FirstFills, Blocks
  <2>3. \A b \in E : b \in {i.a} <=> b = o
    BY <1>5, <2>1
  <2>4. Terminate({i.a}, Tail(todo))
    BY <1>6, <1>7 DEF TerminatorCall, Is
  <2>5. {i.a} \subseteq Blocks
    BY <2>2
  <2>6. QED
    <3>1. Right(E, 0, u) /\ block \in open
      BY <1>2, <1>3
    <3>2. EndsOpenBlock(E, u, {i.a}, o)
      BY <2>2, <2>3, <2>4, <2>5 DEF EndsOpenBlock
    <3>3. QED
      BY <1>1, <3>1, <3>2, TerminateKeepsInv
<1>8. CASE i.name = "cbranch"
  <2>1. /\ i.a \in Blocks /\ i.b \in Blocks /\ i.a \notin E /\ i.b \notin E
        /\ Path(Tail(todo), Ended(open \ {block}, insert_blocks, 0, u), Done,
                E, layout, created)
    BY <1>4, <1>6, <1>8 DEF FirstFills, Blocks
  <2>2. \A b \in E : b \in {i.a, i.b} <=> b = 0
    BY <1>5, <2>1
  <2>3. Terminate({i.a, i.b}, Tail(todo))
    BY <1>6, <1>8 DEF TerminatorCall, Is
  <2>4. {i.a, i.b} \subseteq Blocks
    BY <2>1
  <2>5. QED
    <3>1. Right(E, 0, u) /\ block \in open
      BY <1>2, <1>3
    <3>2. EndsOpenBlock(E, u, {i.a, i.b}, 0)
      BY <2>1, <2>2, <2>3, <2>4 DEF EndsOpenBlock
    <3>3. QED
      BY <1>1, <3>1, <3>2, TerminateKeepsInv
<1>9. CASE i.name = "ret"
  <2>1. Path(Tail(todo), Ended(open \ {block}, insert_blocks, 0, u), Done,
             E, layout, created)
    BY <1>4, <1>6, <1>9 DEF FirstFills
  <2> PICK none : none = {}
    OBVIOUS
  <2>2. \A b \in E : b \in none <=> b = 0
    BY <1>5
  <2>3. Terminate(none, Tail(todo))
    BY <1>6, <1>9 DEF TerminatorCall, Is
  <2>4. none \subseteq Blocks
    OBVIOUS
  <2>5. QED
    <3>1. Right(E, 0, u) /\ block \in open
      BY <1>2, <1>3
    <3>2. EndsOpenBlock(E, u, none, 0)
      BY <2>1, <2>2, <2>3, <2>4 DEF EndsOpenBlock
    <3>3. QED
      BY <1>1, <3>1, <3>2, TerminateKeepsInv
<1>10. CASE i.name = "branchIfOpen"
  <2>1. /\ i.a \in Blocks /\ i.a \notin E
        /\ Path(Tail(todo), Ended(open \ {block}, insert_blocks, 0, u), Done,
                E, layout, created)
    BY <1>4, <1>6, <1>10 DEF FirstFills, Blocks
  <2>2. \A b \in E : b \in {i.a} <=> b = 0
    BY <1>5, <2>1
  <2>3. Terminate({i.a}, Tail(todo))
    BY <1>3, <1>6, <1>10 DEF TerminatorCall, Is
  <2>4. {i.a} \subseteq Blocks
    BY <2>1
  <2>5. QED
    <3>1. Right(E, 0, u) /\ block \in open
      BY <1>2, <1>3
    <3>2. EndsOpenBlock(E, u, {i.a}, 0)
      BY <2>1, <2>2, <2>3, <2>4 DEF EndsOpenBlock
    <3>3. QED
      BY <1>1, <3>1, <3>2, TerminateKeepsInv
<1>11. QED
  BY <1>1, <1>6, <1>7, <1>8, <1>9, <1>10

LEMMA KeepsPosition ==
  ASSUME IndInv, PositionCall
  PROVE  IndInv'
<1>1. /\ todo # <<>> /\ Head(todo).name = "position"
      /\ block' = Head(todo).a /\ todo' = Tail(todo)
      /\ functions' = functions /\ lazies' = lazies /\ statements' = statements
      /\ created' = created /\ entry' = entry /\ layout' = layout
      /\ open' = open /\ successors' = successors /\ phis' = phis
      /\ insert_blocks' = insert_blocks /\ loops' = loops
      /\ for_loop_incrementor' = for_loop_incrementor /\ nest' = nest
      /\ failed' = failed
  BY DEF PositionCall, Is, counts, graph, stacks
<1>2. PICK E, owing, u : Right(E, owing, u) /\ FirstHere(E, owing, u)
  BY <1>1, FirstCall
<1>3. /\ owing = 0 /\ block \notin open
      /\ Head(todo).a \in open /\ Ahead(layout, Head(todo).a, insert_blocks)
      /\ Path(Tail(todo), Filling(Head(todo).a, open \ {Head(todo).a},
                                  insert_blocks, u), Done, E, layout, created)
  BY <1>1, <1>2 DEF FirstHere, FirstFills, FirstEnds
<1>4. Types /\ TypeOK /\ Placed /\ OpenUnended /\ Blocks' = Blocks
  BY <1>1 DEF IndInv, Types, Blocks
<1>5. Types'
  <2>1. block' \in 0 .. created
    <3>1. Head(todo).a \in Blocks
      BY <1>3, <1>4 DEF TypeOK
    <3>2. QED
      BY <1>1, <1>4, <3>1 DEF TypeOK, Blocks
  <2>2. TypeOK'
    BY <1>1, <1>4, <2>1 DEF TypeOK
  <2>3. todo' \in Seq(Calls)
    BY <1>1, <1>4 DEF Types
  <2>4. block' # 0
    BY <1>1, <1>3, <1>4 DEF TypeOK, Blocks
  <2>5. QED
    BY <1>1, <1>4, <2>2, <2>3, <2>4 DEF Types
<1>6. Placed'
  BY <1>1, <1>3, <1>4 DEF Placed
<1>7. OpenUnended'
  BY <1>1, <1>4 DEF OpenUnended
<1>8. Right(E, 0, u)'
  <2>1. 0 \notin E
    BY <1>2 DEF Right, Blocks
  <2>2. QED
    BY <1>1, <1>2, <1>3, <1>4, <2>1 DEF Right, PhisRight, NoPhiIsTarget, DueRight
<1>9. PICK x : x = Head(todo).a
  OBVIOUS
<1>10. Fills(x, E, u)' /\ x = block'
  BY <1>1, <1>3, <1>9 DEF Fills
<1>11. Calling(E, 0, u)'
  BY <1>10 DEF Calling
<1>12. QED
  BY <1>5, <1>6, <1>7, <1>8, <1>11 DEF IndInv, Going

LEMMA KeepsNewBlock ==
  ASSUME IndInv, NewBlockCall
  PROVE  IndInv'
<1>1. /\ todo # <<>> /\ Head(todo).name = "newBlock" /\ AddBlocks(1)
      /\ block' = created + 1 /\ todo' = Tail(todo)
      /\ functions' = functions /\ lazies' = lazies /\ statements' = statements
      /\ insert_blocks' = insert_blocks /\ loops' = loops
      /\ for_loop_incrementor' = for_loop_incrementor /\ nest' = nest
      /\ failed' = failed
  BY DEF NewBlockCall, Is, counts, stacks, Fresh
<1>2. PICK E, owing, u : Right(E, owing, u) /\ FirstHere(E, owing, u)
  BY <1>1, FirstCall
<1>3. /\ owing = 0 /\ block \notin open
      /\ Path(Tail(todo), Filling(0, open, insert_blocks, u), Done,
              E, layout, created)
  BY <1>1, <1>2 DEF FirstHere, FirstFills, FirstEnds
<1>4. Grown(1)
  BY <1>1, GrownByBlocks
<1>5. /\ created' = created + 1 /\ entry' = entry /\ phis' = phis
      /\ layout' \in Seq(1 .. created + 1) /\ Injective(layout')
      /\ \A x, y : Before(layout, x, y) => Before(layout', x, y)
      /\ \A i \in DOMAIN layout : \E j \in DOMAIN layout' : layout'[j] = layout[i]
      /\ Ahead(layout', created + 1, insert_blocks)
      /\ open' = open \cup {created + 1}
      /\ successors' \in [1 .. created + 1 -> SUBSET (1 .. created + 1)]
  <2>1. 1 \in 1 .. 1 /\ created + 1 .. created + 1 = {created + 1}
    BY DEF IndInv, Types, TypeOK
  <2>2. QED
    BY <1>4, <2>1 DEF Grown
<1>6. /\ Types /\ TypeOK /\ Placed /\ created \in Nat
      /\ Blocks = 1 .. created /\ Blocks' = 1 .. created + 1
  BY <1>5 DEF IndInv, Types, TypeOK, Blocks
<1>7. 1 .. created \subseteq 1 .. created + 1 /\ 0 .. created \subseteq 0 .. created + 1
  BY <1>6
<1>8. Types'
  <2>1. entry \in 0 .. created /\ phis \subseteq Blocks \X Blocks /\ open \subseteq Blocks
    BY <1>6 DEF TypeOK
  <2>2. /\ open' \subseteq Blocks' /\ phis' \subseteq Blocks' \X Blocks'
        /\ block' \in 0 .. created' /\ entry' \in 0 .. created'
    BY <1>1, <1>5, <1>6, <1>7, <2>1
  <2>3. insert_blocks' \in Seq(Blocks')
    BY <1>1, <1>6, <1>7, SeqMonotonic DEF TypeOK
  <2>4. for_loop_incrementor' \in Seq(0 .. created')
    <3>1. for_loop_incrementor \in Seq(0 .. created)
      BY <1>6 DEF TypeOK
    <3>2. for_loop_incrementor \in Seq(0 .. created + 1)
      BY <1>7, <3>1, SeqMonotonic
    <3>3. QED
      BY <1>1, <1>5, <3>2
  <2>5. loops' \in Seq(Blocks' \X Blocks')
    <3>1. Blocks \X Blocks \subseteq Blocks' \X Blocks'
      BY <1>6, <1>7
    <3>2. loops \in Seq(Blocks' \X Blocks')
      BY <1>6, <3>1, SeqMonotonic DEF TypeOK
    <3>3. QED
      BY <1>1, <3>2
  <2>6. /\ layout' \in Seq(Blocks') /\ successors' \in [Blocks' -> SUBSET Blocks']
        /\ created' \in Nat
    BY <1>5, <1>6
  <2>7. /\ functions' \in 0 .. MaxFunctions /\ statements' \in 0 .. MaxStatements
        /\ lazies' \in 0 .. MaxLazy /\ failed' \in BOOLEAN
    BY <1>1, <1>6 DEF TypeOK
  <2>8. TypeOK'
    BY <2>2, <2>3, <2>4, <2>5, <2>6, <2>7 DEF TypeOK
  <2>9. todo' \in Seq(Calls)
    BY <1>1, <1>6 DEF Types
  <2>10. QED
    BY <1>1, <1>6, <2>8, <2>9 DEF Types
<1>9. Placed'
  BY <1>1, <1>5, <1>6 DEF Placed, InLayout, Descending
<1>10. OpenUnended'
  BY <1>4, UnendedOfGrown
<1>11. Right(E, 0, u)'
  <2>1. E \subseteq 1 .. created + 1 /\ E \subseteq Blocks
    BY <1>2, <1>6, <1>7 DEF Right
  <2>2. \A b \in 0 .. created : b \in E <=> b \in E
    OBVIOUS
  <2>3. PhisRight(E, 0)
    BY <1>2, <1>3 DEF Right
  <2>4. PhisRight(E, 0)'
    BY <1>4, <2>1, <2>2, <2>3, PhisOfGrown
  <2>5. QED
    BY <1>1, <1>2, <1>6, <2>1, <2>4 DEF Right, NoPhiIsTarget, DueRight
<1>12. Path(Tail(todo), Filling(0, open, insert_blocks, u), Done,
            E, layout', created + 1)
  <2>1. created + 1 \in Nat /\ created <= created + 1
    BY <1>6
  <2>2. Tail(todo) \in Seq(Calls)
    BY <1>1, <1>6 DEF Types
  <2>3. \A b \in 0 .. created : b \in E <=> b \in E
    OBVIOUS
  <2>4. QED
    BY <1>3, <1>5, <1>6, <2>1, <2>2, <2>3, PathGrows
<1>13. open' \ {block'} = open /\ block' \in open'
  <2>1. created + 1 \notin open
    BY <1>6 DEF TypeOK
  <2>2. QED
    BY <1>1, <1>5, <2>1
<1>14. Fills(0, E, u)'
  BY <1>1, <1>5, <1>12, <1>13 DEF Fills
<1>15. Calling(E, 0, u)'
  BY <1>14 DEF Calling
<1>16. QED
  BY <1>8, <1>9, <1>10, <1>11, <1>15 DEF IndInv, Going

LEMMA KeepsAddIncoming ==
  ASSUME IndInv, AddIncomingCall
  PROVE  IndInv'
<1>1. /\ todo # <<>> /\ Head(todo).name = "add_incoming"
      /\ phis' = phis \cup {<<Head(todo).a, block>>} /\ todo' = Tail(todo)
      /\ functions' = functions /\ lazies' = lazies /\ statements' = statements
      /\ created' = created /\ entry' = entry /\ layout' = layout
      /\ open' = open /\ successors' = successors /\ block' = block
      /\ insert_blocks' = insert_blocks /\ loops' = loops
      /\ for_loop_incrementor' = for_loop_incrementor /\ nest' = nest
      /\ failed' = failed
  BY DEF AddIncomingCall, Is, counts, stacks
<1>2. PICK E, owing, u : Right(E, owing, u) /\ FirstHere(E, owing, u)
  BY <1>1, FirstCall
<1>3. /\ owing = Head(todo).a /\ owing \in 1 .. created /\ block \notin open
      /\ Path(Tail(todo), Ended(open, insert_blocks, 0, u), Done,
              E, layout, created)
  BY <1>1, <1>2 DEF FirstHere, FirstFills, FirstEnds
<1>4. Types /\ TypeOK /\ Placed /\ OpenUnended /\ Blocks' = Blocks /\ block # 0
  BY <1>1 DEF IndInv, Types, Blocks
<1>5. block \in Blocks /\ owing \in Blocks /\ owing \in E
  BY <1>1, <1>2, <1>3, <1>4 DEF TypeOK, Blocks, FirstHere, FirstEnds
<1>6. Types'
  <2>1. phis' \subseteq Blocks \X Blocks
    BY <1>1, <1>3, <1>4, <1>5 DEF TypeOK
  <2>2. TypeOK'
    BY <1>1, <1>4, <2>1 DEF TypeOK
  <2>3. todo' \in Seq(Calls)
    BY <1>1, <1>4 DEF Types
  <2>4. QED
    BY <1>1, <1>4, <2>2, <2>3 DEF Types
<1>7. Placed' /\ OpenUnended'
  BY <1>1, <1>4 DEF Placed, OpenUnended
<1>8. PhisRight(E, 0)'
  <2>1. PhisRight(E, owing) /\ 0 \notin E
    BY <1>2 DEF Right, Blocks
  <2>2. \A b, c : <<b, c>> \in phis'
                   <=> <<b, c>> \in phis \/ (b = owing /\ c = block)
    BY <1>1, <1>3
  <2>3. \A pair \in phis' : pair[1] \in E
    BY <1>1, <1>3, <1>5, <2>1 DEF PhisRight
  <2>4. \A b \in E, c \in Blocks : b \in successors[c] <=> <<b, c>> \in phis'
    BY <2>1, <2>2 DEF PhisRight
  <2>5. QED
    BY <1>1, <1>4, <2>1, <2>3, <2>4 DEF PhisRight
<1>9. Right(E, 0, u)'
  BY <1>1, <1>2, <1>4, <1>8 DEF Right, NoPhiIsTarget, DueRight
<1>10. Ends(E, 0, u)'
  BY <1>1, <1>3 DEF Ends
<1>11. QED
  BY <1>6, <1>7, <1>9, <1>10 DEF IndInv, Going, Calling


LEMMA BeforeTransitive ==
  ASSUME NEW S, NEW L \in Seq(S), Injective(L), NEW x, NEW y, NEW z,
         Before(L, x, y), Before(L, y, z)
  PROVE  Before(L, x, z)
<1>1. PICK i, j \in DOMAIN L : i < j /\ L[i] = x /\ L[j] = y
  BY DEF Before
<1>2. PICK k, l \in DOMAIN L : k < l /\ L[k] = y /\ L[l] = z
  BY DEF Before
<1>3. j = k
  BY <1>1, <1>2 DEF Injective
<1>4. i < l
  <2>1. DOMAIN L \subseteq Nat
    OBVIOUS
  <2>2. QED
    BY <1>1, <1>2, <1>3, <2>1
<1>5. QED
  BY <1>1, <1>2, <1>4 DEF Before

(* A block before the newest insert block is before all of them, and can   *)
(* be a newer one.                                                         *)
LEMMA InsertPushed ==
  ASSUME NEW S, NEW L \in Seq(S), Injective(L), NEW T, NEW s \in Seq(T),
         InLayout(L, s), Descending(L, s), NEW b \in T, Ahead(L, b, s)
  PROVE  /\ Append(s, b) \in Seq(T)
         /\ Append(s, b) # <<>> /\ Append(s, b)[Len(Append(s, b))] = b
         /\ InLayout(L, Append(s, b)) /\ Descending(L, Append(s, b))
<1> DEFINE r == Append(s, b)
<1>1. /\ r \in Seq(T) /\ Len(r) = Len(s) + 1 /\ Len(s) \in Nat
      /\ DOMAIN r = 1 .. Len(s) + 1 /\ DOMAIN s = 1 .. Len(s)
      /\ r[Len(s) + 1] = b /\ \A k \in 1 .. Len(s) : r[k] = s[k]
      /\ r # <<>>
  OBVIOUS
<1> HIDE DEF r
<1>2. InLayout(L, r)
  BY <1>1 DEF InLayout, Ahead
<1>3. ASSUME NEW k \in 1 .. Len(s) PROVE Before(L, b, s[k])
  <2>1. s # <<>> /\ Len(s) \in DOMAIN s
    BY <1>1
  <2>2. Before(L, b, s[Len(s)])
    BY <2>1 DEF Ahead
  <2>3. CASE k = Len(s)
    BY <2>2, <2>3
  <2>4. CASE k # Len(s)
    <3>1. k < Len(s) /\ k \in DOMAIN s
      <4>1. k < Len(s)
        BY <2>4
      <4>2. k \in DOMAIN s
        OBVIOUS
      <4>3. QED
        BY <4>1, <4>2
    <3>2. Before(L, s[Len(s)], s[k])
      BY <2>1, <3>1 DEF Descending
    <3>3. QED
      BY <2>2, <3>2, BeforeTransitive
  <2>5. QED
    BY <2>3, <2>4
<1>4. ASSUME NEW k \in DOMAIN r, NEW l \in DOMAIN r, k < l
      PROVE  Before(L, r[l], r[k])
  <2>1. k \in 1 .. Len(s) /\ r[k] = s[k] /\ k \in DOMAIN s
    BY <1>1, <1>4
  <2>2. CASE l = Len(s) + 1
    BY <1>1, <1>3, <2>1, <2>2
  <2>3. CASE l # Len(s) + 1
    <3>1. l \in DOMAIN s /\ r[l] = s[l]
      BY <1>1, <2>3
    <3>2. QED
      BY <1>4, <2>1, <3>1 DEF Descending
  <2>4. QED
    BY <2>2, <2>3
<1>5. Descending(L, r)
  BY <1>4 DEF Descending
<1>6. QED
  BY <1>1, <1>2, <1>5 DEF r

(* Without the newest insert block, what was before it is before the next. *)
LEMMA InsertPopped ==
  ASSUME NEW S, NEW L \in Seq(S), Injective(L), NEW T, NEW s \in Seq(T),
         s # <<>>, InLayout(L, s), Descending(L, s)
  PROVE  /\ Front(s) \in Seq(T)
         /\ InLayout(L, Front(s)) /\ Descending(L, Front(s))
         /\ \A b : Ahead(L, b, s) => Ahead(L, b, Front(s))
<1> DEFINE r == Front(s)
<1>1. /\ r \in Seq(T) /\ Len(r) = Len(s) - 1 /\ Len(s) \in Nat \ {0}
      /\ DOMAIN r = 1 .. Len(s) - 1 /\ DOMAIN s = 1 .. Len(s)
      /\ \A k \in 1 .. Len(s) - 1 : r[k] = s[k]
  <2>1. PICK m : m = Len(s) - 1
    OBVIOUS
  <2>2. /\ Len(s) \in Nat \ {0} /\ m \in Nat /\ Len(s) = m + 1
        /\ DOMAIN s = 1 .. Len(s) /\ \A k \in 1 .. m : s[k] \in T
    BY <2>1
  <2>3. /\ r \in Seq(T)
        /\ Len(r) = IF 1 <= m THEN m - 1 + 1 ELSE 0
        /\ \A k \in 1 .. m - 1 + 1 : r[k] = s[1 + k - 1]
    BY <2>1, <2>2, SubSeqProperties DEF Front
  <2> HIDE DEF r
  <2>4. m - 1 + 1 = m /\ (1 <= m \/ m = 0)
    BY <2>2
  <2>5. Len(r) = m
    BY <2>3, <2>4
  <2>6. ASSUME NEW k \in 1 .. m PROVE r[k] = s[k]
    <3>1. 1 + k - 1 = k
      OBVIOUS
    <3>2. QED
      BY <2>3, <2>4, <3>1
  <2>7. DOMAIN r = 1 .. m
    BY <2>3, <2>5
  <2>8. QED
    BY <2>1, <2>2, <2>3, <2>5, <2>6, <2>7
<1> HIDE DEF r
<1>2. \A k \in DOMAIN r : k \in DOMAIN s /\ r[k] = s[k]
  BY <1>1
<1>3. InLayout(L, r) /\ Descending(L, r)
  BY <1>2 DEF InLayout, Descending
<1>4. ASSUME NEW b, Ahead(L, b, s) PROVE Ahead(L, b, r)
  <2>1. CASE r = <<>>
    BY <1>4, <2>1 DEF Ahead
  <2>2. CASE r # <<>>
    <3>1. /\ Len(r) \in DOMAIN r /\ r[Len(r)] = s[Len(r)]
          /\ Len(r) \in DOMAIN s /\ Len(s) \in DOMAIN s /\ Len(r) < Len(s)
      BY <1>1, <2>2, EmptySeq
    <3>2. Before(L, b, s[Len(s)])
      BY <1>4 DEF Ahead
    <3>3. Before(L, s[Len(s)], s[Len(r)])
      BY <3>1 DEF Descending
    <3>4. Before(L, b, r[Len(r)])
      BY <3>1, <3>2, <3>3, BeforeTransitive
    <3>5. QED
      BY <1>4, <3>4 DEF Ahead
  <2>3. QED
    BY <2>1, <2>2
<1>5. QED
  BY <1>1, <1>3, <1>4 DEF r

LEMMA KeepsInsertBlocks ==
  ASSUME IndInv, InsertBlocksCall
  PROVE  IndInv'
<1>1. /\ todo # <<>> /\ Head(todo).name \in {"pushInsert", "popInsert"}
      /\ todo' = Tail(todo)
      /\ functions' = functions /\ lazies' = lazies /\ statements' = statements
      /\ created' = created /\ entry' = entry /\ layout' = layout
      /\ open' = open /\ successors' = successors /\ phis' = phis
      /\ block' = block /\ loops' = loops
      /\ for_loop_incrementor' = for_loop_incrementor /\ nest' = nest
      /\ failed' = failed
  BY DEF InsertBlocksCall, Is, counts, graph
<1>2. PICK E, owing, u : Right(E, owing, u) /\ FirstHere(E, owing, u)
  BY <1>1, FirstCall
<1>3. /\ owing = 0 /\ block \in open
      /\ \E x \in {0, block} :
           FirstFills(Head(todo), Tail(todo), x, open \ {block}, insert_blocks,
                      u, E, layout, created)
  <2>1. ~ FirstEnds(Head(todo), Tail(todo), open, insert_blocks, owing, u,
                    E, layout, created)
    BY <1>1 DEF FirstEnds
  <2>2. QED
    BY <1>2, <2>1 DEF FirstHere
<1>4. PICK x \in {0, block} :
        FirstFills(Head(todo), Tail(todo), x, open \ {block}, insert_blocks,
                   u, E, layout, created)
  BY <1>3
<1>5. /\ Types /\ TypeOK /\ Placed /\ OpenUnended /\ Blocks' = Blocks
      /\ layout \in Seq(Blocks) /\ insert_blocks \in Seq(Blocks)
      /\ Injective(layout) /\ InLayout(layout, insert_blocks)
      /\ Descending(layout, insert_blocks) /\ Ahead(layout, block, insert_blocks)
  BY <1>1, <1>3 DEF IndInv, Types, TypeOK, Blocks, Placed
<1>6. PICK s : s = insert_blocks'
  OBVIOUS
<1> DEFINE Good(y) ==
      /\ s \in Seq(Blocks) /\ InLayout(layout, s) /\ Descending(layout, s)
      /\ Ahead(layout, block, s)
      /\ Path(Tail(todo), Filling(y, open \ {block}, s, u), Done,
              E, layout, created)
<1>7. \E y \in {0, block} : Good(y)
  <2>1. CASE Head(todo).name = "pushInsert"
    <3>1. PICK b : b = Head(todo).a
      OBVIOUS
    <3>2. /\ Ahead(layout, b, insert_blocks) /\ x # 0 /\ Before(layout, x, b)
          /\ Path(Tail(todo), Filling(x, open \ {block},
                                      Append(insert_blocks, b), u), Done,
                  E, layout, created)
      BY <1>4, <2>1, <3>1 DEF FirstFills
    <3>3. x = block /\ s = Append(insert_blocks, b)
      BY <1>4, <1>6, <2>1, <3>1, <3>2 DEF InsertBlocksCall, Is
    <3>4. b \in Blocks
      BY <1>5, <3>2 DEF Ahead
    <3>5. /\ s \in Seq(Blocks) /\ s # <<>> /\ s[Len(s)] = b
          /\ InLayout(layout, s) /\ Descending(layout, s)
      BY <1>5, <3>2, <3>3, <3>4, InsertPushed
    <3>6. Ahead(layout, block, s)
      BY <3>2, <3>3, <3>5 DEF Ahead, Before
    <3>7. QED
      BY <3>2, <3>3, <3>5, <3>6
  <2>2. CASE Head(todo).name = "popInsert"
    <3>1. /\ insert_blocks # <<>>
          /\ Path(Tail(todo), Filling(0, open \ {block}, Front(insert_blocks), u),
                  Done, E, layout, created)
      BY <1>4, <2>2 DEF FirstFills
    <3>2. s = Front(insert_blocks)
      BY <1>6, <2>2 DEF InsertBlocksCall, Is
    <3>3. /\ s \in Seq(Blocks) /\ InLayout(layout, s) /\ Descending(layout, s)
          /\ Ahead(layout, block, s)
      BY <1>5, <3>1, <3>2, InsertPopped
    <3>4. QED
      BY <3>1, <3>2, <3>3
  <2>3. QED
    BY <1>1, <2>1, <2>2
<1>8. PICK y \in {0, block} : Good(y)
  BY <1>7
<1>9. Types'
  <2>1. TypeOK'
    BY <1>1, <1>5, <1>6, <1>8 DEF TypeOK
  <2>2. todo' \in Seq(Calls)
    BY <1>1, <1>5 DEF Types
  <2>3. QED
    BY <1>1, <1>5, <2>1, <2>2 DEF Types
<1>10. Placed'
  BY <1>1, <1>5, <1>6, <1>8 DEF Placed
<1>11. OpenUnended'
  BY <1>1, <1>5 DEF OpenUnended
<1>12. Right(E, 0, u)'
  BY <1>1, <1>2, <1>3, <1>5 DEF Right, PhisRight, NoPhiIsTarget, DueRight
<1>13. Fills(y, E, u)'
  BY <1>1, <1>3, <1>6, <1>8 DEF Fills
<1>14. Calling(E, 0, u)'
  <2>1. (\E z \in {0, block} : Fills(z, E, u))'
    BY <1>1, <1>8, <1>13
  <2>2. QED
    BY <2>1 DEF Calling
<1>15. QED
  BY <1>9, <1>10, <1>11, <1>12, <1>14 DEF IndInv, Going

LEMMA KeepsPushIncrementor ==
  ASSUME IndInv, PushIncrementorCall
  PROVE  IndInv'
<1>1. /\ todo # <<>> /\ Head(todo).name = "incrementor"
      /\ for_loop_incrementor' = Append(for_loop_incrementor, Head(todo).a)
      /\ todo' = Tail(todo)
      /\ functions' = functions /\ lazies' = lazies /\ statements' = statements
      /\ created' = created /\ entry' = entry /\ layout' = layout
      /\ open' = open /\ successors' = successors /\ phis' = phis
      /\ block' = block /\ insert_blocks' = insert_blocks /\ loops' = loops
      /\ nest' = nest /\ failed' = failed
  BY DEF PushIncrementorCall, Is, counts, graph
<1>2. PICK E, owing, u : Right(E, owing, u) /\ FirstHere(E, owing, u)
  BY <1>1, FirstCall
<1>3. /\ owing = 0 /\ block \in open
      /\ \E x \in {0, block} :
           FirstFills(Head(todo), Tail(todo), x, open \ {block}, insert_blocks,
                      u, E, layout, created)
  <2>1. ~ FirstEnds(Head(todo), Tail(todo), open, insert_blocks, owing, u,
                    E, layout, created)
    BY <1>1 DEF FirstEnds
  <2>2. QED
    BY <1>2, <2>1 DEF FirstHere
<1>4. PICK a : a = Head(todo).a
  OBVIOUS
<1>5. /\ a \in 0 .. created /\ a \notin E /\ u = {a}
      /\ \E x \in {0, block} :
           Path(Tail(todo), Filling(x, open \ {block}, insert_blocks, {}), Done,
                E, layout, created)
  BY <1>1, <1>3, <1>4 DEF FirstFills
<1>6. Types /\ TypeOK /\ Placed /\ OpenUnended /\ Blocks' = Blocks
  BY <1>1 DEF IndInv, Types, Blocks
<1>7. PICK r : r = for_loop_incrementor'
  OBVIOUS
<1>8. Appended(0 .. created, for_loop_incrementor, a, r)
  <2>1. for_loop_incrementor \in Seq(0 .. created)
    BY <1>6 DEF TypeOK
  <2>2. QED
    BY <1>1, <1>4, <1>5, <1>7, <2>1, LastOfAppend
<1>9. /\ r \in Seq(0 .. created) /\ r # <<>> /\ Last(r) = a
      /\ \A k \in DOMAIN r : (k \in DOMAIN for_loop_incrementor
                                /\ r[k] = for_loop_incrementor[k]) \/ r[k] = a
  BY <1>8 DEF Appended
<1>10. Types'
  <2>1. TypeOK'
    BY <1>1, <1>6, <1>7, <1>9 DEF TypeOK
  <2>2. todo' \in Seq(Calls)
    BY <1>1, <1>6 DEF Types
  <2>3. QED
    BY <1>1, <1>6, <1>7, <1>9, <2>1, <2>2 DEF Types
<1>11. Placed' /\ OpenUnended'
  BY <1>1, <1>6 DEF Placed, OpenUnended
<1>12. NoPhiIsTarget(E)'
  BY <1>1, <1>2, <1>5, <1>7, <1>9 DEF Right, NoPhiIsTarget
<1> PICK none : none = {}
  OBVIOUS
<1>13. DueRight(none)'
  <2>1. DueRight({a})
    BY <1>2, <1>5 DEF Right
  <2>2. {a} = {Empty} => a = Empty
    OBVIOUS
  <2>3. {a} # {}
    OBVIOUS
  <2>4. {a} = {Last(nest).continueAt} => a = Last(nest).continueAt
    OBVIOUS
  <2>5. QED
    BY <1>1, <1>7, <1>9, <2>1, <2>2, <2>3, <2>4 DEF DueRight
<1>14. Right(E, 0, none)'
  BY <1>1, <1>2, <1>3, <1>6, <1>12, <1>13 DEF Right, PhisRight
<1>15. PICK x \in {0, block} :
         Path(Tail(todo), Filling(x, open \ {block}, insert_blocks, none), Done,
              E, layout, created)
  BY <1>5
<1>16. Fills(x, E, none)'
  BY <1>1, <1>3, <1>15 DEF Fills
<1>17. Calling(E, 0, none)'
  <2>1. (\E z \in {0, block} : Fills(z, E, none))'
    BY <1>1, <1>15, <1>16
  <2>2. QED
    BY <2>1 DEF Calling
<1>18. QED
  BY <1>10, <1>11, <1>14, <1>17 DEF IndInv, Going

LEMMA KeepsLeaveLoop ==
  ASSUME IndInv, LeaveLoopCall
  PROVE  IndInv'
<1>1. /\ todo # <<>> /\ Head(todo).name = "leave"
      /\ nest' = [k \in 1 .. Len(nest) - 1 |-> [nest[k] EXCEPT !.clean = FALSE]]
      /\ todo' = Tail(todo)
      /\ functions' = functions /\ lazies' = lazies /\ statements' = statements
      /\ created' = created /\ entry' = entry /\ layout' = layout
      /\ open' = open /\ successors' = successors /\ phis' = phis
      /\ block' = block /\ insert_blocks' = insert_blocks /\ loops' = loops
      /\ for_loop_incrementor' = for_loop_incrementor /\ failed' = failed
  BY DEF LeaveLoopCall, Is, counts, graph, stacks
<1>2. PICK E, owing, u : Right(E, owing, u) /\ FirstHere(E, owing, u)
  BY <1>1, FirstCall
<1>3. /\ owing = 0 /\ block \notin open
      /\ Path(Tail(todo), Ended(open, insert_blocks, 0, u), Done,
              E, layout, created)
  BY <1>1, <1>2 DEF FirstHere, FirstFills, FirstEnds
<1>4. Types /\ TypeOK /\ Placed /\ OpenUnended /\ Blocks' = Blocks
  BY <1>1 DEF IndInv, Types, Blocks
<1>5. PICK r : r = nest'
  OBVIOUS
<1>6. /\ r \in Seq(LoopRecords)
      /\ r # <<>> => nest # <<>> /\ Last(r).clean = FALSE
  <2>1. nest \in Seq(LoopRecords)
    BY <1>4 DEF Types
  <2>2. PICK m : m = Len(nest)
    OBVIOUS
  <2>3. /\ m \in Nat /\ \A k \in 1 .. m - 1 : nest[k] \in LoopRecords
        /\ r = [k \in 1 .. m - 1 |-> [nest[k] EXCEPT !.clean = FALSE]]
    BY <1>1, <1>5, <2>1, <2>2
  <2>4. \A l \in LoopRecords :
          /\ [l EXCEPT !.clean = FALSE] \in LoopRecords
          /\ [l EXCEPT !.clean = FALSE].clean = FALSE
    BY DEF LoopRecords
  <2>5. \A k \in 1 .. m - 1 : r[k] \in LoopRecords /\ r[k].clean = FALSE
    BY <2>3, <2>4
  <2>6. CASE m = 0
    <3>1. 1 .. m - 1 = {}
      BY <2>6
    <3>2. r = <<>>
      BY <2>3, <3>1
    <3>3. QED
      BY <3>2
  <2>7. CASE m # 0
    <3>1. m - 1 \in Nat
      BY <2>3, <2>7
    <3>2. DOMAIN r = 1 .. m - 1
      BY <2>3
    <3>3. r \in Seq(LoopRecords)
      <4>1. r \in [1 .. m - 1 -> LoopRecords]
        BY <2>3, <2>5
      <4>2. QED
        BY <3>1, <4>1
    <3>4. Len(r) = m - 1
      BY <3>1, <3>2, <3>3
    <3>5. nest # <<>>
      BY <2>2, <2>7
    <3>6. r # <<>> => Len(r) \in 1 .. m - 1
      BY <3>1, <3>3, <3>4, EmptySeq
    <3>7. r # <<>> => Last(r).clean = FALSE
      BY <2>5, <3>6 DEF Last
    <3>8. QED
      BY <3>3, <3>5, <3>7
  <2>8. QED
    BY <2>6, <2>7
<1>7. Types'
  <2>1. TypeOK'
    BY <1>1, <1>4 DEF TypeOK
  <2>2. todo' \in Seq(Calls)
    BY <1>1, <1>4 DEF Types
  <2>3. QED
    BY <1>1, <1>4, <1>5, <1>6, <2>1, <2>2 DEF Types
<1>8. Placed' /\ OpenUnended'
  BY <1>1, <1>4 DEF Placed, OpenUnended
<1>9. DueRight(u)'
  BY <1>5, <1>6 DEF DueRight
<1>10. Right(E, 0, u)'
  BY <1>1, <1>2, <1>3, <1>4, <1>9 DEF Right, PhisRight, NoPhiIsTarget
<1>11. Ends(E, 0, u)'
  BY <1>1, <1>3 DEF Ends
<1>12. QED
  BY <1>7, <1>8, <1>10, <1>11 DEF IndInv, Going, Calling

----------------------------------------------------------------------------
(* Every action keeps the invariant: functions                             *)

LEMMA KeepsFunDef ==
  ASSUME IndInv, visitFunDef
  PROVE  IndInv'
<1>1. /\ todo = <<>> /\ functions < MaxFunctions
      /\ functions' = functions + 1
      /\ created' = created + 1 /\ entry' = created + 1
      /\ layout' = <<created + 1>> /\ open' = {created + 1}
      /\ successors' = Append(successors, {})
      /\ phis' = {} /\ block' = created + 1
      /\ todo' = Statements \o FinishFunction
      /\ statements' = statements /\ lazies' = lazies
      /\ insert_blocks' = insert_blocks /\ loops' = loops
      /\ for_loop_incrementor' = for_loop_incrementor /\ nest' = nest
      /\ failed' = failed
  BY DEF visitFunDef, Fresh, stacks
<1>2. PICK E : Right(E, 0, {}) /\ Idle
  BY <1>1, NothingToDo
<1>3. Types /\ TypeOK /\ created \in Nat /\ insert_blocks = <<>>
  BY <1>2 DEF IndInv, Types, TypeOK, Idle
<1>4. PICK n : n = created + 1
  OBVIOUS
<1>5. /\ n \in Nat /\ n # 0 /\ n \in 1 .. n
      /\ Blocks = 1 .. created /\ Blocks' = 1 .. n
      /\ 1 .. created \subseteq 1 .. n /\ 0 .. created \subseteq 0 .. n
  BY <1>1, <1>3, <1>4 DEF Blocks
<1>6. TypeOK'
  <2>1. functions' \in 0 .. MaxFunctions
    <3>1. functions \in 0 .. MaxFunctions /\ MaxFunctions \in Nat
      BY <1>3, BoundsAssumption DEF TypeOK
    <3>2. QED
      BY <1>1, <3>1
  <2>2. /\ layout' \in Seq(1 .. n) /\ open' \subseteq 1 .. n
        /\ phis' \subseteq (1 .. n) \X (1 .. n)
        /\ block' \in 0 .. n /\ entry' \in 0 .. n
    BY <1>1, <1>4, <1>5
  <2>3. successors' \in [1 .. n -> SUBSET (1 .. n)]
    <3>1. successors \in [1 .. created -> SUBSET (1 .. created)]
      BY <1>3, <1>5 DEF TypeOK
    <3>2. successors \in Seq(SUBSET (1 .. n)) /\ Len(successors) = created
      <4>1. successors \in [1 .. created -> SUBSET (1 .. n)]
        BY <1>5, <3>1
      <4>2. QED
        BY <1>3, <4>1
    <3>3. PICK none : none = {}
      OBVIOUS
    <3>4. none \in SUBSET (1 .. n)
      BY <3>3
    <3>5. /\ Append(successors, none) \in Seq(SUBSET (1 .. n))
          /\ Len(Append(successors, none)) = created + 1
      BY <3>2, <3>4
    <3>6. PICK t : t = Append(successors, none)
      OBVIOUS
    <3>7. t \in [1 .. Len(t) -> SUBSET (1 .. n)] /\ Len(t) = n
      <4>1. t \in Seq(SUBSET (1 .. n)) /\ Len(t) = n
        BY <1>4, <3>5, <3>6
      <4>2. QED
        BY <4>1
    <3>8. t = successors'
      BY <1>1, <3>3, <3>6
    <3>9. QED
      BY <3>7, <3>8
  <2>4. for_loop_incrementor \in Seq(0 .. n)
    <3>1. for_loop_incrementor \in Seq(0 .. created)
      BY <1>3 DEF TypeOK
    <3>2. QED
      BY <1>5, <3>1, SeqMonotonic
  <2>5. loops \in Seq((1 .. n) \X (1 .. n))
    <3>1. (1 .. created) \X (1 .. created) \subseteq (1 .. n) \X (1 .. n)
      BY <1>5
    <3>2. loops \in Seq((1 .. created) \X (1 .. created))
      BY <1>3, <1>5 DEF TypeOK
    <3>3. QED
      BY <3>1, <3>2, SeqMonotonic
  <2>6. insert_blocks' \in Seq(1 .. n)
    BY <1>1, <1>3
  <2>7. created' = n /\ for_loop_incrementor' \in Seq(0 .. n)
    BY <1>1, <1>4, <2>4
  <2>8. loops' \in Seq((1 .. n) \X (1 .. n))
    BY <1>1, <2>5
  <2>9. statements' \in 0 .. MaxStatements /\ lazies' \in 0 .. MaxLazy
        /\ failed' \in BOOLEAN
    BY <1>1, <1>3 DEF TypeOK
  <2>10. QED
    BY <1>5, <2>1, <2>2, <2>3, <2>6, <2>7, <2>8, <2>9 DEF TypeOK
<1>7. Path(todo', Filling(0, {}, <<>>, {}), Done, {}, <<n>>, n)
      /\ todo' \in Seq(Calls)
  <2>1. PICK none, empty, l : none = {} /\ empty = <<>> /\ l = <<n>>
    OBVIOUS
  <2>2. /\ Statements \in Seq(Calls)
        /\ Path(Statements, Filling(0, none, empty, none),
                Filling(0, none, empty, none), none, l, n)
    BY <1>5, <2>1, PathStatements
  <2>3. /\ Call("finish", 0, 0) \in Calls
        /\ Allowed(Call("finish", 0, 0), Filling(0, none, empty, none), none, l, n)
    BY <1>5, <2>1 DEF Allowed, Calls, Names, Call, Filling
  <2>4. Done = After(Call("finish", 0, 0), Filling(0, none, empty, none), none)
    BY DEF After, Call
  <2>5. /\ FinishFunction \in Seq(Calls)
        /\ Path(FinishFunction, Filling(0, none, empty, none), Done, none, l, n)
    BY <2>3, <2>4, CallOne DEF FinishFunction
  <2>6. /\ Statements \o FinishFunction \in Seq(Calls)
        /\ Path(Statements \o FinishFunction, Filling(0, none, empty, none), Done,
                none, l, n)
    BY <2>2, <2>5, PathConcat
  <2>7. QED
    BY <1>1, <2>1, <2>6
<1>8. Types'
  BY <1>1, <1>3, <1>4, <1>5, <1>6, <1>7 DEF Types
<1>9. Placed'
  <2>1. layout' = <<n>> /\ insert_blocks' = <<>> /\ block' = n
    BY <1>1, <1>3, <1>4
  <2>2. DOMAIN layout' = {1} /\ layout'[1] = n /\ DOMAIN insert_blocks' = {}
    BY <2>1
  <2>3. QED
    BY <2>1, <2>2 DEF Placed, Injective, InLayout, Descending, Ahead
<1>10. OpenUnended'
  <2>1. successors'[n] = {}
    <3>1. successors \in [1 .. created -> SUBSET (1 .. created)]
      BY <1>3, <1>5 DEF TypeOK
    <3>2. successors \in Seq(SUBSET (1 .. created)) /\ Len(successors) = created
      BY <1>3, <3>1
    <3>3. PICK none : none = {}
      OBVIOUS
    <3>4. Append(successors, none)[Len(successors) + 1] = none
      BY <3>2, <3>3
    <3>5. QED
      BY <1>1, <1>4, <3>2, <3>3, <3>4
  <2>2. QED
    BY <1>1, <1>4, <2>1 DEF OpenUnended
<1> PICK none : none = {}
  OBVIOUS
<1>11. Right(none, 0, none)'
  <2>1. DueRight({})
    BY <1>2 DEF Right
  <2>2. DueRight(none)'
    BY <1>1, <2>1 DEF DueRight
  <2>3. QED
    BY <1>1, <2>2 DEF Right, PhisRight, NoPhiIsTarget
<1>12. Fills(0, none, none)'
  <2>1. open' \ {block'} = {} /\ block' \in open' /\ insert_blocks' = <<>>
        /\ layout' = <<n>> /\ created' = n
    BY <1>1, <1>3, <1>4
  <2>2. QED
    BY <1>7, <2>1 DEF Fills
<1>13. Calling(none, 0, none)'
  BY <1>12 DEF Calling
<1>14. QED
  BY <1>8, <1>9, <1>10, <1>11, <1>13 DEF IndInv, Going

LEMMA KeepsFinishFunDef ==
  ASSUME IndInv, FinishFunDef
  PROVE  IndInv'
<1>1. /\ todo # <<>> /\ Head(todo).name = "finish"
      /\ open' = open \ {block} /\ todo' = Tail(todo)
      /\ functions' = functions /\ lazies' = lazies /\ statements' = statements
      /\ created' = created /\ entry' = entry /\ layout' = layout
      /\ successors' = successors /\ phis' = phis /\ block' = block
      /\ insert_blocks' = insert_blocks /\ loops' = loops
      /\ for_loop_incrementor' = for_loop_incrementor /\ nest' = nest
      /\ failed' = failed
  BY DEF FinishFunDef, Is, counts, stacks
<1>2. PICK E, owing, u : Right(E, owing, u) /\ FirstHere(E, owing, u)
  BY <1>1, FirstCall
<1>3. /\ owing = 0 /\ open \ {block} = {} /\ insert_blocks = <<>> /\ u = {}
      /\ Tail(todo) = <<>>
  BY <1>1, <1>2 DEF FirstHere, FirstFills, FirstEnds
<1>4. Types /\ TypeOK /\ Placed /\ OpenUnended /\ Blocks' = Blocks
  BY <1>1 DEF IndInv, Types, Blocks
<1>5. Types'
  <2>1. open' \subseteq Blocks
    BY <1>1, <1>3
  <2>2. TypeOK'
    BY <1>1, <1>4, <2>1 DEF TypeOK
  <2>3. todo' = <<>>
    BY <1>1, <1>3
  <2>4. <<>> \in Seq(Calls)
    OBVIOUS
  <2>5. QED
    BY <1>1, <1>4, <2>2, <2>3, <2>4 DEF Types
<1>6. Placed'
  BY <1>1, <1>4 DEF Placed
<1>7. OpenUnended'
  BY <1>1, <1>3 DEF OpenUnended
<1>8. Right(E, 0, u)'
  BY <1>1, <1>2, <1>3, <1>4 DEF Right, PhisRight, NoPhiIsTarget, DueRight
<1>9. Idle'
  BY <1>1, <1>3 DEF Idle
<1>10. Calling(E, 0, u)'
  BY <1>3, <1>9 DEF Calling
<1>11. QED
  BY <1>5, <1>6, <1>7, <1>8, <1>10 DEF IndInv, Going

----------------------------------------------------------------------------
(* The theorems                                                            *)

LEMMA InitHolds == Init => IndInv
<1> SUFFICES ASSUME Init PROVE IndInv
  OBVIOUS
<1>1. /\ functions = 0 /\ statements = 0 /\ lazies = 0
      /\ created = 0 /\ entry = 0 /\ layout = <<>> /\ open = {}
      /\ successors = <<>> /\ phis = {} /\ block = 0
      /\ insert_blocks = <<>> /\ loops = <<>> /\ for_loop_incrementor = <<0>>
      /\ todo = <<>> /\ nest = <<>> /\ failed = FALSE
  BY DEF Init, Empty
<1>2. Blocks = {}
  BY <1>1 DEF Blocks
<1>3. TypeOK
  <2>1. /\ functions \in 0 .. MaxFunctions /\ statements \in 0 .. MaxStatements
        /\ lazies \in 0 .. MaxLazy
    BY <1>1, BoundsAssumption
  <2>2. for_loop_incrementor \in Seq(0 .. created) /\ created \in Nat
    <3>1. 0 \in 0 .. 0
      OBVIOUS
    <3>2. <<0>> \in Seq(0 .. 0)
      BY <3>1
    <3>3. QED
      BY <1>1, <3>2
  <2>3. layout \in Seq(Blocks) /\ insert_blocks \in Seq(Blocks)
    BY <1>1
  <2>4. loops \in Seq(Blocks \X Blocks)
    BY <1>1
  <2>5. successors \in [Blocks -> SUBSET Blocks]
    BY <1>1, <1>2
  <2>6. entry \in 0 .. created /\ block \in 0 .. created
    BY <1>1
  <2>7. open \subseteq Blocks /\ phis \subseteq Blocks \X Blocks
    BY <1>1
  <2>8. failed \in BOOLEAN
    BY <1>1
  <2>9. QED
    BY <2>1, <2>2, <2>3, <2>4, <2>5, <2>6, <2>7, <2>8 DEF TypeOK
<1>4. Types
  <2>1. todo \in Seq(Calls) /\ nest \in Seq(LoopRecords)
    BY <1>1
  <2>2. for_loop_incrementor # <<>>
    BY <1>1
  <2>3. QED
    BY <1>1, <1>3, <2>1, <2>2 DEF Types
<1>5. Placed
  BY <1>1 DEF Placed, Injective, InLayout, Descending
<1>6. OpenUnended
  BY <1>1 DEF OpenUnended
<1> PICK none : none = {}
  OBVIOUS
<1>7. NoPhiIsTarget(none)
  BY DEF NoPhiIsTarget
<1>8. Right(none, 0, none)
  BY <1>1, <1>7 DEF Right, PhisRight, DueRight
<1>9. Calling(none, 0, none)
  BY <1>1 DEF Calling, Idle
<1>10. QED
  BY <1>4, <1>5, <1>6, <1>8, <1>9 DEF IndInv, Going

LEMMA StutterHolds == IndInv /\ UNCHANGED vars => IndInv'
<1> SUFFICES ASSUME IndInv, UNCHANGED vars PROVE IndInv'
  OBVIOUS
<1>1. /\ functions' = functions /\ lazies' = lazies /\ statements' = statements
      /\ created' = created /\ entry' = entry /\ layout' = layout
      /\ open' = open /\ successors' = successors /\ phis' = phis
      /\ block' = block /\ insert_blocks' = insert_blocks /\ loops' = loops
      /\ for_loop_incrementor' = for_loop_incrementor /\ todo' = todo
      /\ nest' = nest /\ failed' = failed
  BY DEF vars
<1>2. Blocks' = Blocks
  BY <1>1 DEF Blocks
<1>3. Types'
  BY <1>1, <1>2 DEF IndInv, Types, TypeOK
<1>4. Placed' /\ OpenUnended'
  BY <1>1 DEF IndInv, Placed, OpenUnended
<1>5. PICK E, owing, u : Right(E, owing, u) /\ Calling(E, owing, u)
  BY DEF IndInv, Going
<1>6. Right(E, owing, u)'
  BY <1>1, <1>2, <1>5 DEF Right, PhisRight, NoPhiIsTarget, DueRight
<1>7. Calling(E, owing, u)'
  BY <1>1, <1>5 DEF Calling, Fills, Ends, Idle
<1>8. QED
  BY <1>3, <1>4, <1>6, <1>7 DEF IndInv, Going

(* The invariant is inductive.                                             *)
LEMMA Invariant == Spec => []IndInv
<1>1. IndInv /\ [Next]_vars => IndInv'
  <2> SUFFICES ASSUME IndInv, [Next]_vars PROVE IndInv'
    OBVIOUS
  <2>1. CASE visitFunDef
    BY <2>1, KeepsFunDef
  <2>2. CASE FinishFunDef
    BY <2>2, KeepsFinishFunDef
  <2>3. CASE VisitStatement
    BY <2>3, KeepsIf, KeepsIfElse, KeepsDoWhile, KeepsWhile, KeepsWhileFor,
       KeepsBreak, KeepsContinue, KeepsReturn, KeepsTerminatingReturn,
       KeepsExpressionStatement, KeepsEndNode DEF VisitStatement
  <2>4. CASE lazy_conditional
    BY <2>4, KeepsLazy
  <2>5. CASE EndExpression
    BY <2>5, KeepsEndNode
  <2>6. CASE TerminatorCall
    BY <2>6, KeepsTerminator
  <2>7. CASE PositionCall
    BY <2>7, KeepsPosition
  <2>8. CASE NewBlockCall
    BY <2>8, KeepsNewBlock
  <2>9. CASE AddIncomingCall
    BY <2>9, KeepsAddIncoming
  <2>10. CASE InsertBlocksCall
    BY <2>10, KeepsInsertBlocks
  <2>11. CASE PushIncrementorCall
    BY <2>11, KeepsPushIncrementor
  <2>12. CASE LeaveLoopCall
    BY <2>12, KeepsLeaveLoop
  <2>13. CASE Finished \/ UNCHANGED vars
    BY <2>13, StutterHolds DEF Finished
  <2>14. QED
    BY <2>1, <2>2, <2>3, <2>4, <2>5, <2>6, <2>7, <2>8, <2>9, <2>10, <2>11,
       <2>12, <2>13 DEF Next
<1>2. QED
  BY InitHolds, <1>1, PTL DEF Spec

(* No assertion of llvmlite fails, for any nesting of statements and       *)
(* returns: no visit method terminates a block twice, and code goes only   *)
(* to blocks without a terminator (irgen.py).                              *)
THEOREM AssertionsHold == Spec => []NoAssertionFails
<1>1. IndInv => NoAssertionFails
  <2> SUFFICES ASSUME IndInv PROVE NoAssertionFails
    OBVIOUS
  <2>1. TypeOK /\ ~ failed
    BY DEF IndInv, Types
  <2>2. AtNode => block \in open
    <3>1. SUFFICES ASSUME AtNode PROVE block \in open
      OBVIOUS
    <3>2. todo # <<>> /\ Head(todo).name \in {"stmts", "expr"}
      BY <3>1 DEF AtNode, Is
    <3>3. PICK E, u : Node(E, u)
      BY <3>2, AtNodeFacts
    <3>4. QED
      BY <3>3 DEF Node, Fills
  <2>3. QED
    BY <2>1, <2>2 DEF NoAssertionFails
<1>2. QED
  BY Invariant, <1>1, PTL

(* Every finished function is one that LLVM's verifier accepts: each block *)
(* is terminated, and the incoming blocks of each phi are its predecessors,*)
(* however deeply && and || are nested (lazy_conditional).                 *)
THEOREM VerifierAcceptsAll == Spec => []VerifierAccepts
<1>1. IndInv => VerifierAccepts
  <2> SUFFICES ASSUME IndInv, FunctionDone
               PROVE  /\ open = {}
                      /\ \A pair \in phis :
                           {c \in Blocks : <<pair[1], c>> \in phis}
                             = Predecessors(pair[1])
    BY DEF VerifierAccepts
  <2>1. PICK E : Right(E, 0, {}) /\ Idle
    BY NothingToDo DEF FunctionDone
  <2>2. PhisRight(E, 0) /\ 0 \notin E
    BY <2>1 DEF Right, Blocks
  <2>3. ASSUME NEW pair \in phis
        PROVE  {c \in Blocks : <<pair[1], c>> \in phis} = Predecessors(pair[1])
    <3>1. pair[1] \in E
      BY <2>2 DEF PhisRight
    <3>2. \A c \in Blocks : pair[1] \in successors[c] <=> <<pair[1], c>> \in phis
      BY <2>2, <3>1 DEF PhisRight
    <3>3. QED
      BY <3>2 DEF Predecessors
  <2>4. QED
    BY <2>1, <2>3 DEF Idle
<1>2. QED
  BY Invariant, <1>1, PTL

(* What visit_before promises: all code goes before the insert block.      *)
THEOREM CodeGoesBefore == Spec => []CodeBeforeInsertBlocks
<1>1. IndInv => CodeBeforeInsertBlocks
  <2> SUFFICES ASSUME IndInv PROVE CodeBeforeInsertBlocks
    OBVIOUS
  <2>1. /\ Placed /\ layout \in Seq(Blocks) /\ insert_blocks \in Seq(Blocks)
        /\ Injective(layout) /\ created \in Nat
    BY DEF IndInv, Types, TypeOK, Placed
  <2>2. AtNode /\ insert_blocks # <<>> => Place(block) < Place(Last(insert_blocks))
    <3>1. SUFFICES ASSUME AtNode, insert_blocks # <<>>
                   PROVE  Place(block) < Place(Last(insert_blocks))
      OBVIOUS
    <3>2. todo # <<>> /\ Head(todo).name \in {"stmts", "expr"}
      BY <3>1 DEF AtNode, Is
    <3>3. PICK E, u : Node(E, u)
      BY <3>2, AtNodeFacts
    <3>4. block \in open
      BY <3>3 DEF Node, Fills
    <3>5. Before(layout, block, Last(insert_blocks))
      BY <2>1, <3>1, <3>4 DEF Placed, Ahead, Last
    <3>6. QED
      BY <2>1, <3>5, PlaceBefore
  <2>3. ASSUME NEW k \in DOMAIN insert_blocks, NEW l \in DOMAIN insert_blocks, k < l
        PROVE  Place(insert_blocks[l]) < Place(insert_blocks[k])
    <3>1. Before(layout, insert_blocks[l], insert_blocks[k])
      BY <2>1, <2>3 DEF Placed, Descending
    <3>2. QED
      BY <2>1, <3>1, PlaceBefore
  <2>4. FunctionDone => insert_blocks = <<>>
    BY NothingToDo DEF FunctionDone, Idle
  <2>5. QED
    BY <2>2, <2>3, <2>4 DEF CodeBeforeInsertBlocks
<1>2. QED
  BY Invariant, <1>1, PTL

(* Until a loop inside it has been visited, a loop's break and continue go *)
(* where they should (but for the continue of a do-while loop), although   *)
(* the generator never pops loops and for_loop_incrementor.                *)
THEOREM JumpsCorrect == Spec => []JumpsRightBeforeInnerLoop
<1>1. IndInv => JumpsRightBeforeInnerLoop
  <2> SUFFICES ASSUME IndInv, AtJump, Last(nest).clean
               PROVE  /\ BreakTarget = Last(nest).end
                      /\ Last(nest).kind # "dowhile"
                           => ContinueTarget = Last(nest).continueAt
    BY DEF JumpsRightBeforeInnerLoop
  <2>1. /\ Is("stmts") /\ nest # <<>>
        /\ todo # <<>> /\ Head(todo).name \in {"stmts", "expr"}
    BY DEF AtJump, Is
  <2>2. PICK E, u : Node(E, u) /\ u = {}
    BY <2>1, AtNodeFacts
  <2>3. DueRight(u)
    BY <2>2 DEF Node, Right
  <2>4. PICK l, q, inc : l = Last(nest) /\ q = Last(loops)
                         /\ inc = Last(for_loop_incrementor)
    OBVIOUS
  <2>5. l.kind \in {"dowhile", "while", "for"}
    <3>1. nest \in Seq(LoopRecords)
      BY DEF IndInv, Types
    <3>2. Last(nest) \in LoopRecords
      BY <2>1, <3>1, EmptySeq DEF Last
    <3>3. QED
      BY <2>4, <3>2 DEF LoopRecords
  <2>6. \A a : {a} # {}
    OBVIOUS
  <2>7. /\ q = <<l.start, l.end>>
        /\ l.kind = "while" => l.continueAt = l.start /\ inc = Empty
        /\ l.kind = "for" => l.continueAt # Empty /\ inc = l.continueAt
    BY <2>1, <2>2, <2>3, <2>4, <2>6 DEF DueRight
  <2>8. BreakTarget = l.end
    BY <2>4, <2>7 DEF BreakTarget
  <2>9. ContinueTarget = IF inc # Empty THEN inc ELSE l.start
    BY <2>4, <2>7 DEF ContinueTarget
  <2>10. QED
    BY <2>4, <2>5, <2>7, <2>8, <2>9
<1>2. QED
  BY Invariant, <1>1, PTL
============================================================================
