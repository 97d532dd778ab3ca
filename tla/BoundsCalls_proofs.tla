-------------------------- MODULE BoundsCalls_proofs --------------------------
(***************************************************************************)
(* Proofs about the bounds checker's cloning of functions, for modules of  *)
(* any number of functions, parameters and calls.                          *)
(***************************************************************************)
EXTENDS BoundsCalls, WellFoundedInduction, SequenceTheorems, TLAPS

----------------------------------------------------------------------------
(* Sequences                                                               *)

(* A set of numbers that is not empty has a least.                         *)
LEMMA LeastExists ==
  ASSUME NEW S \in SUBSET Nat, S # {}
  PROVE  \E x \in S : \A y \in S : x <= y
<1> DEFINE R == {ss \in Nat \X Nat : ss[1] < ss[2]}
<1>1. IsWellFoundedOn(R, Nat)
  BY NatLessThanWellFounded DEF OpToRel
<1>2. PICK x \in S : \A y \in S : <<y, x>> \notin R
  <2> HIDE DEF R
  <2> QED BY <1>1, WFMin
<1>3. ASSUME NEW y \in S PROVE x <= y
  <2>1. x \in Nat /\ y \in Nat
    OBVIOUS
  <2>2. y < x => <<y, x>> \in R
    BY <2>1
  <2> HIDE DEF R
  <2> QED BY <1>2, <2>1, <2>2
<1> QED BY <1>3

(* A set of numbers up to a bound that is not empty has a greatest.        *)
LEMMA GreatestExists ==
  ASSUME NEW n \in Nat, NEW S \in SUBSET (1 .. n), S # {}
  PROVE  \E x \in S : \A y \in S : x >= y
<1> DEFINE T == {n - y : y \in S}
<1>1. T \in SUBSET Nat /\ T # {}
  <2>1. \A y \in S : n - y \in Nat
    OBVIOUS
  <2> QED BY <2>1
<1>2. PICK x \in T : \A y \in T : x <= y
  <2> HIDE DEF T
  <2> QED BY <1>1, LeastExists
<1>3. PICK z \in S : x = n - z
  OBVIOUS
<1>4. ASSUME NEW y \in S PROVE z >= y
  <2>1. n - z <= n - y
    BY <1>2, <1>3
  <2> QED BY <2>1
<1> QED BY <1>4

(* An element put into a sequence.                                         *)
IsInserted(s, i, e, s2) ==
  /\ Len(s2) = Len(s) + 1
  /\ \A j \in 1 .. Len(s) + 1 :
       s2[j] = IF j < i THEN s[j] ELSE IF j = i THEN e ELSE s[j - 1]

LEMMA InsertAtIs ==
  ASSUME NEW S, NEW s \in Seq(S), NEW i \in 1 .. Len(s) + 1, NEW e \in S
  PROVE  InsertAt(s, i, e) \in Seq(S) /\ IsInserted(s, i, e, InsertAt(s, i, e))
<1>1. /\ SubSeq(s, 1, i - 1) \in Seq(S) /\ Len(SubSeq(s, 1, i - 1)) = i - 1
      /\ \A j \in 1 .. i - 1 : SubSeq(s, 1, i - 1)[j] = s[j]
  OBVIOUS
<1>2. /\ SubSeq(s, i, Len(s)) \in Seq(S) /\ Len(SubSeq(s, i, Len(s))) = Len(s) + 1 - i
      /\ \A j \in 1 .. Len(s) + 1 - i : SubSeq(s, i, Len(s))[j] = s[i + j - 1]
  OBVIOUS
<1>3. PICK a, b : a = SubSeq(s, 1, i - 1) /\ b = SubSeq(s, i, Len(s))
  OBVIOUS
<1>4. /\ a \in Seq(S) /\ Len(a) = i - 1 /\ \A j \in 1 .. i - 1 : a[j] = s[j]
      /\ b \in Seq(S) /\ Len(b) = Len(s) + 1 - i
      /\ \A j \in 1 .. Len(s) + 1 - i : b[j] = s[i + j - 1]
  BY <1>1, <1>2, <1>3
<1>5. InsertAt(s, i, e) = (a \o <<e>>) \o b
  BY <1>3 DEF InsertAt
<1>6. /\ a \o <<e>> \in Seq(S) /\ Len(a \o <<e>>) = i
      /\ \A j \in 1 .. i - 1 : (a \o <<e>>)[j] = s[j]
      /\ (a \o <<e>>)[i] = e
  BY <1>4
<1>7. PICK c : c = a \o <<e>>
  OBVIOUS
<1>8. PICK m \in Nat : m = Len(s)
  OBVIOUS
<1>9. /\ c \o b \in Seq(S) /\ Len(c \o b) = m + 1
      /\ \A j \in 1 .. i : (c \o b)[j] = c[j]
      /\ \A j \in i + 1 .. m + 1 : (c \o b)[j] = b[j - i]
  <2>1. c \in Seq(S) /\ b \in Seq(S) /\ Len(c) = i /\ Len(b) = m + 1 - i
    BY <1>4, <1>6, <1>7, <1>8
  <2>2. /\ c \o b \in Seq(S) /\ Len(c \o b) = Len(c) + Len(b)
        /\ \A j \in 1 .. Len(c) + Len(b) :
             (c \o b)[j] = IF j <= Len(c) THEN c[j] ELSE b[j - Len(c)]
    BY <2>1, ConcatProperties
  <2>3. i \in 1 .. m + 1
    BY <1>8
  <2>4. PICK d : d = c \o b
    OBVIOUS
  <2>5. Len(c) + Len(b) = m + 1
    BY <2>1, <2>3
  <2>6. \A j \in 1 .. m + 1 : d[j] = IF j <= i THEN c[j] ELSE b[j - i]
    BY <2>1, <2>2, <2>4, <2>5
  <2>7. /\ \A j \in 1 .. i : j \in 1 .. m + 1 /\ j <= i
        /\ \A j \in i + 1 .. m + 1 : j \in 1 .. m + 1 /\ ~ (j <= i)
    BY <2>3
  <2> QED BY <2>2, <2>4, <2>5, <2>6, <2>7
<1>10. PICK d : d = c \o b
  OBVIOUS
<1>11. \A j \in i + 1 .. m + 1 : b[j - i] = s[j - 1]
  BY <1>4, <1>8
<1>12. /\ d \in Seq(S) /\ Len(d) = Len(s) + 1
       /\ \A j \in 1 .. Len(s) + 1 :
            d[j] = IF j < i THEN s[j] ELSE IF j = i THEN e ELSE s[j - 1]
  BY <1>6, <1>7, <1>8, <1>9, <1>10, <1>11
<1> QED BY <1>5, <1>7, <1>10, <1>12 DEF IsInserted

(* An element taken out of a sequence.                                     *)
LEMMA RemoveAtIs ==
  ASSUME NEW S, NEW s \in Seq(S), NEW i \in DOMAIN s
  PROVE  /\ RemoveAt(s, i) \in Seq(S)
         /\ Len(RemoveAt(s, i)) = Len(s) - 1
         /\ \A j \in 1 .. Len(s) - 1 : RemoveAt(s, i)[j] = IF j < i THEN s[j] ELSE s[j + 1]
<1>1. PICK a, b : a = SubSeq(s, 1, i - 1) /\ b = SubSeq(s, i + 1, Len(s))
  OBVIOUS
<1>2. /\ a \in Seq(S) /\ Len(a) = i - 1 /\ \A j \in 1 .. i - 1 : a[j] = s[j]
      /\ b \in Seq(S) /\ Len(b) = Len(s) - i
      /\ \A j \in 1 .. Len(s) - i : b[j] = s[i + j]
  <2>1. /\ SubSeq(s, 1, i - 1) \in Seq(S) /\ Len(SubSeq(s, 1, i - 1)) = i - 1
        /\ \A j \in 1 .. i - 1 : SubSeq(s, 1, i - 1)[j] = s[j]
    OBVIOUS
  <2>2. /\ SubSeq(s, i + 1, Len(s)) \in Seq(S) /\ Len(SubSeq(s, i + 1, Len(s))) = Len(s) - i
        /\ \A j \in 1 .. Len(s) - i : SubSeq(s, i + 1, Len(s))[j] = s[i + j]
    OBVIOUS
  <2> QED BY <1>1, <2>1, <2>2
<1>3. RemoveAt(s, i) = a \o b
  BY <1>1 DEF RemoveAt
<1>4. PICK m \in Nat : m = Len(s)
  OBVIOUS
<1>5. m \in Nat \ {0} /\ i \in 1 .. m
  BY <1>4
<1>6. /\ a \o b \in Seq(S) /\ Len(a \o b) = Len(a) + Len(b)
      /\ \A j \in 1 .. Len(a) + Len(b) :
           (a \o b)[j] = IF j <= Len(a) THEN a[j] ELSE b[j - Len(a)]
  BY <1>2, ConcatProperties
<1>7. PICK d : d = a \o b
  OBVIOUS
<1>8. d \in Seq(S) /\ Len(d) = m - 1
  BY <1>2, <1>4, <1>5, <1>6, <1>7
<1>9. ASSUME NEW j \in 1 .. m - 1 PROVE d[j] = IF j < i THEN s[j] ELSE s[j + 1]
  <2>1. j \in 1 .. Len(a) + Len(b)
    BY <1>2, <1>4, <1>5
  <2>2. CASE j < i
    <3>1. j \in 1 .. i - 1 /\ j <= Len(a)
      BY <1>2, <1>5, <2>2
    <3>2. d[j] = a[j]
      BY <1>6, <1>7, <2>1, <3>1
    <3> QED BY <1>2, <2>2, <3>1, <3>2
  <2>3. CASE ~ (j < i)
    <3>1. d[j] = b[j - (i - 1)]
      <4>1. Len(a) = i - 1 /\ ~ (j <= Len(a))
        BY <1>2, <1>5, <2>3
      <4>2. d[j] = b[j - Len(a)]
        BY <1>6, <1>7, <2>1, <4>1
      <4> QED BY <4>1, <4>2
    <3>2. j - (i - 1) \in 1 .. m - i
      BY <1>5, <2>3
    <3>3. b[j - (i - 1)] = s[i + (j - (i - 1))]
      BY <1>2, <1>4, <3>2
    <3> QED BY <1>5, <2>3, <3>1, <3>3
  <2> QED BY <2>2, <2>3
<1> QED BY <1>3, <1>4, <1>7, <1>8, <1>9

(* All but the last element.                                               *)
LEMMA FrontIs ==
  ASSUME NEW S, NEW s \in Seq(S), s # <<>>
  PROVE  /\ Front(s) \in Seq(S)
         /\ Len(s) \in Nat \ {0}
         /\ Len(Front(s)) = Len(s) - 1
         /\ \A j \in 1 .. Len(s) - 1 : Front(s)[j] = s[j]
         /\ Last(s) = s[Len(s)] /\ Last(s) \in S
<1>1. PICK n \in Nat : n = Len(s) /\ n # 0
  OBVIOUS
<1>2. /\ SubSeq(s, 1, n - 1) \in Seq(S) /\ Len(SubSeq(s, 1, n - 1)) = n - 1
      /\ \A j \in 1 .. n - 1 : SubSeq(s, 1, n - 1)[j] = s[j]
  BY <1>1
<1> QED BY <1>1, <1>2 DEF Front, Last

(* The least and the greatest of a set of numbers.                         *)
LEMMA MinIs ==
  ASSUME NEW S \in SUBSET Nat, S # {}
  PROVE  Min(S) \in S /\ \A y \in S : Min(S) <= y
BY LeastExists DEF Min

LEMMA MaxIs ==
  ASSUME NEW n \in Nat, NEW S \in SUBSET (1 .. n), S # {}
  PROVE  Max(S) \in S /\ \A y \in S : Max(S) >= y
BY GreatestExists DEF Max

----------------------------------------------------------------------------
(* Searches                                                                *)

(* The first local array among arguments.                                  *)
LEMMA FirstLocalIs ==
  ASSUME NEW args \in Seq(Argument)
  PROVE  \/ FirstLocal(args) = 0
         \/ FirstLocal(args) \in DOMAIN args /\ args[FirstLocal(args)].kind = "alloca"
<1> DEFINE I == {i \in 1 .. Len(args) : args[i].kind = "alloca"}
<1>1. FirstLocal(args) = IF I # {} THEN Min(I) ELSE 0
  BY DEF FirstLocal, SelectInSeq
<1>2. I \in SUBSET Nat
  OBVIOUS
<1>3. I # {} => Min(I) \in I
  <2> HIDE DEF I
  <2> QED BY <1>2, MinIs
<1> QED BY <1>1, <1>3

(* The last array among types.                                             *)
LastIn(types) == SelectLastInSeq(types, LAMBDA t : t \in Arrays)

LEMMA LastInIs ==
  ASSUME NEW types \in Seq(Types)
  PROVE  /\ LastIn(types) \in 0 .. Len(types)
         /\ LastIn(types) = 0 => \A k \in DOMAIN types : types[k] \notin Arrays
         /\ LastIn(types) # 0 => /\ types[LastIn(types)] \in Arrays
                                 /\ \A k \in DOMAIN types : types[k] \in Arrays =>
                                      k <= LastIn(types)
<1> DEFINE I == {i \in 1 .. Len(types) : types[i] \in Arrays}
<1>1. LastIn(types) = IF I # {} THEN Max(I) ELSE 0
  BY DEF LastIn, SelectLastInSeq
<1>2. I \in SUBSET (1 .. Len(types)) /\ Len(types) \in Nat
  OBVIOUS
<1>3. I # {} => Max(I) \in I /\ \A y \in I : Max(I) >= y
  <2> HIDE DEF I
  <2> QED BY <1>2, MaxIs
<1>4. CASE I = {}
  BY <1>1, <1>4
<1>5. CASE I # {}
  <2>1. PICK m : m = Max(I)
    OBVIOUS
  <2>2. m \in I /\ \A y \in I : m >= y
    BY <1>3, <1>5, <2>1
  <2>3. LastIn(types) = m
    BY <1>1, <1>5, <2>1
  <2> QED BY <2>2, <2>3
<1> QED BY <1>4, <1>5

(* The first call of f in h, and one at a given site.                      *)
LEMMA FirstCallIs ==
  ASSUME NEW h, body[h] \in Seq(Call), NEW f, \E k \in DOMAIN body[h] : body[h][k].callee = f
  PROVE  FirstCall(h, f) \in DOMAIN body[h] /\ body[h][FirstCall(h, f)].callee = f
<1> DEFINE I == {i \in 1 .. Len(body[h]) : body[h][i].callee = f}
<1>1. FirstCall(h, f) = IF I # {} THEN Min(I) ELSE 0
  BY DEF FirstCall, SelectInSeq
<1>2. I \in SUBSET Nat /\ I # {}
  OBVIOUS
<1>3. \A i \in I : i \in DOMAIN body[h] /\ body[h][i].callee = f
  OBVIOUS
<1> HIDE DEF I
<1>4. Min(I) \in I
  BY <1>2, MinIs
<1> QED BY <1>1, <1>2, <1>3, <1>4

LEMMA CallAtIs ==
  ASSUME NEW h, body[h] \in Seq(Call), NEW f, NEW site,
         \E k \in DOMAIN body[h] : body[h][k].callee = f /\ body[h][k].site = site
  PROVE  LET e == CallAt(h, f, site) IN
         e \in DOMAIN body[h] /\ body[h][e].callee = f /\ body[h][e].site = site
<1> DEFINE I == {i \in 1 .. Len(body[h]) : body[h][i].callee = f /\ body[h][i].site = site}
<1>1. CallAt(h, f, site) = IF I # {} THEN Min(I) ELSE 0
  BY DEF CallAt, SelectInSeq
<1>2. I \in SUBSET Nat /\ I # {}
  OBVIOUS
<1>3. \A i \in I : i \in DOMAIN body[h] /\ body[h][i].callee = f /\ body[h][i].site = site
  OBVIOUS
<1> HIDE DEF I
<1>4. Min(I) \in I
  BY <1>2, MinIs
<1> QED BY <1>1, <1>2, <1>3, <1>4

(* The place of a function in the module.                                  *)
LEMMA PlaceIs ==
  ASSUME NEW f \in ToSet(order)
  PROVE  Place(f) \in DOMAIN order /\ order[Place(f)] = f
BY DEF Place, ToSet

(* h calls f.                                                              *)
Calls(b, h, f) == \E k \in DOMAIN b[h] : b[h][k].callee = f

(* The user calcArgs looks at first; clones come before originals, the     *)
(* last of them first.                                                     *)
LEMMA FirstUsersAre ==
  ASSUME NEW f, NEW user \in FirstUsers(f), params \in Seq(Seq(Types)),
         body \in Seq(Seq(Call)), Len(body) = Len(params)
  PROVE  /\ user[1] \in Functions /\ user[2] \in DOMAIN body[user[1]]
         /\ body[user[1]][user[2]].callee = f
         /\ \A h \in Functions \ Originals :
              Calls(body, h, f) => user[1] \notin Originals /\ h <= user[1]
<1> DEFINE clones == Callers(f) \ Originals
           calls(g) == {k \in DOMAIN body[g] : body[g][k].callee = f}
<1>1. \A h : h \in Callers(f) <=> h \in Functions /\ Calls(body, h, f)
  BY DEF Callers, Calls
<1>2. \A g \in Callers(f) : calls(g) # {} /\ calls(g) \in SUBSET (1 .. Len(body[g]))
                             /\ Len(body[g]) \in Nat
  <2> SUFFICES ASSUME NEW g \in Callers(f)
               PROVE  calls(g) # {} /\ calls(g) \in SUBSET (1 .. Len(body[g]))
                      /\ Len(body[g]) \in Nat
    OBVIOUS
  <2>1. body[g] \in Seq(Call) /\ \E k \in DOMAIN body[g] : body[g][k].callee = f
    BY <1>1 DEF Functions, Calls
  <2>2. calls(g) # {}
    BY <2>1
  <2>3. DOMAIN body[g] = 1 .. Len(body[g]) /\ Len(body[g]) \in Nat
    BY <2>1
  <2> QED BY <2>2, <2>3
<1>3. CASE clones # {}
  <2>1. clones \in SUBSET (1 .. Len(params)) /\ Len(params) \in Nat
    BY <1>1 DEF Functions
  <2>2. Max(clones) \in clones /\ \A y \in clones : Max(clones) >= y
    <3> HIDE DEF clones
    <3> QED BY <1>3, <2>1, MaxIs
  <2>3. PICK g : g = Max(clones)
    OBVIOUS
  <2>4. g \in Callers(f) /\ g \notin Originals /\ \A y \in clones : g >= y
    BY <2>2, <2>3
  <2>5. PICK n \in Nat : n = Len(body[g])
    BY <1>2, <2>4
  <2>6. Max(calls(g)) \in calls(g)
    <3>1. calls(g) # {} /\ calls(g) \in SUBSET (1 .. n)
      BY <1>2, <2>4, <2>5
    <3> HIDE DEF calls
    <3> QED BY <3>1, MaxIs
  <2>7. user = <<g, Max(calls(g))>>
    BY <1>3, <2>3 DEF FirstUsers
  <2>8. user[1] = g /\ user[2] \in calls(g)
    BY <2>6, <2>7
  <2>9. \A h \in Functions \ Originals : Calls(body, h, f) => h <= g
    <3>1. \A h \in Functions \ Originals : Calls(body, h, f) => h \in clones
      BY <1>1
    <3> QED BY <2>1, <2>4, <3>1
  <2> QED BY <1>1, <2>4, <2>8, <2>9
<1>4. CASE clones = {}
  <2>1. PICK g \in Callers(f) : user \in {<<g, k>> : k \in calls(g)}
    BY <1>4 DEF FirstUsers
  <2>2. user[1] = g /\ user[2] \in calls(g)
    BY <2>1
  <2>3. \A h \in Functions \ Originals : ~ Calls(body, h, f)
    BY <1>1, <1>4
  <2> QED BY <1>1, <2>2, <2>3
<1> QED BY <1>3, <1>4

----------------------------------------------------------------------------
(* Functions and calls.  What is said of them is said of any parameters ps, *)
(* calls b, and lists of added and deleted functions, with o for original.  *)

First == 1 .. Len(Order)

(* Every call fits what it calls.                                          *)
Fitting(ps, b) ==
  \A h \in DOMAIN b : \A k \in DOMAIN b[h] :
    b[h][k].callee \in DOMAIN ps /\ Fits(ps[h], b[h][k].args, ps[b[h][k].callee])

(* A call stands for one of the module as given; as long as the function   *)
(* it called is not replaced, it is that call.  Nothing calls a clone that *)
(* has not replaced its function yet.                                      *)
Stands(o, add, del, c) ==
  /\ c.site[1] \in First /\ c.site[2] \in DOMAIN o.body[c.site[1]]
  /\ c.callee \in First \cup add
  /\ c.callee \in First \ del => c = o.body[c.site[1]][c.site[2]]
AllStand(o, b, add, del) ==
  \A h \in DOMAIN b : \A k \in DOMAIN b[h] : Stands(o, add, del, b[h][k])

(* The calls of a function were made by one function of the given module.  *)
SameOrigin(b, g, h) ==
  \A j \in DOMAIN b[g], k \in DOMAIN b[h] : b[g][j].site[1] = b[h][k].site[1]
OneOrigin(b) == \A h \in DOMAIN b : SameOrigin(b, h, h)

(* A function that is called stays so until it is replaced.                *)
StillCalled(o, b, del) ==
  \A f \in First \ del :
    (\E g \in First : Calls(o.body, g, f)) => \E h \in DOMAIN b : Calls(b, h, f)

(* What SizesAgree says of a call c in f.                                  *)
OwnSize(ps, add, f, c) ==
  LET array == c.args[LastIn(ps[c.callee])]
      size == Last(c.args)
  IN \/ array.kind = "alloca" /\ size = SizeOf(array)
     \/ f \in add /\ array = Param(LastIn(ps[f])) /\ size = Param(LastIn(ps[f]) + 1)
Again(o, site) ==
  LET calls == o.body[site[1]] IN
  \E k \in DOMAIN calls \ {site[2]} : calls[k].callee = calls[site[2]].callee
Sized(o, ps, add, f, c) ==
  c.callee \in add =>
    \/ OwnSize(ps, add, f, c)
    \/ f \in add /\ Last(c.args) = Param(2) /\ (LastIn(ps[f]) # 1 \/ Again(o, c.site))
Passed(o, add, f, c) == f \in add /\ (c.args[1].kind = "param" \/ Again(o, c.site))
AllSized(o, ps, b, add) ==
  \A f \in DOMAIN b : \A k \in DOMAIN b[f] :
    /\ Sized(o, ps, add, f, b[f][k])
    /\ \A j \in DOMAIN b[f] \ {k} : b[f][j].site = b[f][k].site => Passed(o, add, f, b[f][k])

(* The module as given.                                                    *)
Given(o) ==
  /\ o.params \in Seq(Seq(Types)) /\ Len(o.params) = Len(Order)
  /\ IsModule(o.params, o.body)

Shape(o, ps, b, add, del) ==
  /\ ps \in Seq(Seq(Types)) /\ b \in Seq(Seq(Call)) /\ Len(b) = Len(ps)
  /\ Len(Order) <= Len(ps)
  /\ \A f \in First : ps[f] = o.params[f]
  /\ add \subseteq DOMAIN ps \ First /\ del \subseteq First

ModuleInv(o, ps, b, add, del) ==
  /\ Shape(o, ps, b, add, del)
  /\ Fitting(ps, b)
  /\ AllStand(o, b, add, del)
  /\ OneOrigin(b)
  /\ StillCalled(o, b, del)
  /\ AllSized(o, ps, b, add)

(* n is a clone of f: it has a parameter more, for the size of an array.   *)
IsCloneOf(ps, f, n) ==
  \E a \in DOMAIN ps[f] :
    ps[f][a] \in Arrays /\ ps[n] = AddParam(ps[f], ElementType(ps[f][a]))

(* The functions of the module as given have parameters still.             *)
LEMMA FirstHasParams ==
  ASSUME NEW o, NEW ps, NEW b, NEW add, NEW del, Shape(o, ps, b, add, del)
  PROVE  First \subseteq DOMAIN ps /\ \A f \in First : ps[f] \in Seq(Types)
<1>1. Len(Order) \in Nat
  BY ModuleAssumption
<1>2. First \subseteq DOMAIN ps
  BY <1>1 DEF Shape, First
<1> QED BY <1>2 DEF Shape

(* A call fits in a function with a parameter more.                        *)
LEMMA FitsLonger ==
  ASSUME NEW types \in Seq(Types), NEW t \in Types, NEW args, NEW signature,
         Fits(types, args, signature)
  PROVE  Fits(Append(types, t), args, signature)
<1> DEFINE longer == Append(types, t)
<1>1. /\ DOMAIN types \subseteq DOMAIN longer
      /\ \A k \in DOMAIN types : longer[k] = types[k]
  OBVIOUS
<1>2. ASSUME NEW k \in DOMAIN args
      PROVE  /\ args[k].kind = "param" => args[k].k \in DOMAIN longer
             /\ ArgType(longer, args[k]) = signature[k]
  <2>1. /\ args[k].kind = "param" => args[k].k \in DOMAIN types
        /\ ArgType(types, args[k]) = signature[k]
    BY DEF Fits
  <2> QED BY <1>1, <2>1 DEF ArgType
<1> HIDE DEF longer
<1>3. Fits(longer, args, signature)
  BY <1>2 DEF Fits
<1> QED BY <1>3 DEF longer

(* The arguments of a call to a clone that fit: those up to a local array, *)
(* which is the clone's last array, and its size.                          *)
LEMMA NewArgsAre ==
  ASSUME NEW types, NEW args \in Seq(Argument), NEW ts \in Seq(Types), NEW t \in {"int", "char"},
         Fits(types, NewArgs(args), Append(ts, t))
  PROVE  LET k == FirstLocal(args)
             new == NewArgs(args)
             last == LastIn(Append(ts, t))
         IN /\ new \in Seq(Argument)
            /\ new[last].kind = "alloca" /\ Last(new) = SizeOf(new[last])
            /\ new[1] = args[1]
<1> DEFINE signature == Append(ts, t)
<1>1. PICK k : k = FirstLocal(args)
  OBVIOUS
<1>2. PICK n \in Nat : n = Len(ts)
  OBVIOUS
<1>3. Len(NewArgs(args)) = n + 1
  BY <1>2 DEF Fits
<1>4. k # 0
  BY <1>1, <1>2, <1>3 DEF NewArgs
<1>5. k \in DOMAIN args /\ args[k].kind = "alloca"
  BY <1>1, <1>4, FirstLocalIs
<1>6. PICK a, s : a = SubSeq(args, 1, k) /\ s = SizeOf(args[k])
  OBVIOUS
<1>7. /\ a \in Seq(Argument) /\ Len(a) = k /\ k \in Nat \ {0}
      /\ \A j \in 1 .. k : a[j] = args[j]
  BY <1>5, <1>6
<1>8. s \in Argument
  <2>1. args[k] \in [kind : {"alloca"}, k : Nat, type : Arrays]
    BY <1>5 DEF Argument
  <2> QED BY <1>6, <2>1 DEF Argument, SizeOf
<1>9. NewArgs(args) = Append(a, s)
  BY <1>1, <1>4, <1>6 DEF NewArgs
<1>10. PICK new : new = NewArgs(args)
  OBVIOUS
<1>11. /\ new \in Seq(Argument) /\ Len(new) = k + 1
       /\ new[k + 1] = s /\ \A j \in 1 .. k : new[j] = args[j]
  BY <1>7, <1>8, <1>9, <1>10
<1>12. k = n /\ Last(new) = s
  BY <1>3, <1>7, <1>10, <1>11 DEF Last
<1>13. PICK sig : sig = Append(ts, t)
  OBVIOUS
<1>14. /\ sig \in Seq(Types) /\ Len(sig) = n + 1 /\ sig[n + 1] \notin Arrays
       /\ \A j \in 1 .. n : sig[j] = ts[j]
  BY <1>2, <1>13 DEF Types, Arrays
<1>15. sig[k] \in Arrays
  <2>1. ArgType(types, new[k]) = sig[k]
    <3>1. Fits(types, new, sig)
      BY <1>10, <1>13
    <3>2. k \in DOMAIN new
      BY <1>7, <1>11
    <3> QED BY <3>1, <3>2 DEF Fits
  <2>2. new[k] = args[k]
    BY <1>7, <1>11
  <2>3. args[k] \in [kind : {"alloca"}, k : Nat, type : Arrays]
    BY <1>5 DEF Argument
  <2> QED BY <2>1, <2>2, <2>3 DEF ArgType
<1>16. LastIn(sig) = k
  <2>1. PICK last : last = LastIn(sig)
    OBVIOUS
  <2>2. /\ last \in 0 .. n + 1
        /\ last = 0 => \A j \in 1 .. n + 1 : sig[j] \notin Arrays
        /\ last # 0 => sig[last] \in Arrays
                       /\ \A j \in 1 .. n + 1 : sig[j] \in Arrays => j <= last
    BY <1>14, <2>1, LastInIs
  <2> QED BY <1>7, <1>12, <1>14, <1>15, <2>1, <2>2
<1>17. new[k] = args[k] /\ new[1] = args[1]
  BY <1>7, <1>11
<1> QED BY <1>5, <1>6, <1>10, <1>11, <1>12, <1>13, <1>16, <1>17

(* addParamsToFunction: a clone of f, with a parameter more, makes the     *)
(* same calls.                                                             *)
LEMMA CloneKeeps ==
  ASSUME NEW o, NEW ps, NEW b, NEW add, NEW del, Given(o), ModuleInv(o, ps, b, add, del),
         NEW f \in DOMAIN ps \ add, NEW t \in Types
  PROVE  ModuleInv(o, Append(ps, Append(ps[f], t)), Append(b, b[f]), add, del)
<1>1. PICK ps2, b2 : ps2 = Append(ps, Append(ps[f], t)) /\ b2 = Append(b, b[f])
  OBVIOUS
<1>2. PICK n \in Nat : n = Len(ps) /\ n = Len(b)
  BY DEF ModuleInv, Shape
<1>3. /\ ps \in Seq(Seq(Types)) /\ b \in Seq(Seq(Call)) /\ f \in 1 .. n
      /\ DOMAIN ps = 1 .. n /\ DOMAIN b = 1 .. n
  BY <1>2 DEF ModuleInv, Shape
<1>4. /\ ps2 \in Seq(Seq(Types)) /\ Len(ps2) = n + 1 /\ DOMAIN ps2 = 1 .. n + 1
      /\ \A h \in 1 .. n : ps2[h] = ps[h]
      /\ ps2[n + 1] = Append(ps[f], t)
  <2>1. ps[f] \in Seq(Types)
    BY <1>2, <1>3
  <2>2. PICK types : types = Append(ps[f], t)
    OBVIOUS
  <2>3. types \in Seq(Types)
    BY <2>1, <2>2
  <2>4. ps2 = Append(ps, types)
    BY <1>1, <2>2
  <2>5. PICK T : T = Seq(Types)
    OBVIOUS
  <2>6. ps \in Seq(T) /\ types \in T
    BY <1>3, <2>3, <2>5
  <2>7. /\ ps2 \in Seq(T) /\ Len(ps2) = n + 1 /\ ps2[n + 1] = types
        /\ \A h \in 1 .. n : ps2[h] = ps[h]
    <3>1. /\ Append(ps, types) \in Seq(T) /\ Len(Append(ps, types)) = Len(ps) + 1
          /\ \A h \in 1 .. Len(ps) : Append(ps, types)[h] = ps[h]
          /\ Append(ps, types)[Len(ps) + 1] = types
      BY <2>6, AppendProperties
    <3> QED BY <1>2, <2>4, <3>1
  <2>8. DOMAIN ps2 = 1 .. n + 1
    BY <2>7
  <2> QED BY <2>2, <2>5, <2>7, <2>8
<1>5. /\ b2 \in Seq(Seq(Call)) /\ Len(b2) = n + 1 /\ DOMAIN b2 = 1 .. n + 1
      /\ \A h \in 1 .. n : b2[h] = b[h]
      /\ b2[n + 1] = b[f]
  <2>1. b[f] \in Seq(Call)
    BY <1>2, <1>3
  <2> QED BY <1>1, <1>2, <1>3, <2>1
<1> DEFINE of(h) == IF h = n + 1 THEN f ELSE h
<1>6. \A h \in DOMAIN b2 : of(h) \in DOMAIN b /\ b2[h] = b[of(h)]
  <2> SUFFICES ASSUME NEW h \in 1 .. n + 1 PROVE of(h) \in 1 .. n /\ b2[h] = b[of(h)]
    BY <1>2, <1>3, <1>5
  <2>1. CASE h = n + 1
    BY <1>3, <1>5, <2>1
  <2>2. CASE h # n + 1
    <3>1. h \in 1 .. n /\ of(h) = h
      BY <2>2
    <3> QED BY <1>5, <3>1
  <2> QED BY <2>1, <2>2
<1> HIDE DEF of
<1>7. Shape(o, ps2, b2, add, del)
  <2>1. Len(Order) <= n /\ Len(Order) \in Nat
    BY <1>2, ModuleAssumption DEF ModuleInv, Shape
  <2>2. \A g \in First : ps2[g] = o.params[g]
    <3>1. \A g \in First : g \in 1 .. n
      BY <2>1 DEF First
    <3>2. \A g \in First : ps[g] = o.params[g]
      BY DEF ModuleInv, Shape
    <3> QED BY <1>4, <3>1, <3>2
  <2>3. add \subseteq DOMAIN ps2 \ First /\ del \subseteq First
    <3>1. DOMAIN ps \subseteq DOMAIN ps2
      BY <1>2, <1>3, <1>4
    <3> QED BY <3>1 DEF ModuleInv, Shape
  <2> QED BY <1>4, <1>5, <2>1, <2>2, <2>3 DEF Shape
<1>8. Fitting(ps2, b2)
  <2> SUFFICES ASSUME NEW h \in DOMAIN b2, NEW k \in DOMAIN b2[h]
               PROVE  /\ b2[h][k].callee \in DOMAIN ps2
                      /\ Fits(ps2[h], b2[h][k].args, ps2[b2[h][k].callee])
    BY DEF Fitting
  <2>1. PICK c : c = b2[h][k] /\ c = b[of(h)][k]
    BY <1>6
  <2>2. c.callee \in DOMAIN ps /\ Fits(ps[of(h)], c.args, ps[c.callee])
    BY <1>6, <2>1 DEF ModuleInv, Fitting
  <2>3. c.callee \in DOMAIN ps2 /\ ps2[c.callee] = ps[c.callee]
    <3>1. c.callee \in 1 .. n
      BY <1>2, <1>3, <2>2
    <3> QED BY <1>4, <3>1
  <2>4. CASE h = n + 1
    <3>1. Fits(ps[f], c.args, ps[c.callee])
      BY <2>2, <2>4 DEF of
    <3>2. ps[f] \in Seq(Types)
      BY <1>2, <1>3
    <3>3. Fits(Append(ps[f], t), c.args, ps[c.callee])
      BY <3>1, <3>2, FitsLonger
    <3> QED BY <1>4, <2>1, <2>3, <2>4, <3>3
  <2>5. CASE h # n + 1
    <3>1. h \in 1 .. n
      BY <1>5, <2>5
    <3>2. ps2[h] = ps[of(h)]
      BY <1>4, <2>5, <3>1 DEF of
    <3> QED BY <2>1, <2>2, <2>3, <3>2
  <2> QED BY <2>4, <2>5
<1>9. AllStand(o, b2, add, del)
  BY <1>6 DEF ModuleInv, AllStand
<1>10. OneOrigin(b2)
  BY <1>6 DEF ModuleInv, OneOrigin, SameOrigin
<1>11. StillCalled(o, b2, del)
  <2>1. \A h \in DOMAIN b : h \in DOMAIN b2 /\ b2[h] = b[h]
    BY <1>2, <1>3, <1>5
  <2>2. StillCalled(o, b, del)
    BY DEF ModuleInv
  <2>3. \A g : \A h \in DOMAIN b : Calls(b, h, g) => Calls(b2, h, g)
    BY <2>1 DEF Calls
  <2> QED BY <2>1, <2>2, <2>3 DEF StillCalled
<1>12. AllSized(o, ps2, b2, add)
  <2> SUFFICES ASSUME NEW h \in DOMAIN b2, NEW k \in DOMAIN b2[h]
               PROVE  /\ Sized(o, ps2, add, h, b2[h][k])
                      /\ \A j \in DOMAIN b2[h] \ {k} :
                           b2[h][j].site = b2[h][k].site => Passed(o, add, h, b2[h][k])
    BY DEF AllSized
  <2>1. PICK g, c : g = of(h) /\ c = b2[h][k]
    OBVIOUS
  <2>2. g \in DOMAIN b /\ b2[h] = b[g] /\ c = b[g][k]
    BY <1>6, <2>1
  <2>3. /\ Sized(o, ps, add, g, c)
        /\ \A j \in DOMAIN b[g] \ {k} : b[g][j].site = c.site => Passed(o, add, g, c)
    BY <2>2 DEF ModuleInv, AllSized
  <2>4. h \in add => g = h
    <3>1. h \in add => h # n + 1
      BY <1>2, <1>3 DEF ModuleInv, Shape
    <3> QED BY <2>1, <3>1 DEF of
  <2>5. g \in add => g = h
    BY <2>1 DEF of
  <2>6. \A e \in add : ps2[e] = ps[e]
    <3>1. \A e \in add : e \in 1 .. n
      BY <1>2, <1>3 DEF ModuleInv, Shape
    <3> QED BY <1>4, <3>1
  <2>7. h \in add => ps2[h] = ps[h]
    BY <2>6
  <2>8. Sized(o, ps2, add, h, c)
    <3> SUFFICES ASSUME c.callee \in add PROVE Sized(o, ps2, add, h, c)
      BY DEF Sized
    <3>1. OwnSize(ps, add, g, c) => OwnSize(ps2, add, h, c)
      BY <2>5, <2>6, <2>7 DEF OwnSize
    <3> QED BY <2>3, <2>5, <2>7, <3>1 DEF Sized
  <2>9. Passed(o, add, g, c) => Passed(o, add, h, c)
    BY <2>5 DEF Passed
  <2> QED BY <2>1, <2>2, <2>3, <2>8, <2>9
<1> QED BY <1>1, <1>7, <1>8, <1>9, <1>10, <1>11, <1>12 DEF ModuleInv

(* A call of f becomes, or is replaced by, one of n: the calls of other    *)
(* functions remain.                                                       *)
Replaced(b, b2, f, n) ==
  /\ DOMAIN b2 = DOMAIN b
  /\ \A h \in DOMAIN b : \A j \in DOMAIN b2[h] :
       \E i \in DOMAIN b[h] : b2[h][j].site = b[h][i].site
  /\ \A h \in DOMAIN b : \A i \in DOMAIN b[h] : b[h][i].callee # f =>
       \E j \in DOMAIN b2[h] : b2[h][j] = b[h][i]
  /\ \A h \in DOMAIN b : \A z : z # n /\ Calls(b2, h, z) => Calls(b, h, z)

(* A call of f in g is rewritten to call n, a clone of f, with its array   *)
(* and that array's size.                                                  *)
Rewritten(b, g, k, n) ==
  [b EXCEPT ![g][k] = [@ EXCEPT !.callee = n, !.args = NewArgs(b[g][k].args)]]

LEMMA RewriteKeeps ==
  ASSUME NEW o, NEW ps, NEW b, NEW add, NEW del, Given(o), ModuleInv(o, ps, b, add, del),
         NEW g \in DOMAIN b, NEW k \in DOMAIN b[g],
         NEW f \in First, b[g][k].callee = f,
         NEW n \in DOMAIN ps \ First, n \notin add,
         IsCloneOf(ps, f, n),
         b[g][k].args[1].kind # "param",
         Fits(ps[g], NewArgs(b[g][k].args), ps[n])
  PROVE  /\ ModuleInv(o, ps, Rewritten(b, g, k, n), add \cup {n}, del \cup {f})
         /\ Replaced(b, Rewritten(b, g, k, n), f, n)
<1>1. PICK c, new : c = b[g][k] /\ new = [c EXCEPT !.callee = n, !.args = NewArgs(c.args)]
  OBVIOUS
<1>2. PICK b2 : b2 = [b EXCEPT ![g][k] = new]
  OBVIOUS
<1>3. b \in Seq(Seq(Call)) /\ c \in Call /\ b[g] \in Seq(Call)
  BY <1>1 DEF ModuleInv, Shape
<1>4. /\ NewArgs(c.args) \in Seq(Argument)
      /\ LET new2 == NewArgs(c.args)  last == LastIn(ps[n]) IN
         new2[last].kind = "alloca" /\ Last(new2) = SizeOf(new2[last])
      /\ NewArgs(c.args)[1] = c.args[1]
  <2>1. c.args \in Seq(Argument)
    BY <1>3 DEF Call
  <2>2. Fits(ps[g], NewArgs(c.args), ps[n])
    BY <1>1
  <2>3. PICK t \in {"int", "char"} : ps[n] = Append(ps[f], t)
    BY DEF IsCloneOf, AddParam, ElementType
  <2>4. ps[f] \in Seq(Types)
    <3>1. Shape(o, ps, b, add, del)
      BY DEF ModuleInv
    <3> QED BY <3>1, FirstHasParams
  <2> QED BY <2>1, <2>2, <2>3, <2>4, NewArgsAre
<1>5. /\ new.callee = n /\ new.args = NewArgs(c.args) /\ new.site = c.site
      /\ new \in Call
  <2>1. n \in Nat
    BY DEF ModuleInv, Shape
  <2> QED BY <1>1, <1>3, <1>4, <2>1 DEF Call
<1>6. /\ b2 \in Seq(Seq(Call)) /\ Len(b2) = Len(b) /\ DOMAIN b2 = DOMAIN b
      /\ \A h \in DOMAIN b : DOMAIN b2[h] = DOMAIN b[h]
      /\ \A h \in DOMAIN b : \A j \in DOMAIN b[h] :
           b2[h][j] = IF h = g /\ j = k THEN new ELSE b[h][j]
  <2>1. PICK s : s = [b[g] EXCEPT ![k] = new]
    OBVIOUS
  <2>2. /\ s \in Seq(Call) /\ DOMAIN s = DOMAIN b[g]
        /\ \A j \in DOMAIN b[g] : s[j] = IF j = k THEN new ELSE b[g][j]
    BY <1>3, <1>5, <2>1
  <2>3. b2 = [b EXCEPT ![g] = s]
    BY <1>2, <2>1
  <2>4. /\ b2 \in Seq(Seq(Call)) /\ Len(b2) = Len(b) /\ DOMAIN b2 = DOMAIN b
        /\ \A h \in DOMAIN b : b2[h] = IF h = g THEN s ELSE b[h]
    BY <1>3, <2>2, <2>3
  <2> QED BY <2>2, <2>4
<1>7. PICK add2, del2 : add2 = add \cup {n} /\ del2 = del \cup {f}
  OBVIOUS
<1>8. \A h \in DOMAIN b : \A j \in DOMAIN b[h] : b[h][j].callee # n
  BY DEF ModuleInv, AllStand, Stands
<1>9. Shape(o, ps, b2, add2, del2)
  BY <1>6, <1>7 DEF ModuleInv, Shape
<1>10. Fitting(ps, b2)
  <2> SUFFICES ASSUME NEW h \in DOMAIN b, NEW j \in DOMAIN b[h]
               PROVE  /\ b2[h][j].callee \in DOMAIN ps
                      /\ Fits(ps[h], b2[h][j].args, ps[b2[h][j].callee])
    BY <1>6 DEF Fitting
  <2>1. CASE h = g /\ j = k
    <3>1. b2[h][j] = new
      BY <1>6, <2>1
    <3> QED BY <1>1, <1>5, <2>1, <3>1
  <2>2. CASE ~ (h = g /\ j = k)
    <3>1. b2[h][j] = b[h][j]
      BY <1>6, <2>2
    <3> QED BY <3>1 DEF ModuleInv, Fitting
  <2> QED BY <2>1, <2>2
<1>11. AllStand(o, b2, add2, del2)
  <2> SUFFICES ASSUME NEW h \in DOMAIN b, NEW j \in DOMAIN b[h]
               PROVE  Stands(o, add2, del2, b2[h][j])
    BY <1>6 DEF AllStand
  <2>1. Stands(o, add, del, b[h][j])
    BY DEF ModuleInv, AllStand
  <2>2. CASE h = g /\ j = k
    <3>1. b2[h][j] = new /\ n \in add2 /\ n \notin First
      BY <1>6, <1>7, <2>2
    <3> QED BY <1>1, <1>5, <2>1, <2>2, <3>1 DEF Stands
  <2>3. CASE ~ (h = g /\ j = k)
    BY <1>6, <1>7, <2>1, <2>3 DEF Stands
  <2> QED BY <2>2, <2>3
<1>12. \A h \in DOMAIN b : \A j \in DOMAIN b[h] : b2[h][j].site = b[h][j].site
  <2> SUFFICES ASSUME NEW h \in DOMAIN b, NEW j \in DOMAIN b[h]
               PROVE  b2[h][j].site = b[h][j].site
    OBVIOUS
  <2>1. b2[h][j] = IF h = g /\ j = k THEN new ELSE b[h][j]
    BY <1>6
  <2>2. new.site = b[g][k].site
    BY <1>1, <1>5
  <2> QED BY <2>1, <2>2
<1>13. OneOrigin(b2)
  <2> SUFFICES ASSUME NEW h \in DOMAIN b, NEW i \in DOMAIN b[h], NEW j \in DOMAIN b[h]
               PROVE  b2[h][i].site[1] = b2[h][j].site[1]
    BY <1>6 DEF OneOrigin, SameOrigin
  <2>1. b[h][i].site[1] = b[h][j].site[1]
    BY DEF ModuleInv, OneOrigin, SameOrigin
  <2>2. b2[h][i].site = b[h][i].site /\ b2[h][j].site = b[h][j].site
    BY <1>12
  <2> QED BY <2>1, <2>2
<1>14. StillCalled(o, b2, del2)
  <2>1. \A e \in First \ del2 : \A h \in DOMAIN b : Calls(b, h, e) => Calls(b2, h, e)
    <3> SUFFICES ASSUME NEW e \in First \ del2, NEW h \in DOMAIN b, NEW j \in DOMAIN b[h],
                        b[h][j].callee = e
                 PROVE  b2[h][j].callee = e
      BY <1>6 DEF Calls
    <3>1. e # f
      BY <1>7
    <3> QED BY <1>6, <3>1
  <2>2. StillCalled(o, b, del)
    BY DEF ModuleInv
  <2> QED BY <1>6, <1>7, <2>1, <2>2 DEF StillCalled
<1>15. AllSized(o, ps, b2, add2)
  <2> SUFFICES ASSUME NEW h \in DOMAIN b, NEW j \in DOMAIN b[h]
               PROVE  /\ Sized(o, ps, add2, h, b2[h][j])
                      /\ \A i \in DOMAIN b[h] \ {j} :
                           b2[h][i].site = b2[h][j].site => Passed(o, add2, h, b2[h][j])
    BY <1>6 DEF AllSized
  <2>1. /\ Sized(o, ps, add, h, b[h][j])
        /\ \A i \in DOMAIN b[h] \ {j} :
             b[h][i].site = b[h][j].site => Passed(o, add, h, b[h][j])
    BY DEF ModuleInv, AllSized
  <2>2. CASE h = g /\ j = k
    <3>1. b2[h][j] = new
      BY <1>6, <2>2
    <3>2. OwnSize(ps, add2, h, new)
      BY <1>4, <1>5 DEF OwnSize
    <3>3. Passed(o, add, h, c) => Passed(o, add2, h, new)
      BY <1>4, <1>5, <1>7 DEF Passed
    <3> QED BY <1>1, <1>12, <2>1, <2>2, <3>1, <3>2, <3>3 DEF Sized
  <2>3. CASE ~ (h = g /\ j = k)
    <3>1. PICK d : d = b[h][j] /\ b2[h][j] = d
      BY <1>6, <2>3
    <3>2. d.callee # n
      BY <1>8, <3>1
    <3>3. OwnSize(ps, add, h, d) => OwnSize(ps, add2, h, d)
      BY <1>7 DEF OwnSize
    <3>4. Sized(o, ps, add2, h, d)
      BY <1>7, <2>1, <3>1, <3>2, <3>3 DEF Sized
    <3>5. Passed(o, add, h, d) => Passed(o, add2, h, d)
      BY <1>7 DEF Passed
    <3> QED BY <1>12, <2>1, <3>1, <3>4, <3>5
  <2> QED BY <2>2, <2>3
<1>16. ModuleInv(o, ps, b2, add2, del2)
  BY <1>9, <1>10, <1>11, <1>13, <1>14, <1>15 DEF ModuleInv
<1>17. Replaced(b, b2, f, n)
  <2>1. \A h \in DOMAIN b : \A i \in DOMAIN b[h] : b[h][i].callee # f =>
          \E j \in DOMAIN b2[h] : b2[h][j] = b[h][i]
    <3> SUFFICES ASSUME NEW h \in DOMAIN b, NEW i \in DOMAIN b[h], b[h][i].callee # f
                 PROVE  i \in DOMAIN b2[h] /\ b2[h][i] = b[h][i]
      OBVIOUS
    <3>1. ~ (h = g /\ i = k)
      OBVIOUS
    <3> QED BY <1>6, <3>1
  <2>2. \A h \in DOMAIN b : \A z : z # n /\ Calls(b2, h, z) => Calls(b, h, z)
    <3> SUFFICES ASSUME NEW h \in DOMAIN b, NEW z, z # n, NEW j \in DOMAIN b2[h],
                        b2[h][j].callee = z
                 PROVE  j \in DOMAIN b[h] /\ b[h][j].callee = z
      BY DEF Calls
    <3>1. ~ (h = g /\ j = k)
      BY <1>5, <1>6
    <3> QED BY <1>6, <3>1
  <2> QED BY <1>6, <1>12, <2>1, <2>2 DEF Replaced
<1>18. b2 = Rewritten(b, g, k, n)
  BY <1>1, <1>2, <1>3 DEF Rewritten
<1> QED BY <1>7, <1>16, <1>17, <1>18

(* Two arguments that fit a clone: it has one parameter and its size.      *)
LEMMA TwoArgsFit ==
  ASSUME NEW types, NEW x, NEW ps, NEW f, NEW n, ps[f] \in Seq(Types),
         IsCloneOf(ps, f, n), Fits(types, <<x, Param(2)>>, ps[n])
  PROVE  /\ Len(ps[f]) = 1 /\ LastIn(ps[n]) = 1
         /\ ps[n][1] \in Arrays
         /\ x.kind = "param" => x.k \in DOMAIN types
         /\ ArgType(types, x) = ps[n][1]
<1>1. PICK ts, sig, args : ts = ps[f] /\ sig = ps[n] /\ args = <<x, Param(2)>>
  OBVIOUS
<1>2. ts \in Seq(Types) /\ Fits(types, args, sig)
  BY <1>1
<1>3. PICK a \in DOMAIN ts, t \in {"int", "char"} : ts[a] \in Arrays /\ sig = Append(ts, t)
  BY <1>1 DEF IsCloneOf, AddParam, ElementType
<1>4. PICK m \in Nat : m = Len(ts) /\ DOMAIN ts = 1 .. m
  BY <1>2
<1>5. t \in Types /\ t \notin Arrays
  BY DEF Types, Arrays
<1>6. /\ sig \in Seq(Types) /\ Len(sig) = m + 1 /\ sig[m + 1] = t
      /\ \A j \in 1 .. m : sig[j] = ts[j]
  BY <1>2, <1>3, <1>4, <1>5, AppendProperties
<1>7. /\ Len(args) = 2 /\ 1 \in DOMAIN args /\ args[1] = x
  BY <1>1
<1>8. m = 1 /\ a = 1
  <2>1. Len(args) = Len(sig)
    BY <1>2 DEF Fits
  <2>2. m = 1
    BY <1>4, <1>6, <1>7, <2>1
  <2> QED BY <1>4, <2>2
<1>9. sig[1] \in Arrays /\ sig[2] = t /\ Len(sig) = 2
  BY <1>3, <1>6, <1>8
<1>10. DOMAIN sig = 1 .. 2
  BY <1>6, <1>9, LenProperties
<1>11. LastIn(sig) = 1
  <2>1. PICK last : last = LastIn(sig)
    OBVIOUS
  <2>2. /\ last \in 0 .. 2
        /\ last = 0 => \A j \in 1 .. 2 : sig[j] \notin Arrays
        /\ last # 0 => sig[last] \in Arrays
    BY <1>6, <1>9, <1>10, <2>1, LastInIs
  <2> QED BY <1>5, <1>9, <2>1, <2>2
<1>12. (x.kind = "param" => x.k \in DOMAIN types) /\ ArgType(types, x) = sig[1]
  BY <1>2, <1>7 DEF Fits
<1> QED BY <1>1, <1>4, <1>8, <1>9, <1>11, <1>12

(* A sequence with one element changed.                                    *)
LEMMA ChangedIs ==
  ASSUME NEW S, NEW s \in Seq(S), NEW i \in DOMAIN s, NEW e \in S
  PROVE  /\ [s EXCEPT ![i] = e] \in Seq(S)
         /\ Len([s EXCEPT ![i] = e]) = Len(s)
         /\ DOMAIN [s EXCEPT ![i] = e] = DOMAIN s
         /\ [s EXCEPT ![i] = e][i] = e
         /\ \A j \in DOMAIN s : j # i => [s EXCEPT ![i] = e][j] = s[j]
OBVIOUS

(* Places stay apart when one is taken out, or put in.                     *)
LEMMA ApartWithout ==
  ASSUME NEW i \in Nat, NEW j \in Nat, NEW k \in Nat, i # j, i # k, j # k
  PROVE  (IF i < k THEN i ELSE i - 1) # (IF j < k THEN j ELSE j - 1)
OBVIOUS

LEMMA ApartWith ==
  ASSUME NEW i \in Nat, NEW j \in Nat, NEW k \in Nat, i # j
  PROVE  (IF i < k THEN i ELSE i + 1) # (IF j < k THEN j ELSE j + 1)
OBVIOUS

(* In a sequence of sequences, an element is put into one and one is taken *)
(* out of another: what the element at j of h was before.                  *)
Was(r, k, g, d, h, j) ==
  IF h = r THEN (IF j < k THEN j ELSE j - 1)
  ELSE IF h = g THEN (IF j < d THEN j ELSE j + 1) ELSE j

Moved(b, b2, r, k, new, g, d) ==
  b2 = [b EXCEPT ![r] = InsertAt(@, k, new), ![g] = RemoveAt(@, d)]
Follows(b, b2, r, k, new, g, d) ==
  /\ Len(b2) = Len(b) /\ DOMAIN b2 = DOMAIN b
  /\ \A h \in DOMAIN b2 : \A j \in DOMAIN b2[h] :
       IF h = r /\ j = k THEN b2[h][j] = new
       ELSE Was(r, k, g, d, h, j) \in DOMAIN b[h] /\ b2[h][j] = b[h][Was(r, k, g, d, h, j)]
  /\ \A h \in DOMAIN b2 : \A i, j \in DOMAIN b2[h] :
       i # j /\ ~ (h = r /\ i = k) /\ ~ (h = r /\ j = k) =>
         Was(r, k, g, d, h, i) # Was(r, k, g, d, h, j)
  /\ \A h \in DOMAIN b : \A j \in DOMAIN b[h] : ~ (h = g /\ j = d) =>
       \E i \in DOMAIN b2[h] : b2[h][i] = b[h][j]

LEMMA InsertedRemoved ==
  ASSUME NEW S, NEW b \in Seq(Seq(S)), NEW r \in DOMAIN b, NEW g \in DOMAIN b, g # r,
         NEW k \in DOMAIN b[r], NEW d \in DOMAIN b[g], NEW new \in S,
         NEW b2, Moved(b, b2, r, k, new, g, d)
  PROVE  b2 \in Seq(Seq(S)) /\ Follows(b, b2, r, k, new, g, d)
<1>2. PICK br, bg : br = InsertAt(b[r], k, new) /\ bg = RemoveAt(b[g], d)
  OBVIOUS
<1>4. b[r] \in Seq(S) /\ b[g] \in Seq(S)
  OBVIOUS
<1>5. b2 = [b EXCEPT ![r] = br, ![g] = bg]
  BY <1>2 DEF Moved
<1>10. PICK lr, lg \in Nat : lr = Len(b[r]) /\ lg = Len(b[g])
  BY <1>4, LenProperties
<1>11. /\ k \in 1 .. lr /\ br \in Seq(S) /\ Len(br) = lr + 1
       /\ \A j \in 1 .. lr + 1 :
            br[j] = IF j < k THEN b[r][j] ELSE IF j = k THEN new ELSE b[r][j - 1]
  <2>1. k \in 1 .. lr /\ k \in 1 .. Len(b[r]) + 1
    BY <1>4, <1>10
  <2>2. PICK s : s = b[r]
    OBVIOUS
  <2>3. s \in Seq(S) /\ k \in 1 .. Len(s) + 1 /\ new \in S
    BY <1>4, <2>1, <2>2
  <2>4. InsertAt(s, k, new) \in Seq(S) /\ IsInserted(s, k, new, InsertAt(s, k, new))
    BY <2>3, InsertAtIs
  <2>5. br \in Seq(S) /\ IsInserted(s, k, new, br)
    BY <1>2, <2>2, <2>4
  <2> QED BY <1>10, <2>1, <2>2, <2>5 DEF IsInserted
<1>12. /\ d \in 1 .. lg /\ bg \in Seq(S) /\ Len(bg) = lg - 1
       /\ \A j \in 1 .. lg - 1 : bg[j] = IF j < d THEN b[g][j] ELSE b[g][j + 1]
  <2>1. d \in 1 .. lg
    BY <1>4, <1>10
  <2> QED BY <1>2, <1>4, <1>10, <2>1, RemoveAtIs
<1>13. /\ b2 \in Seq(Seq(S)) /\ Len(b2) = Len(b) /\ DOMAIN b2 = DOMAIN b
       /\ b2[r] = br /\ b2[g] = bg
       /\ \A h \in DOMAIN b : h # r /\ h # g => b2[h] = b[h]
  <2>1. PICK s : s = [b EXCEPT ![r] = br]
    OBVIOUS
  <2>2. /\ s \in Seq(Seq(S)) /\ Len(s) = Len(b) /\ DOMAIN s = DOMAIN b
        /\ s[r] = br /\ \A h \in DOMAIN b : h # r => s[h] = b[h]
    <3>1. PICK T : T = Seq(S)
      OBVIOUS
    <3>2. b \in Seq(T) /\ br \in T /\ r \in DOMAIN b
      BY <1>4, <1>11, <3>1
    <3>3. /\ [b EXCEPT ![r] = br] \in Seq(T) /\ Len([b EXCEPT ![r] = br]) = Len(b)
          /\ DOMAIN [b EXCEPT ![r] = br] = DOMAIN b
          /\ [b EXCEPT ![r] = br][r] = br
          /\ \A h \in DOMAIN b : h # r => [b EXCEPT ![r] = br][h] = b[h]
      BY <3>2, ChangedIs
    <3> QED BY <2>1, <3>1, <3>3
  <2>3. b2 = [s EXCEPT ![g] = bg]
    BY <1>4, <1>5, <2>1
  <2>4. /\ b2 \in Seq(Seq(S)) /\ Len(b2) = Len(s) /\ DOMAIN b2 = DOMAIN s
        /\ b2[g] = bg /\ \A h \in DOMAIN s : h # g => b2[h] = s[h]
    <3>1. PICK T : T = Seq(S)
      OBVIOUS
    <3>2. s \in Seq(T) /\ bg \in T /\ g \in DOMAIN s
      BY <1>12, <2>2, <3>1
    <3>3. /\ [s EXCEPT ![g] = bg] \in Seq(T) /\ Len([s EXCEPT ![g] = bg]) = Len(s)
          /\ DOMAIN [s EXCEPT ![g] = bg] = DOMAIN s
          /\ [s EXCEPT ![g] = bg][g] = bg
          /\ \A h \in DOMAIN s : h # g => [s EXCEPT ![g] = bg][h] = s[h]
      BY <3>2, ChangedIs
    <3> QED BY <2>3, <3>1, <3>3
  <2> QED BY <1>4, <2>2, <2>4
(* Every call is the new one or an old one in the same function; old ones  *)
(* keep their order, and those that are not to f remain.                   *)
<1> DEFINE was(h, j) == Was(r, k, g, d, h, j)
           isNew(h, j) == h = r /\ j = k
<1>14. \A h \in DOMAIN b2 : \A j \in DOMAIN b2[h] :
         IF isNew(h, j) THEN b2[h][j] = new
         ELSE was(h, j) \in DOMAIN b[h] /\ b2[h][j] = b[h][was(h, j)]
  <2> SUFFICES ASSUME NEW h \in DOMAIN b, NEW j \in DOMAIN b2[h]
               PROVE  IF isNew(h, j) THEN b2[h][j] = new
                      ELSE was(h, j) \in DOMAIN b[h] /\ b2[h][j] = b[h][was(h, j)]
    BY <1>13
  <2>1. CASE h = r
    <3>1. j \in 1 .. lr + 1 /\ DOMAIN b[r] = 1 .. lr
      BY <1>4, <1>10, <1>11, <1>13, <2>1
    <3>2. b2[h][j] = IF j < k THEN b[r][j] ELSE IF j = k THEN new ELSE b[r][j - 1]
      BY <1>11, <1>13, <2>1, <3>1
    <3>3. j # k => (IF j < k THEN j ELSE j - 1) \in 1 .. lr
      <4>1. k \in 1 .. lr /\ lr \in Nat
        BY <1>10, <1>11
      <4> QED BY <3>1, <4>1
    <3> QED BY <1>10, <1>11, <2>1, <3>1, <3>2, <3>3 DEF Was
  <2>2. CASE h = g
    <3>1. j \in 1 .. lg - 1 /\ DOMAIN b[g] = 1 .. lg
      <4>1. DOMAIN bg = 1 .. lg - 1
        BY <1>10, <1>12
      <4>2. DOMAIN b[g] = 1 .. lg
        BY <1>4, <1>10
      <4> QED BY <1>13, <2>2, <4>1, <4>2
    <3>2. b2[h][j] = IF j < d THEN b[g][j] ELSE b[g][j + 1]
      BY <1>12, <1>13, <2>2, <3>1
    <3>3. (IF j < d THEN j ELSE j + 1) \in 1 .. lg
      BY <1>10, <1>12, <3>1
    <3> QED BY <2>2, <3>1, <3>2, <3>3 DEF Was
  <2>3. CASE h # r /\ h # g
    BY <1>13, <2>3 DEF Was
  <2> QED BY <2>1, <2>2, <2>3
<1>15. \A h \in DOMAIN b2 : \A i, j \in DOMAIN b2[h] :
         i # j /\ ~ isNew(h, i) /\ ~ isNew(h, j) => was(h, i) # was(h, j)
  <2> SUFFICES ASSUME NEW h \in DOMAIN b, NEW i \in DOMAIN b2[h], NEW j \in DOMAIN b2[h],
                      i # j, ~ isNew(h, i), ~ isNew(h, j)
               PROVE  was(h, i) # was(h, j)
    BY <1>13
  <2>1. i \in Nat /\ j \in Nat
    <3>1. PICK T : T = Seq(S)
      OBVIOUS
    <3>2. b2 \in Seq(T) /\ h \in DOMAIN b2
      BY <1>13, <3>1
    <3>3. PICK q \in Seq(S) : q = b2[h]
      BY <3>1, <3>2
    <3>4. DOMAIN q \subseteq Nat
      <4>1. PICK l \in Nat : l = Len(q)
        BY <3>3, LenProperties
      <4>2. DOMAIN q = 1 .. l
        BY <3>3, <4>1, LenProperties
      <4> QED BY <4>2
    <3> QED BY <3>3, <3>4
  <2>2. k \in Nat /\ d \in Nat
    BY <1>10, <1>11, <1>12
  <2>3. CASE h = r
    <3>1. i # k /\ j # k
      BY <2>3
    <3>2. was(h, i) = (IF i < k THEN i ELSE i - 1) /\ was(h, j) = (IF j < k THEN j ELSE j - 1)
      BY <2>3 DEF Was
    <3> HIDE DEF was
    <3> QED BY <2>1, <2>2, <3>1, <3>2, ApartWithout
  <2>4. CASE h = g
    <3>1. was(h, i) = (IF i < d THEN i ELSE i + 1) /\ was(h, j) = (IF j < d THEN j ELSE j + 1)
      BY <2>4 DEF Was
    <3> HIDE DEF was
    <3> QED BY <2>1, <2>2, <3>1, ApartWith
  <2>5. CASE h # r /\ h # g
    BY <2>5 DEF Was
  <2> QED BY <2>3, <2>4, <2>5
<1>16. \A h \in DOMAIN b : \A j \in DOMAIN b[h] : ~ (h = g /\ j = d) =>
         \E i \in DOMAIN b2[h] : b2[h][i] = b[h][j]
  <2> SUFFICES ASSUME NEW h \in DOMAIN b, NEW j \in DOMAIN b[h], ~ (h = g /\ j = d)
               PROVE  \E i \in DOMAIN b2[h] : b2[h][i] = b[h][j]
    OBVIOUS
  <2>1. CASE h = r
    <3>1. j \in 1 .. lr
      BY <1>4, <1>10, <2>1
    <3> DEFINE i == IF j < k THEN j ELSE j + 1
    <3>2. i \in 1 .. lr + 1 /\ br[i] = b[r][j]
      <4>1. CASE j < k
        <5>1. i = j /\ j \in 1 .. lr + 1
          BY <1>10, <3>1, <4>1
        <5> QED BY <1>11, <4>1, <5>1
      <4>2. CASE ~ (j < k)
        <5>1. i = j + 1 /\ j + 1 \in 1 .. lr + 1 /\ ~ (j + 1 < k) /\ j + 1 # k /\ (j + 1) - 1 = j
          BY <1>10, <1>11, <3>1, <4>2
        <5>2. br[j + 1] = b[r][(j + 1) - 1]
          BY <1>11, <5>1
        <5>3. br[j + 1] = b[r][j]
          BY <5>1, <5>2
        <5> HIDE DEF i
        <5> QED BY <5>1, <5>3
      <4> QED BY <4>1, <4>2
    <3>3. DOMAIN br = 1 .. lr + 1
      BY <1>10, <1>11
    <3> QED BY <1>13, <2>1, <3>2, <3>3
  <2>2. CASE h = g
    <3>1. j \in 1 .. lg /\ j # d
      BY <1>4, <1>10, <2>2
    <3> DEFINE i == IF j < d THEN j ELSE j - 1
    <3>2. i \in 1 .. lg - 1 /\ bg[i] = b[g][j]
      <4>1. CASE j < d
        <5>1. i = j /\ j \in 1 .. lg - 1
          BY <1>10, <1>12, <3>1, <4>1
        <5> QED BY <1>12, <4>1, <5>1
      <4>2. CASE ~ (j < d)
        <5>1. j \in Int /\ d \in Int /\ d < j /\ 1 <= d /\ j <= lg
          BY <1>10, <1>12, <3>1, <4>2
        <5>2. i = j - 1 /\ j - 1 \in 1 .. lg - 1 /\ ~ (j - 1 < d) /\ (j - 1) + 1 = j
          BY <1>10, <4>2, <5>1
        <5>3. bg[j - 1] = b[g][(j - 1) + 1]
          BY <1>12, <5>2
        <5>4. bg[j - 1] = b[g][j]
          BY <5>2, <5>3
        <5> HIDE DEF i
        <5> QED BY <5>2, <5>4
      <4> QED BY <4>1, <4>2
    <3>3. DOMAIN bg = 1 .. lg - 1
      BY <1>10, <1>12
    <3> QED BY <1>13, <2>2, <3>2, <3>3
  <2>3. CASE h # r /\ h # g
    BY <1>13, <2>3
  <2> QED BY <2>1, <2>2, <2>3
<1> QED BY <1>13, <1>14, <1>15, <1>16 DEF Follows

(* A call of f is put into r, a clone that replaced its function, before   *)
(* its first call of f there; the new call has its first argument and r's  *)
(* second parameter.  A call of f in g, which r replaced, is erased.       *)
InClone(b, r, k, n, g, d) ==
  [b EXCEPT ![r] = InsertAt(@, k, [b[r][k] EXCEPT !.callee = n,
                                                  !.args = <<b[r][k].args[1], Param(2)>>]),
            ![g] = RemoveAt(@, d)]

LEMMA InsertKeeps ==
  ASSUME NEW o, NEW ps, NEW b, NEW add, NEW del, Given(o), ModuleInv(o, ps, b, add, del),
         NEW r \in add, NEW g \in DOMAIN b, g # r,
         NEW f \in First \ del,
         NEW k \in DOMAIN b[r], b[r][k].callee = f,
         NEW e \in DOMAIN b[g], b[g][e].callee = f, b[g][e].args[1].kind = "param",
         SameOrigin(b, g, r),
         NEW n \in DOMAIN ps \ First, n \notin add,
         IsCloneOf(ps, f, n),
         NEW d, d \in DOMAIN b[g], b[g][d].callee = f,
         Fits(ps[r], <<b[r][k].args[1], Param(2)>>, ps[n])
  PROVE  /\ ModuleInv(o, ps, InClone(b, r, k, n, g, d), add \cup {n}, del \cup {f})
         /\ Replaced(b, InClone(b, r, k, n, g, d), f, n)
<1>1. PICK c, new : /\ c = b[r][k]
                    /\ new = [c EXCEPT !.callee = n, !.args = <<c.args[1], Param(2)>>]
  OBVIOUS
<1>3. PICK b2 : b2 = [b EXCEPT ![r] = InsertAt(@, k, new), ![g] = RemoveAt(@, d)]
  OBVIOUS
<1>4. /\ b \in Seq(Seq(Call)) /\ r \in DOMAIN b /\ b[r] \in Seq(Call) /\ b[g] \in Seq(Call)
      /\ c \in Call
  <2>1. b \in Seq(Seq(Call)) /\ r \in DOMAIN b
    BY DEF ModuleInv, Shape
  <2>2. b[r] \in Seq(Call) /\ b[g] \in Seq(Call)
    BY <2>1
  <2> QED BY <1>1, <2>1, <2>2
<1>6. PICK x : x = c.args[1]
  OBVIOUS
<1>7. /\ Len(ps[f]) = 1 /\ LastIn(ps[n]) = 1
      /\ ps[n][1] \in Arrays
      /\ x.kind = "param" => x.k \in DOMAIN ps[r]
      /\ ArgType(ps[r], x) = ps[n][1]
  <2>1. Fits(ps[r], <<x, Param(2)>>, ps[n])
    BY <1>1, <1>6
  <2>2. ps[f] \in Seq(Types)
    <3>1. Shape(o, ps, b, add, del)
      BY DEF ModuleInv
    <3> QED BY <3>1, FirstHasParams
  <2> QED BY <2>1, <2>2, TwoArgsFit
<1>8. x \in Argument /\ Param(2) \in Argument
  <2>1. c.args \in Seq(Argument) /\ c.args # <<>>
    <3>1. c.args \in Seq(Argument)
      BY <1>4 DEF Call
    <3>2. Fits(ps[r], c.args, ps[f])
      BY <1>1, <1>4 DEF ModuleInv, Fitting
    <3>3. Len(c.args) = 1
      BY <1>7, <3>2 DEF Fits
    <3>4. c.args = <<>> => Len(c.args) = 0
      BY EmptySeq
    <3> QED BY <3>1, <3>3, <3>4
  <2>2. x \in Argument
    BY <1>6, <2>1
  <2> QED BY <2>2 DEF Argument, Param
<1>9. /\ new.callee = n /\ new.args = <<x, Param(2)>> /\ new.site = c.site
      /\ new \in Call
  <2>1. n \in Nat
    BY DEF ModuleInv, Shape
  <2>2. <<x, Param(2)>> \in Seq(Argument)
    BY <1>8
  <2> QED BY <1>1, <1>4, <1>6, <2>1, <2>2 DEF Call
<1>10. /\ b2 \in Seq(Seq(Call)) /\ Len(b2) = Len(b) /\ DOMAIN b2 = DOMAIN b
       /\ \A h \in DOMAIN b2 : \A j \in DOMAIN b2[h] :
            IF h = r /\ j = k THEN b2[h][j] = new
            ELSE Was(r, k, g, d, h, j) \in DOMAIN b[h]
                 /\ b2[h][j] = b[h][Was(r, k, g, d, h, j)]
       /\ \A h \in DOMAIN b2 : \A i, j \in DOMAIN b2[h] :
            i # j /\ ~ (h = r /\ i = k) /\ ~ (h = r /\ j = k) =>
              Was(r, k, g, d, h, i) # Was(r, k, g, d, h, j)
       /\ \A h \in DOMAIN b : \A j \in DOMAIN b[h] : ~ (h = g /\ j = d) =>
            \E i \in DOMAIN b2[h] : b2[h][i] = b[h][j]
  <2>1. new \in Call
    BY <1>9

  <2>2. Moved(b, b2, r, k, new, g, d)
    BY <1>3 DEF Moved
  <2>3. b2 \in Seq(Seq(Call)) /\ Follows(b, b2, r, k, new, g, d)
    BY <1>4, <2>1, <2>2, InsertedRemoved
  <2> QED BY <2>3 DEF Follows
<1> DEFINE was(h, j) == Was(r, k, g, d, h, j)
           isNew(h, j) == h = r /\ j = k
<1>17. PICK add2, del2 : add2 = add \cup {n} /\ del2 = del \cup {f}
  OBVIOUS
<1>18. \A h \in DOMAIN b : \A j \in DOMAIN b[h] : b[h][j].callee # n
  BY DEF ModuleInv, AllStand, Stands
<1>19. Shape(o, ps, b2, add2, del2)
  BY <1>10, <1>17 DEF ModuleInv, Shape
<1>20. Fitting(ps, b2)
  <2> SUFFICES ASSUME NEW h \in DOMAIN b2, NEW j \in DOMAIN b2[h]
               PROVE  /\ b2[h][j].callee \in DOMAIN ps
                      /\ Fits(ps[h], b2[h][j].args, ps[b2[h][j].callee])
    BY DEF Fitting
  <2>1. CASE isNew(h, j)
    <3>1. b2[h][j] = new /\ h = r
      BY <1>10, <2>1
    <3> QED BY <1>1, <1>6, <1>9, <3>1
  <2>2. CASE ~ isNew(h, j)
    <3>1. was(h, j) \in DOMAIN b[h] /\ b2[h][j] = b[h][was(h, j)] /\ h \in DOMAIN b
      BY <1>10, <2>2
    <3> QED BY <3>1 DEF ModuleInv, Fitting
  <2> QED BY <2>1, <2>2
<1>21. AllStand(o, b2, add2, del2)
  <2> SUFFICES ASSUME NEW h \in DOMAIN b2, NEW j \in DOMAIN b2[h]
               PROVE  Stands(o, add2, del2, b2[h][j])
    BY DEF AllStand
  <2>1. CASE isNew(h, j)
    <3>1. b2[h][j] = new /\ n \in add2 /\ n \notin First
      BY <1>10, <1>17, <2>1
    <3>2. Stands(o, add, del, c)
      BY <1>1, <1>4 DEF ModuleInv, AllStand
    <3> QED BY <1>9, <3>1, <3>2 DEF Stands
  <2>2. CASE ~ isNew(h, j)
    <3>1. was(h, j) \in DOMAIN b[h] /\ b2[h][j] = b[h][was(h, j)] /\ h \in DOMAIN b
      BY <1>10, <2>2
    <3>2. Stands(o, add, del, b[h][was(h, j)])
      BY <3>1 DEF ModuleInv, AllStand
    <3> QED BY <1>17, <3>1, <3>2 DEF Stands
  <2> QED BY <2>1, <2>2
(* The site of a call of b2 is that of a call of b in the same function.   *)
<1>22. \A h \in DOMAIN b2 : \A j \in DOMAIN b2[h] :
         \E i \in DOMAIN b[h] : b2[h][j].site = b[h][i].site
  <2> SUFFICES ASSUME NEW h \in DOMAIN b2, NEW j \in DOMAIN b2[h]
               PROVE  \E i \in DOMAIN b[h] : b2[h][j].site = b[h][i].site
    OBVIOUS
  <2>1. CASE isNew(h, j)
    <3>1. b2[h][j] = new /\ h = r
      BY <1>10, <2>1
    <3> QED BY <1>1, <1>9, <3>1
  <2>2. CASE ~ isNew(h, j)
    <3>1. was(h, j) \in DOMAIN b[h] /\ b2[h][j] = b[h][was(h, j)]
      BY <1>10, <2>2
    <3> HIDE DEF was
    <3> QED BY <3>1
  <2> QED BY <2>1, <2>2
<1>23. OneOrigin(b2)
  <2> SUFFICES ASSUME NEW h \in DOMAIN b2, NEW i \in DOMAIN b2[h], NEW j \in DOMAIN b2[h]
               PROVE  b2[h][i].site[1] = b2[h][j].site[1]
    BY DEF OneOrigin, SameOrigin
  <2>1. PICK i0 \in DOMAIN b[h], j0 \in DOMAIN b[h] :
          b2[h][i].site = b[h][i0].site /\ b2[h][j].site = b[h][j0].site
    BY <1>22
  <2>2. b[h][i0].site[1] = b[h][j0].site[1]
    BY <1>10 DEF ModuleInv, OneOrigin, SameOrigin
  <2> QED BY <2>1, <2>2
<1>24. StillCalled(o, b2, del2)
  <2>1. \A z \in First \ del2 : \A h \in DOMAIN b : Calls(b, h, z) => Calls(b2, h, z)
    <3> SUFFICES ASSUME NEW z \in First \ del2, NEW h \in DOMAIN b, NEW j \in DOMAIN b[h],
                        b[h][j].callee = z
                 PROVE  \E i \in DOMAIN b2[h] : b2[h][i].callee = z
      BY DEF Calls
    <3>1. ~ (h = g /\ j = d)
      BY <1>17
    <3> QED BY <1>10, <3>1
  <2>2. StillCalled(o, b, del)
    BY DEF ModuleInv
  <2> QED BY <1>10, <1>17, <2>1, <2>2 DEF StillCalled
(* The call found is the one calcArgs looked at, or another of f that the   *)
(* same function made.                                                     *)
<1>25. x.kind = "param" \/ Again(o, c.site)
  <2> SUFFICES ASSUME x.kind # "param" PROVE Again(o, c.site)
    OBVIOUS
  <2>1. PICK q : q = b[g][e]
    OBVIOUS
  <2>2. Stands(o, add, del, q) /\ Stands(o, add, del, c)
    BY <1>1, <1>4, <2>1 DEF ModuleInv, AllStand
  <2>3. q.callee = f /\ c.callee = f /\ q # c
    BY <1>1, <1>6, <2>1
  <2>4. /\ q.site[2] \in DOMAIN o.body[q.site[1]] /\ q = o.body[q.site[1]][q.site[2]]
        /\ c.site[2] \in DOMAIN o.body[c.site[1]] /\ c = o.body[c.site[1]][c.site[2]]
    BY <2>2, <2>3 DEF Stands
  <2>5. q.site[1] = c.site[1]
    BY <1>1, <2>1 DEF SameOrigin
  <2>6. q.site[2] # c.site[2]
    BY <2>3, <2>4, <2>5
  <2> QED BY <2>3, <2>4, <2>5, <2>6 DEF Again
<1>26. Sized(o, ps, add2, r, new)
  <2> SUFFICES ASSUME LastIn(ps[r]) = 1, ~ Again(o, c.site)
               PROVE  OwnSize(ps, add2, r, new)
    <3>1. Last(new.args) = Param(2)
      BY <1>9 DEF Last
    <3> QED BY <1>9, <1>17, <3>1 DEF Sized
  <2>1. x.kind = "param"
    BY <1>25
  <2>2. x = Param(x.k)
    BY <1>8, <2>1 DEF Argument, Param
  <2>3. x.k \in DOMAIN ps[r] /\ ps[r][x.k] \in Arrays
    BY <1>7, <2>1 DEF ArgType
  <2>4. x.k = 1
    <3>1. ps[r] \in Seq(Types)
      BY DEF ModuleInv, Shape
    <3>2. x.k <= 1 /\ x.k \in Nat \ {0}
      BY <2>3, <3>1, LastInIs
    <3> QED BY <3>2
  <2>5. /\ new.args[LastIn(ps[new.callee])] = Param(LastIn(ps[r]))
        /\ Last(new.args) = Param(LastIn(ps[r]) + 1)
    BY <1>7, <1>9, <2>2, <2>4 DEF Last
  <2> QED BY <1>17, <2>5 DEF OwnSize
<1>27. AllSized(o, ps, b2, add2)
  <2> SUFFICES ASSUME NEW h \in DOMAIN b2, NEW j \in DOMAIN b2[h]
               PROVE  /\ Sized(o, ps, add2, h, b2[h][j])
                      /\ \A i \in DOMAIN b2[h] \ {j} :
                           b2[h][i].site = b2[h][j].site => Passed(o, add2, h, b2[h][j])
    BY DEF AllSized
  <2>1. CASE isNew(h, j)
    <3>1. b2[h][j] = new /\ h = r
      BY <1>10, <2>1
    <3>2. Passed(o, add2, r, new)
      BY <1>9, <1>17, <1>25 DEF Passed
    <3> QED BY <1>26, <3>1, <3>2
  <2>2. CASE ~ isNew(h, j)
    <3>1. PICK w, y : w = was(h, j) /\ y = b2[h][j]
      OBVIOUS
    <3>2. h \in DOMAIN b /\ w \in DOMAIN b[h] /\ y = b[h][w]
      BY <1>10, <2>2, <3>1
    <3>3. /\ Sized(o, ps, add, h, y)
          /\ \A i \in DOMAIN b[h] \ {w} : b[h][i].site = y.site => Passed(o, add, h, y)
      BY <3>2 DEF ModuleInv, AllSized
    <3>4. y.callee # n
      BY <1>18, <3>2
    <3>5. OwnSize(ps, add, h, y) => OwnSize(ps, add2, h, y)
      BY <1>17 DEF OwnSize
    <3>6. Sized(o, ps, add2, h, y)
      BY <1>17, <3>3, <3>4, <3>5 DEF Sized
    <3>7. Passed(o, add, h, y) => Passed(o, add2, h, y)
      BY <1>17 DEF Passed
    <3>8. ASSUME NEW i \in DOMAIN b2[h] \ {j}, b2[h][i].site = y.site
          PROVE  Passed(o, add2, h, y)
      <4>1. CASE ~ isNew(h, i)
        <5>1. PICK v : v = was(h, i)
          OBVIOUS
        <5>2. v \in DOMAIN b[h] /\ b2[h][i] = b[h][v] /\ v # w
          BY <1>10, <2>2, <3>1, <4>1, <5>1
        <5> QED BY <3>3, <3>7, <3>8, <5>2
      <4>2. CASE isNew(h, i)
        <5>1. h = r /\ y.site = c.site
          BY <1>9, <1>10, <3>8, <4>2
        <5>2. CASE w = k
          <6>1. y = c
            BY <1>1, <3>2, <5>1, <5>2
          <6> QED BY <1>6, <1>17, <1>25, <5>1, <6>1 DEF Passed
        <5>3. CASE w # k
          BY <1>1, <3>3, <3>7, <5>1, <5>3
        <5> QED BY <5>2, <5>3
      <4> QED BY <4>1, <4>2
    <3> QED BY <3>1, <3>6, <3>8
  <2> QED BY <2>1, <2>2
<1>28. ModuleInv(o, ps, b2, add2, del2)
  BY <1>19, <1>20, <1>21, <1>23, <1>24, <1>27 DEF ModuleInv
<1>29. Replaced(b, b2, f, n)
  <2>1. \A h \in DOMAIN b : \A i \in DOMAIN b[h] : b[h][i].callee # f =>
          \E j \in DOMAIN b2[h] : b2[h][j] = b[h][i]
    <3> SUFFICES ASSUME NEW h \in DOMAIN b, NEW i \in DOMAIN b[h], b[h][i].callee # f
                 PROVE  \E j \in DOMAIN b2[h] : b2[h][j] = b[h][i]
      OBVIOUS
    <3>1. ~ (h = g /\ i = d)
      OBVIOUS
    <3> QED BY <1>10, <3>1
  <2>2. \A h \in DOMAIN b : \A z : z # n /\ Calls(b2, h, z) => Calls(b, h, z)
    <3> SUFFICES ASSUME NEW h \in DOMAIN b, NEW z, z # n, NEW j \in DOMAIN b2[h],
                        b2[h][j].callee = z
                 PROVE  Calls(b, h, z)
      BY DEF Calls
    <3>1. ~ isNew(h, j)
      BY <1>9, <1>10
    <3>2. was(h, j) \in DOMAIN b[h] /\ b2[h][j] = b[h][was(h, j)]
      BY <1>10, <3>1
    <3> QED BY <3>2 DEF Calls
  <2> QED BY <1>10, <1>22, <2>1, <2>2 DEF Replaced
<1>30. b2 = InClone(b, r, k, n, g, d)
  BY <1>1, <1>3 DEF InClone
<1> QED BY <1>17, <1>28, <1>29, <1>30

----------------------------------------------------------------------------
(* The running calls of calcArgs                                           *)

FrameSet == [f : Nat, param : Nat, newFunc : Nat, call : {<<>>} \cup (Nat \X (Nat \X Nat))]

(* A frame with a clone: the function is not replaced yet, the clone not   *)
(* called; whatever the function calls and is not replaced, the clone calls *)
(* as well.  So calcArgs, which takes the callers that are clones first,    *)
(* never comes to a function it is working on.                             *)
Covers(b, del, f, n) == \A z \in First \ del : Calls(b, f, z) => Calls(b, n, z)
Cloned(ps, b, add, del, F) ==
  /\ F.newFunc \in DOMAIN ps \ (First \cup add)
  /\ F.f \in DOMAIN ps /\ F.f < F.newFunc
  /\ F.f # Main /\ F.f \notin add /\ F.f \notin del
  /\ IsCloneOf(ps, F.f, F.newFunc)
  /\ Covers(b, del, F.f, F.newFunc)
  /\ SameOrigin(b, F.f, F.newFunc)

(* The parameters looked at so far are no arrays.                          *)
Scanned(ps, F) ==
  F.param # 0 /\ \A k \in DOMAIN ps[F.f] : k < F.param => ps[F.f][k] \notin Arrays

(* The frame waits for g, which calls its function with a parameter.       *)
WaitsFor(b, F, g) ==
  /\ F.call # <<>> /\ F.call[1] = g
  /\ \E k \in DOMAIN b[g] : /\ b[g][k].callee = F.f /\ b[g][k].site = F.call[2]
                            /\ b[g][k].args[1].kind = "param"

Below(ps, b, add, del, fs) ==
  \A i \in 1 .. Len(fs) - 1 :
    fs[i].newFunc # Null /\ Cloned(ps, b, add, del, fs[i]) /\ WaitsFor(b, fs[i], fs[i + 1].f)
Ordered(fs) ==
  \A i \in DOMAIN fs : \A j \in 1 .. i - 1 :
    fs[j].f # fs[i].f /\ (fs[i].newFunc # Null => fs[j].newFunc < fs[i].newFunc)
TopOk(ps, b, add, del, p, F) ==
  IF F.newFunc = Null THEN p = "calcArgs" /\ Scanned(ps, F) ELSE Cloned(ps, b, add, del, F)

(* The frame at the top is changed.                                        *)
WithTop(fs, F) == Append(Front(fs), F)
TopIs(fs, F, fs2) ==
  /\ fs2 \in Seq(FrameSet) /\ fs2 # <<>> /\ Len(fs2) = Len(fs) /\ Last(fs2) = F
  /\ fs2[Len(fs)] = F
  /\ \A i \in 1 .. Len(fs) - 1 : fs2[i] = fs[i]

LEMMA TopSet ==
  ASSUME NEW fs \in Seq(FrameSet), fs # <<>>, NEW F \in FrameSet,
         NEW fs2, fs2 = WithTop(fs, F)
  PROVE  TopIs(fs, F, fs2)
<1>1. PICK n \in Nat \ {0} : n = Len(fs)
  BY FrontIs
<1>2. PICK r : r = Front(fs)
  OBVIOUS
<1>3. r \in Seq(FrameSet) /\ Len(r) = n - 1 /\ \A i \in 1 .. n - 1 : r[i] = fs[i]
  BY <1>1, <1>2, FrontIs
<1>4. /\ fs2 \in Seq(FrameSet) /\ Len(fs2) = n /\ fs2[n] = F
      /\ \A i \in 1 .. n - 1 : fs2[i] = r[i]
  BY <1>1, <1>2, <1>3, AppendProperties DEF WithTop
<1>5. fs2 # <<>> /\ Last(fs2) = F
  BY <1>1, <1>4 DEF Last
<1> QED BY <1>1, <1>3, <1>4, <1>5 DEF TopIs

Follow(fs, F) ==
  \/ F.newFunc = Last(fs).newFunc
  \/ \A j \in 1 .. Len(fs) - 1 : fs[j].newFunc < F.newFunc

LEMMA TopChanged ==
  ASSUME NEW ps, NEW b, NEW add, NEW del,
         NEW fs \in Seq(FrameSet), fs # <<>>, NEW F \in FrameSet,
         NEW fs2, fs2 = WithTop(fs, F),
         Below(ps, b, add, del, fs), Ordered(fs), F.f = Last(fs).f, Follow(fs, F)
  PROVE  /\ Below(ps, b, add, del, fs2) /\ Ordered(fs2)
         /\ fs2[1].f = fs[1].f
<1>1. PICK n \in Nat \ {0} : n = Len(fs) /\ Last(fs) = fs[n]
  BY FrontIs
<1>2. /\ fs2 \in Seq(FrameSet) /\ Len(fs2) = n /\ fs2[n] = F
      /\ \A i \in 1 .. n - 1 : fs2[i] = fs[i]
  <2>1. TopIs(fs, F, fs2)
    BY TopSet
  <2> QED BY <1>1, <2>1 DEF TopIs
<1>3. \A i \in 1 .. n : fs2[i].f = fs[i].f
  BY <1>1, <1>2
<1>4. Below(ps, b, add, del, fs2)
  <2> SUFFICES ASSUME NEW i \in 1 .. n - 1
               PROVE  /\ fs2[i].newFunc # Null /\ Cloned(ps, b, add, del, fs2[i])
                      /\ WaitsFor(b, fs2[i], fs2[i + 1].f)
    BY <1>2 DEF Below
  <2>1. fs[i].newFunc # Null /\ Cloned(ps, b, add, del, fs[i]) /\ WaitsFor(b, fs[i], fs[i + 1].f)
    BY <1>1 DEF Below
  <2>2. fs2[i] = fs[i] /\ fs2[i + 1].f = fs[i + 1].f
    BY <1>1, <1>2, <1>3
  <2> QED BY <2>1, <2>2
<1>5. DOMAIN fs = 1 .. n /\ DOMAIN fs2 = 1 .. n
  BY <1>1, <1>2
<1>6. Ordered(fs2)
  <2> SUFFICES ASSUME NEW i \in 1 .. n, NEW j \in 1 .. i - 1
               PROVE  fs2[j].f # fs2[i].f
                      /\ (fs2[i].newFunc # Null => fs2[j].newFunc < fs2[i].newFunc)
    BY <1>5 DEF Ordered
  <2>1. j \in 1 .. n - 1 /\ fs2[j] = fs[j]
    BY <1>1, <1>2
  <2>2. /\ fs[j].f # fs[i].f
        /\ fs[i].newFunc # Null => fs[j].newFunc < fs[i].newFunc
    BY <1>5 DEF Ordered
  <2>3. CASE i = n
    BY <1>1, <1>2, <1>3, <2>1, <2>2, <2>3 DEF Follow
  <2>4. CASE i # n
    <3>1. fs2[i] = fs[i]
      BY <1>1, <1>2, <2>4
    <3> QED BY <2>1, <2>2, <3>1
  <2> QED BY <2>3, <2>4
<1> QED BY <1>1, <1>3, <1>4, <1>6

(* A call of calcArgs for g is started, which the frame at the top waits for. *)
PushedIs(ps, b, add, del, fs, G, fs2) ==
  /\ fs2 \in Seq(FrameSet) /\ fs2 # <<>> /\ Last(fs2) = G
  /\ Len(fs2) = Len(fs) + 1
  /\ fs2[1].f = fs[1].f /\ fs2[1].newFunc = fs[1].newFunc
  /\ \A i \in 1 .. Len(fs) : fs2[i].f = fs[i].f
  /\ Below(ps, b, add, del, fs2) /\ Ordered(fs2)

LEMMA Pushed ==
  ASSUME NEW ps, NEW b, NEW add, NEW del,
         NEW fs \in Seq(FrameSet), fs # <<>>, NEW F \in FrameSet, NEW G \in FrameSet,
         NEW fs2, fs2 = Append(WithTop(fs, F), G),
         Below(ps, b, add, del, fs), Ordered(fs),
         F.f = Last(fs).f, F.newFunc = Last(fs).newFunc, F.newFunc # Null,
         Cloned(ps, b, add, del, F), WaitsFor(b, F, G.f),
         G.newFunc = Null, \A i \in DOMAIN fs : fs[i].f # G.f
  PROVE  PushedIs(ps, b, add, del, fs, G, fs2)
<1>1. PICK n \in Nat \ {0} : n = Len(fs) /\ Last(fs) = fs[n]
  BY FrontIs
<1>2. PICK r : r = WithTop(fs, F)
  OBVIOUS
<1>3. /\ r \in Seq(FrameSet) /\ Len(r) = n /\ r[n] = F /\ Last(r) = F
      /\ \A i \in 1 .. n - 1 : r[i] = fs[i]
  <2>1. TopIs(fs, F, r)
    BY <1>2, TopSet
  <2> QED BY <1>1, <2>1 DEF TopIs
<1>4. Below(ps, b, add, del, r) /\ Ordered(r) /\ r[1].f = fs[1].f
  BY <1>2, TopChanged DEF Follow
<1>5. /\ fs2 \in Seq(FrameSet) /\ Len(fs2) = n + 1 /\ fs2[n + 1] = G
      /\ \A i \in 1 .. n : fs2[i] = r[i]
  BY <1>1, <1>2, <1>3, AppendProperties
<1>6. fs2 # <<>> /\ Last(fs2) = G
  BY <1>1, <1>5 DEF Last
<1>7. \A i \in 1 .. n : r[i].f = fs[i].f /\ r[i].newFunc = fs[i].newFunc
  <2>1. \A i \in 1 .. n : i # n => i \in 1 .. n - 1
    BY <1>1
  <2>2. r[n].f = fs[n].f /\ r[n].newFunc = fs[n].newFunc
    BY <1>1, <1>3
  <2> QED BY <1>3, <2>1, <2>2
<1>8. DOMAIN fs2 = 1 .. n + 1 /\ DOMAIN fs = 1 .. n /\ DOMAIN r = 1 .. n
  BY <1>1, <1>3, <1>5
<1>9. Below(ps, b, add, del, fs2)
  <2> SUFFICES ASSUME NEW i \in 1 .. n
               PROVE  /\ fs2[i].newFunc # Null /\ Cloned(ps, b, add, del, fs2[i])
                      /\ WaitsFor(b, fs2[i], fs2[i + 1].f)
    BY <1>1, <1>5 DEF Below
  <2>1. CASE i = n
    <3>1. fs2[i] = F /\ fs2[i + 1] = G
      BY <1>1, <1>3, <1>5, <2>1
    <3> QED BY <3>1
  <2>2. CASE i # n
    <3>1. i \in 1 .. n - 1 /\ i + 1 \in 1 .. n
      BY <1>1, <2>2
    <3>2. fs2[i] = r[i] /\ fs2[i + 1] = r[i + 1]
      BY <1>5, <3>1
    <3>3. r[i].newFunc # Null /\ Cloned(ps, b, add, del, r[i]) /\ WaitsFor(b, r[i], r[i + 1].f)
      BY <1>3, <1>4, <3>1 DEF Below
    <3> QED BY <3>2, <3>3
  <2> QED BY <2>1, <2>2
<1>10. Ordered(fs2)
  <2> SUFFICES ASSUME NEW i \in 1 .. n + 1, NEW j \in 1 .. i - 1
               PROVE  fs2[j].f # fs2[i].f
                      /\ (fs2[i].newFunc # Null => fs2[j].newFunc < fs2[i].newFunc)
    BY <1>8 DEF Ordered
  <2>1. j \in 1 .. n /\ fs2[j] = r[j] /\ r[j].f = fs[j].f
    BY <1>1, <1>5, <1>7
  <2>2. CASE i = n + 1
    BY <1>5, <1>8, <2>1, <2>2
  <2>3. CASE i # n + 1
    <3>1. i \in 1 .. n /\ fs2[i] = r[i]
      BY <1>5, <2>3
    <3>2. r[j].f # r[i].f /\ (r[i].newFunc # Null => r[j].newFunc < r[i].newFunc)
      BY <1>4, <1>8, <3>1 DEF Ordered
    <3> QED BY <2>1, <3>1, <3>2
  <2> QED BY <2>2, <2>3
<1>11. fs2[1].f = fs[1].f /\ fs2[1].newFunc = fs[1].newFunc
  BY <1>1, <1>5, <1>7
<1>12. \A i \in 1 .. n : fs2[i].f = fs[i].f
  BY <1>5, <1>7
<1> QED BY <1>1, <1>5, <1>6, <1>9, <1>10, <1>11, <1>12 DEF PushedIs

(* A call of calcArgs ends, and the one below it goes on.                  *)
PoppedIs(ps, b, add, del, fs, fs2) ==
  /\ fs2 \in Seq(FrameSet) /\ fs2 # <<>>
  /\ Len(fs2) = Len(fs) - 1
  /\ \A i \in 1 .. Len(fs) - 1 : fs2[i] = fs[i]
  /\ fs2[1] = fs[1] /\ Last(fs2) = fs[Len(fs) - 1]
  /\ Below(ps, b, add, del, fs2) /\ Ordered(fs2)
  /\ Last(fs2).newFunc # Null /\ Cloned(ps, b, add, del, Last(fs2))
  /\ WaitsFor(b, Last(fs2), Last(fs).f)
  /\ Last(fs2).f # Last(fs).f
  /\ Last(fs).newFunc # Null => Last(fs2).newFunc < Last(fs).newFunc

LEMMA Popped ==
  ASSUME NEW ps, NEW b, NEW add, NEW del,
         NEW fs \in Seq(FrameSet), fs # <<>>, Len(fs) # 1,
         NEW fs2, fs2 = Front(fs), Below(ps, b, add, del, fs), Ordered(fs)
  PROVE  PoppedIs(ps, b, add, del, fs, fs2)
<1>1. PICK n \in Nat \ {0} : n = Len(fs) /\ Last(fs) = fs[n] /\ n # 1
  BY FrontIs
<1>2. /\ fs2 \in Seq(FrameSet) /\ Len(fs2) = n - 1
      /\ \A i \in 1 .. n - 1 : fs2[i] = fs[i]
  BY <1>1, FrontIs
<1>3. fs2 # <<>> /\ Last(fs2) = fs2[n - 1] /\ fs2[n - 1] = fs[n - 1] /\ fs2[1] = fs[1]
  BY <1>1, <1>2 DEF Last
<1>4. DOMAIN fs = 1 .. n /\ DOMAIN fs2 = 1 .. n - 1
  BY <1>1, <1>2
<1>5. Below(ps, b, add, del, fs2)
  <2> SUFFICES ASSUME NEW i \in 1 .. (n - 1) - 1
               PROVE  /\ fs2[i].newFunc # Null /\ Cloned(ps, b, add, del, fs2[i])
                      /\ WaitsFor(b, fs2[i], fs2[i + 1].f)
    BY <1>2 DEF Below
  <2>1. i \in 1 .. n - 1 /\ i + 1 \in 1 .. n - 1
    BY <1>1
  <2>2. fs2[i] = fs[i] /\ fs2[i + 1] = fs[i + 1]
    BY <1>2, <2>1
  <2>3. fs[i].newFunc # Null /\ Cloned(ps, b, add, del, fs[i]) /\ WaitsFor(b, fs[i], fs[i + 1].f)
    BY <1>1, <2>1 DEF Below
  <2> QED BY <2>2, <2>3
<1>6. Ordered(fs2)
  <2> SUFFICES ASSUME NEW i \in 1 .. n - 1, NEW j \in 1 .. i - 1
               PROVE  fs2[j].f # fs2[i].f
                      /\ (fs2[i].newFunc # Null => fs2[j].newFunc < fs2[i].newFunc)
    BY <1>4 DEF Ordered
  <2>1. i \in 1 .. n /\ j \in 1 .. n - 1 /\ fs2[i] = fs[i] /\ fs2[j] = fs[j]
    BY <1>1, <1>2
  <2> QED BY <1>4, <2>1 DEF Ordered
<1>7. n - 1 \in 1 .. n - 1 /\ (n - 1) + 1 = n /\ n \in 1 .. n
  BY <1>1
<1>8. /\ fs[n - 1].newFunc # Null /\ Cloned(ps, b, add, del, fs[n - 1])
      /\ WaitsFor(b, fs[n - 1], fs[n].f)
  <2>1. /\ fs[n - 1].newFunc # Null /\ Cloned(ps, b, add, del, fs[n - 1])
        /\ WaitsFor(b, fs[n - 1], fs[(n - 1) + 1].f)
    BY <1>1, <1>7 DEF Below
  <2> QED BY <1>7, <2>1
<1>9. /\ fs[n - 1].f # fs[n].f
      /\ fs[n].newFunc # Null => fs[n - 1].newFunc < fs[n].newFunc
  BY <1>4, <1>7 DEF Ordered
<1> QED BY <1>1, <1>2, <1>3, <1>5, <1>6, <1>8, <1>9 DEF PoppedIs

(* A new clone changes nothing for the running calls.                      *)
Extends(s, t) == \A h \in DOMAIN s : h \in DOMAIN t /\ t[h] = s[h]

LEMMA ClonedLonger ==
  ASSUME NEW ps, NEW b, NEW ps2, NEW b2, NEW add, NEW del, NEW F,
         DOMAIN b = DOMAIN ps, Extends(ps, ps2), Extends(b, b2),
         Cloned(ps, b, add, del, F)
  PROVE  Cloned(ps2, b2, add, del, F)
<1>1. PICK f, n : f = F.f /\ n = F.newFunc
  OBVIOUS
<1>2. f \in DOMAIN ps /\ n \in DOMAIN ps
  BY <1>1 DEF Cloned
<1>3. /\ f \in DOMAIN ps2 /\ n \in DOMAIN ps2 /\ ps2[f] = ps[f] /\ ps2[n] = ps[n]
      /\ b2[f] = b[f] /\ b2[n] = b[n]
  BY <1>2 DEF Extends
<1>4. IsCloneOf(ps2, f, n)
  BY <1>1, <1>3 DEF Cloned, IsCloneOf
<1>5. Covers(b2, del, f, n) /\ SameOrigin(b2, f, n)
  BY <1>1, <1>3 DEF Cloned, Covers, Calls, SameOrigin
<1> QED BY <1>1, <1>3, <1>4, <1>5 DEF Cloned

LEMMA WaitsLonger ==
  ASSUME NEW b, NEW b2, NEW F, NEW g \in DOMAIN b, Extends(b, b2), WaitsFor(b, F, g)
  PROVE  WaitsFor(b2, F, g)
BY DEF Extends, WaitsFor

LEMMA BelowLonger ==
  ASSUME NEW ps, NEW b, NEW ps2, NEW b2, NEW add, NEW del, NEW fs \in Seq(FrameSet),
         DOMAIN b = DOMAIN ps, Extends(ps, ps2), Extends(b, b2),
         \A i \in DOMAIN fs : fs[i].f \in DOMAIN ps,
         Below(ps, b, add, del, fs)
  PROVE  Below(ps2, b2, add, del, fs)
<1> SUFFICES ASSUME NEW i \in 1 .. Len(fs) - 1
             PROVE  /\ fs[i].newFunc # Null /\ Cloned(ps2, b2, add, del, fs[i])
                    /\ WaitsFor(b2, fs[i], fs[i + 1].f)
  BY DEF Below
<1>1. /\ fs[i].newFunc # Null /\ Cloned(ps, b, add, del, fs[i])
      /\ WaitsFor(b, fs[i], fs[i + 1].f)
  BY DEF Below
<1>2. i + 1 \in DOMAIN fs
  OBVIOUS
<1>3. fs[i + 1].f \in DOMAIN b
  BY <1>2
<1> QED BY <1>1, <1>3, ClonedLonger, WaitsLonger

LEMMA OriginKept ==
  ASSUME NEW b, NEW b2, NEW f, NEW n, Replaced(b, b2, f, n),
         NEW g \in DOMAIN b, NEW h \in DOMAIN b, SameOrigin(b, g, h)
  PROVE  SameOrigin(b2, g, h)
<1> SUFFICES ASSUME NEW j \in DOMAIN b2[g], NEW k \in DOMAIN b2[h]
             PROVE  b2[g][j].site[1] = b2[h][k].site[1]
  BY DEF SameOrigin
<1>1. PICK i \in DOMAIN b[g] : b2[g][j].site = b[g][i].site
  BY DEF Replaced
<1>2. PICK l \in DOMAIN b[h] : b2[h][k].site = b[h][l].site
  BY DEF Replaced
<1>3. b[g][i].site[1] = b[h][l].site[1]
  BY DEF SameOrigin
<1> QED BY <1>1, <1>2, <1>3

LEMMA CallsKept ==
  ASSUME NEW b, NEW b2, NEW f, NEW n, Replaced(b, b2, f, n), NEW h \in DOMAIN b, NEW z, z # f,
         Calls(b, h, z)
  PROVE  Calls(b2, h, z)
BY DEF Replaced, Calls

LEMMA ClonedKept ==
  ASSUME NEW ps, NEW b, NEW b2, NEW add, NEW del, NEW F, NEW f, NEW n,
         DOMAIN b = DOMAIN ps, Replaced(b, b2, f, n), n \notin First,
         Cloned(ps, b, add, del, F), F.f # f, F.f # n, F.newFunc # n
  PROVE  Cloned(ps, b2, add \cup {n}, del \cup {f}, F)
<1>1. PICK g, m : g = F.f /\ m = F.newFunc
  OBVIOUS
<1>2. g \in DOMAIN b /\ m \in DOMAIN b
  BY <1>1 DEF Cloned
<1>3. SameOrigin(b2, g, m)
  BY <1>1, <1>2, OriginKept DEF Cloned
<1>4. Covers(b2, del \cup {f}, g, m)
  <2> SUFFICES ASSUME NEW z \in First \ (del \cup {f}), Calls(b2, g, z) PROVE Calls(b2, m, z)
    BY DEF Covers
  <2>1. z # n /\ z # f
    OBVIOUS
  <2>2. Calls(b, g, z)
    BY <1>2, <2>1 DEF Replaced
  <2>3. Calls(b, m, z)
    BY <1>1, <2>2 DEF Cloned, Covers
  <2> QED BY <1>2, <2>1, <2>3, CallsKept
<1> QED BY <1>1, <1>3, <1>4 DEF Cloned

LEMMA WaitsKept ==
  ASSUME NEW b, NEW b2, NEW F, NEW f, NEW n, Replaced(b, b2, f, n), NEW g \in DOMAIN b,
         F.f # f, WaitsFor(b, F, g)
  PROVE  WaitsFor(b2, F, g)
<1>1. PICK k \in DOMAIN b[g] : /\ b[g][k].callee = F.f /\ b[g][k].site = F.call[2]
                               /\ b[g][k].args[1].kind = "param"
  BY DEF WaitsFor
<1>2. PICK j \in DOMAIN b2[g] : b2[g][j] = b[g][k]
  BY <1>1 DEF Replaced
<1> QED BY <1>1, <1>2 DEF WaitsFor

(* The running calls below one that has replaced its function.             *)
LEMMA BelowKept ==
  ASSUME NEW ps, NEW b, NEW b2, NEW add, NEW del, NEW fs \in Seq(FrameSet), NEW f, NEW n,
         DOMAIN b = DOMAIN ps, Replaced(b, b2, f, n), n \notin First,
         \A i \in DOMAIN fs : fs[i].f \in DOMAIN ps /\ fs[i].f # f /\ fs[i].f # n /\ fs[i].newFunc # n,
         Below(ps, b, add, del, fs)
  PROVE  Below(ps, b2, add \cup {n}, del \cup {f}, fs)
<1> SUFFICES ASSUME NEW i \in 1 .. Len(fs) - 1
             PROVE  /\ fs[i].newFunc # Null
                    /\ Cloned(ps, b2, add \cup {n}, del \cup {f}, fs[i])
                    /\ WaitsFor(b2, fs[i], fs[i + 1].f)
  BY DEF Below
<1>1. /\ fs[i].newFunc # Null /\ Cloned(ps, b, add, del, fs[i])
      /\ WaitsFor(b, fs[i], fs[i + 1].f)
  BY DEF Below
<1>2. i \in DOMAIN fs /\ i + 1 \in DOMAIN fs
  OBVIOUS
<1>3. fs[i + 1].f \in DOMAIN b /\ fs[i].f # f /\ fs[i].f # n /\ fs[i].newFunc # n
  BY <1>2
<1> QED BY <1>1, <1>3, ClonedKept, WaitsKept

(* The function calcArgs goes on to is not one it is working on: of those, *)
(* the clones make the call too, and would have been taken first.          *)
LEMMA NewCaller ==
  ASSUME NEW ps, NEW b, NEW add, NEW del, NEW F, NEW g \in DOMAIN b, NEW z \in First \ del,
         F.newFunc \in Nat, F.f \in Nat, DOMAIN b = DOMAIN ps,
         Cloned(ps, b, add, del, F), Calls(b, g, z),
         \A h \in DOMAIN ps \ First : Calls(b, h, z) => g \notin First /\ h <= g
  PROVE  g # F.f
<1> SUFFICES ASSUME g = F.f PROVE FALSE
  OBVIOUS
<1>1. Calls(b, F.newFunc, z) /\ F.newFunc \in DOMAIN ps \ First
  BY DEF Cloned, Covers
<1>2. F.newFunc <= F.f /\ F.f < F.newFunc
  BY <1>1 DEF Cloned
<1> QED BY <1>2

(* What a frame waiting for its caller knows when that has ended.          *)
CallerOk(b, add, del, F, ret) ==
  /\ F.call[1] \in DOMAIN b /\ WaitsFor(b, F, F.call[1])
  /\ ret # Null => /\ ret \in add /\ F.call[1] \in del
                   /\ Calls(b, ret, F.f) /\ SameOrigin(b, F.call[1], ret)

(* The function at the top is replaced by its clone: the frame below finds *)
(* its call in the clone.                                                  *)
ReplacedStack(ps, b2, add2, del2, fs, fs2, f, n) ==
  /\ fs2 \in Seq(FrameSet) /\ fs2 # <<>> /\ fs2[1] = fs[1]
  /\ \A i \in DOMAIN fs2 : fs2[i].f \in DOMAIN ps
  /\ Below(ps, b2, add2, del2, fs2) /\ Ordered(fs2)
  /\ Last(fs2).newFunc # Null
  /\ Cloned(ps, b2, add2, del2, Last(fs2))
  /\ CallerOk(b2, add2, del2, Last(fs2), n)

LEMMA ReplaceStack ==
  ASSUME NEW o, NEW ps, NEW b, NEW b2, NEW add, NEW del, NEW fs \in Seq(FrameSet), fs # <<>>,
         DOMAIN b = DOMAIN ps, AllStand(o, b, add, del),
         \A i \in DOMAIN fs : fs[i].f \in DOMAIN ps,
         Below(ps, b, add, del, fs), Ordered(fs), Len(fs) # 1,
         NEW f, NEW n, f = Last(fs).f, n = Last(fs).newFunc, n # Null,
         Cloned(ps, b, add, del, Last(fs)), Replaced(b, b2, f, n),
         NEW fs2, fs2 = Front(fs)
  PROVE  ReplacedStack(ps, b2, add \cup {n}, del \cup {f}, fs, fs2, f, n)
<1>1. PICK m \in Nat \ {0} : m = Len(fs) /\ Last(fs) = fs[m] /\ m # 1 /\ fs[m] \in FrameSet
  <2>1. Len(fs) \in Nat \ {0} /\ Last(fs) = fs[Len(fs)] /\ Last(fs) \in FrameSet
    BY FrontIs
  <2> QED BY <2>1
<1>2. /\ fs2 \in Seq(FrameSet) /\ fs2 # <<>> /\ fs2[1] = fs[1] /\ Len(fs2) = m - 1
      /\ \A i \in 1 .. m - 1 : fs2[i] = fs[i]
      /\ Last(fs2) = fs[m - 1]
  <2>1. PoppedIs(ps, b, add, del, fs, fs2)
    BY Popped
  <2> QED BY <1>1, <2>1 DEF PoppedIs
<1>3. /\ Below(ps, b, add, del, fs2) /\ Ordered(fs2)
      /\ Last(fs2).newFunc # Null /\ Cloned(ps, b, add, del, Last(fs2))
      /\ WaitsFor(b, Last(fs2), f)
      /\ Last(fs2).f # f
  <2>1. PoppedIs(ps, b, add, del, fs, fs2)
    BY Popped
  <2> QED BY <2>1 DEF PoppedIs
<1>4. f \in DOMAIN b /\ n \in DOMAIN b /\ n \notin First /\ n \notin add
  BY DEF Cloned
<1>5. DOMAIN fs2 = 1 .. m - 1 /\ DOMAIN fs = 1 .. m
  BY <1>1, <1>2
<1>6. ASSUME NEW i \in 1 .. m - 1
      PROVE  fs2[i].f \in DOMAIN ps /\ fs2[i].f # f /\ fs2[i].f # n /\ fs2[i].newFunc # n
  <2>1. PICK G : G = fs[i]
    OBVIOUS
  <2>2. G \in FrameSet /\ fs2[i] = G
    BY <1>1, <1>2, <1>5, <2>1
  <2>3. Cloned(ps, b, add, del, G)
    BY <1>1, <2>1 DEF Below
  <2>4. G.f < G.newFunc
    BY <2>3 DEF Cloned
  <2>5. G.f # f /\ G.newFunc < n
    BY <1>1, <1>5, <2>1 DEF Ordered
  <2>6. G.f \in Nat /\ G.newFunc \in Nat /\ n \in Nat
    BY <1>1, <2>2 DEF FrameSet
  <2>7. G.f # n /\ G.newFunc # n
    BY <2>4, <2>5, <2>6
  <2> QED BY <1>5, <2>1, <2>2, <2>5, <2>7
<1>7. Below(ps, b2, add \cup {n}, del \cup {f}, fs2)
  BY <1>2, <1>3, <1>4, <1>5, <1>6, BelowKept
<1>8. PICK F : F = Last(fs2)
  OBVIOUS
<1>9. F.f # f /\ F.f # n /\ F.newFunc # n
  BY <1>1, <1>2, <1>6, <1>8
<1>10. Cloned(ps, b2, add \cup {n}, del \cup {f}, F)
  BY <1>3, <1>4, <1>8, <1>9, ClonedKept
<1>11. WaitsFor(b2, F, f) /\ F.call[1] = f
  <2>1. WaitsFor(b, F, f)
    BY <1>3, <1>8
  <2>2. WaitsFor(b2, F, f)
    BY <1>4, <1>9, <2>1, WaitsKept
  <2> QED BY <2>2 DEF WaitsFor
<1>12. Calls(b2, n, F.f)
  <2>1. Calls(b, f, F.f)
    BY <1>3, <1>8 DEF WaitsFor, Calls
  <2>2. F.f \in First \cup add
    BY <1>4, <2>1 DEF Calls, AllStand, Stands
  <2>3. F.f \in First \ del
    BY <1>3, <1>8, <2>2 DEF Cloned
  <2>4. Calls(b, n, F.f)
    BY <2>1, <2>3 DEF Cloned, Covers
  <2> QED BY <1>4, <1>9, <2>4, CallsKept
<1>13. SameOrigin(b2, f, n)
  <2>1. SameOrigin(b, f, n)
    BY DEF Cloned
  <2> QED BY <1>4, <2>1, OriginKept
<1>14. DOMAIN b2 = DOMAIN b
  BY DEF Replaced
<1>15. CallerOk(b2, add \cup {n}, del \cup {f}, F, n)
  BY <1>4, <1>11, <1>12, <1>13, <1>14 DEF CallerOk
<1> QED BY <1>2, <1>3, <1>5, <1>6, <1>7, <1>8, <1>10, <1>15 DEF ReplacedStack

(* A function put into the order.                                          *)
OrderIs(ord, ps) ==
  /\ ord \in Seq(Nat) /\ Len(ord) = Len(ps)
  /\ IsInjective(ord) /\ ToSet(ord) = DOMAIN ps

LEMMA OrderLonger ==
  ASSUME NEW ps \in Seq(Seq(Types)), NEW ord, OrderIs(ord, ps), NEW i \in DOMAIN ord,
         NEW t \in Seq(Types)
  PROVE  OrderIs(InsertAt(ord, i, Len(ord) + 1), Append(ps, t))
<1>1. PICK n \in Nat : n = Len(ord) /\ n = Len(ps)
  BY DEF OrderIs
<1>2. PICK ord2, ps2 : ord2 = InsertAt(ord, i, n + 1) /\ ps2 = Append(ps, t)
  OBVIOUS
<1>3. ord \in Seq(Nat) /\ DOMAIN ord = 1 .. n /\ DOMAIN ps = 1 .. n
  BY <1>1, LenProperties DEF OrderIs
<1>4. i \in 1 .. n /\ n \in Nat /\ i \in Int /\ 1 <= i /\ i <= n
  BY <1>1, <1>3
<1>5. \A p \in 1 .. n : ord[p] \in 1 .. n
  BY <1>3 DEF OrderIs, ToSet
<1>6. \A h \in 1 .. n : \E p \in 1 .. n : ord[p] = h
  BY <1>3 DEF OrderIs, ToSet
<1>7. \A p, q \in 1 .. n : ord[p] = ord[q] => p = q
  BY <1>3 DEF OrderIs, IsInjective
<1>8. /\ ord2 \in Seq(Nat) /\ Len(ord2) = n + 1
      /\ \A j \in 1 .. n + 1 :
           ord2[j] = IF j < i THEN ord[j] ELSE IF j = i THEN n + 1 ELSE ord[j - 1]
  <2>1. i \in 1 .. Len(ord) + 1 /\ n + 1 \in Nat
    BY <1>1, <1>4
  <2>2. InsertAt(ord, i, n + 1) \in Seq(Nat) /\ IsInserted(ord, i, n + 1, InsertAt(ord, i, n + 1))
    BY <1>3, <2>1, InsertAtIs
  <2>3. ord2 \in Seq(Nat) /\ IsInserted(ord, i, n + 1, ord2)
    BY <1>2, <2>2
  <2> QED BY <1>1, <2>3 DEF IsInserted
<1>9. Len(ps2) = n + 1 /\ DOMAIN ps2 = 1 .. n + 1 /\ DOMAIN ord2 = 1 .. n + 1
  BY <1>1, <1>2, <1>8, AppendProperties
<1>10. ASSUME NEW j \in 1 .. n + 1, j # i
       PROVE  \E p \in 1 .. n : ord2[j] = ord[p] /\ p = (IF j < i THEN j ELSE j - 1)
  <2>1. CASE j < i
    <3>1. j \in 1 .. n
      BY <1>4, <2>1
    <3> QED BY <1>8, <2>1, <3>1
  <2>2. CASE ~ (j < i)
    <3>1. j - 1 \in 1 .. n
      BY <1>4, <1>10, <2>2
    <3> QED BY <1>8, <1>10, <2>2, <3>1
  <2> QED BY <2>1, <2>2
<1>11. i \in 1 .. n + 1 /\ ord2[i] = n + 1
  <2>1. i \in 1 .. n + 1 /\ ~ (i < i)
    BY <1>4
  <2> QED BY <1>8, <2>1
<1>12. ASSUME NEW j \in 1 .. n + 1 PROVE ord2[j] \in 1 .. n + 1
  <2>1. CASE j = i
    BY <1>4, <1>11, <2>1
  <2>2. CASE j # i
    <3>1. PICK p \in 1 .. n : ord2[j] = ord[p]
      BY <1>10, <2>2
    <3>2. ord[p] \in 1 .. n
      BY <1>5
    <3> QED BY <1>4, <3>1, <3>2
  <2> QED BY <2>1, <2>2
<1>13. ASSUME NEW h \in 1 .. n + 1 PROVE \E j \in 1 .. n + 1 : ord2[j] = h
  <2>1. CASE h = n + 1
    BY <1>11, <2>1
  <2>2. CASE h # n + 1
    <3>1. h \in 1 .. n
      BY <1>4, <2>2
    <3>2. PICK p \in 1 .. n : ord[p] = h
      BY <1>6, <3>1
    <3>3. CASE p < i
      <4>1. p \in 1 .. n + 1
        BY <1>4
      <4> QED BY <1>8, <3>2, <3>3, <4>1
    <3>4. CASE ~ (p < i)
      <4>1. p + 1 \in 1 .. n + 1 /\ ~ (p + 1 < i) /\ p + 1 # i /\ (p + 1) - 1 = p
        BY <1>4, <3>4
      <4> QED BY <1>8, <3>2, <4>1
    <3> QED BY <3>3, <3>4
  <2> QED BY <2>1, <2>2
<1>14. \A p \in 1 .. n : ord[p] # n + 1
  <2> SUFFICES ASSUME NEW p \in 1 .. n PROVE ord[p] # n + 1
    OBVIOUS
  <2>1. ord[p] \in 1 .. n
    BY <1>5
  <2> QED BY <1>4, <2>1
<1>15. ASSUME NEW j \in 1 .. n + 1, NEW l \in 1 .. n + 1, ord2[j] = ord2[l] PROVE j = l
  <2>1. CASE j = i \/ l = i
    BY <1>10, <1>11, <1>14, <1>15, <2>1
  <2>2. CASE j # i /\ l # i
    <3>1. PICK p \in 1 .. n : ord2[j] = ord[p] /\ p = (IF j < i THEN j ELSE j - 1)
      BY <1>10, <2>2
    <3>2. PICK q \in 1 .. n : ord2[l] = ord[q] /\ q = (IF l < i THEN l ELSE l - 1)
      BY <1>10, <2>2
    <3>3. p = q
      BY <1>7, <1>15, <3>1, <3>2
    <3> QED BY <1>4, <2>2, <3>1, <3>2, <3>3
  <2> QED BY <2>1, <2>2
<1>16. OrderIs(ord2, ps2)
  <2>1. ToSet(ord2) = DOMAIN ps2
    BY <1>9, <1>12, <1>13 DEF ToSet
  <2>2. IsInjective(ord2)
    BY <1>9, <1>15 DEF IsInjective
  <2> QED BY <1>8, <1>9, <2>1, <2>2 DEF OrderIs
<1> QED BY <1>1, <1>2, <1>16

----------------------------------------------------------------------------
(* The invariant, without the walk of runOnModule                          *)

HasArrayIn(types) == \E k \in DOMAIN types : types[k] \in Arrays
Pcs == {"visit", "calcArgs", "users", "caller", "instrument", "done", "undefined", "exit"}
Running == {"calcArgs", "users", "caller"}

DataInv ==
  /\ Given(original)
  /\ ModuleInv(original, params, body, added, deleted)
  /\ OrderIs(order, params)
  /\ current \in DOMAIN params /\ returned \in DOMAIN params \cup {Null}
  /\ isChanged \in BOOLEAN
  /\ accesses \subseteq DOMAIN params /\ \A f \in accesses : HasArrayIn(params[f])
  /\ instrumented \subseteq DOMAIN params
  /\ frames \in Seq(FrameSet) /\ \A i \in DOMAIN frames : frames[i].f \in DOMAIN params
  /\ pc \in Pcs

StackInv ==
  /\ pc \in Running =>
       /\ frames # <<>> /\ frames[1].f = current
       /\ Below(params, body, added, deleted, frames) /\ Ordered(frames)
       /\ TopOk(params, body, added, deleted, pc, Last(frames))
  /\ pc \in {"visit", "instrument", "done"} => frames = <<>>
  /\ pc = "caller" => CallerOk(body, added, deleted, Last(frames), returned)

CallsInv == DataInv /\ StackInv

(* The module as given.                                                    *)
LEMMA GivenKeeps ==
  ASSUME NEW types \in Signatures, NEW calls \in Bodies(types), NEW o,
         o = [params |-> types, body |-> calls]
  PROVE  /\ Given(o) /\ ModuleInv(o, types, calls, {}, {}) /\ OrderIs(Order, types)
         /\ DOMAIN types = First
<1>1. PICK n \in Nat : n = Len(Order)
  BY ModuleAssumption
<1>2. types \in Seq(Seq(Types)) /\ Len(types) = n /\ IsModule(types, calls)
  BY <1>1, ModuleAssumption
<1>3. DOMAIN types = 1 .. n /\ First = 1 .. n
  BY <1>1, <1>2, LenProperties DEF First
<1>4. calls \in Seq(Seq(Call)) /\ Len(calls) = n /\ DOMAIN calls = 1 .. n
  <2>1. calls \in Seq(Seq(Call)) /\ Len(calls) = n
    BY <1>2 DEF IsModule
  <2> QED BY <2>1, LenProperties
<1>5. Given(o)
  BY <1>1, <1>2 DEF Given
<1>6. ASSUME NEW g \in DOMAIN calls, NEW k \in DOMAIN calls[g]
      PROVE  /\ calls[g][k].callee \in DOMAIN types /\ calls[g][k].site = <<g, k>>
             /\ Fits(types[g], calls[g][k].args, types[calls[g][k].callee])
  BY <1>2 DEF IsModule
<1>7. Shape(o, types, calls, {}, {})
  BY <1>1, <1>2, <1>3, <1>4 DEF Shape
<1>8. Fitting(types, calls)
  BY <1>6 DEF Fitting
<1>9. AllStand(o, calls, {}, {})
  BY <1>3, <1>4, <1>6 DEF AllStand, Stands
<1>10. OneOrigin(calls)
  BY <1>6 DEF OneOrigin, SameOrigin
<1>11. StillCalled(o, calls, {})
  BY <1>3, <1>4 DEF StillCalled
<1>12. AllSized(o, types, calls, {})
  <2> SUFFICES ASSUME NEW f \in DOMAIN calls, NEW k \in DOMAIN calls[f], NEW j \in DOMAIN calls[f] \ {k},
                      calls[f][j].site = calls[f][k].site
               PROVE  FALSE
    BY DEF AllSized, Sized
  <2>1. calls[f][j].site = <<f, j>> /\ calls[f][k].site = <<f, k>>
    BY <1>6
  <2>2. <<f, j>>[2] = <<f, k>>[2]
    BY <2>1
  <2> QED BY <2>2
<1>13. OrderIs(Order, types)
  BY <1>1, <1>2, <1>3, ModuleAssumption DEF OrderIs
<1> QED BY <1>3, <1>5, <1>7, <1>8, <1>9, <1>10, <1>11, <1>12, <1>13 DEF ModuleInv

LEMMA CallsInit == Init => CallsInv
<1> SUFFICES ASSUME Init PROVE CallsInv
  OBVIOUS
<1>1. PICK types \in Signatures : params = types
  BY DEF Init
<1>2. PICK calls \in Bodies(types) : body = calls
  BY <1>1 DEF Init
<1>3. original = [params |-> types, body |-> calls]
  BY <1>1, <1>2 DEF Init
<1>4. /\ Given(original) /\ ModuleInv(original, params, body, {}, {}) /\ OrderIs(order, params)
      /\ DOMAIN params = First
  BY <1>1, <1>2, <1>3, GivenKeeps DEF Init
<1>5. current \in DOMAIN params
  <2>1. Order \in Seq(Nat) /\ Order # <<>> /\ ToSet(Order) = First
    BY ModuleAssumption DEF ToSet, First
  <2>2. Head(Order) = Order[1] /\ 1 \in DOMAIN Order
    BY <2>1
  <2>3. Head(Order) \in First
    BY <2>1, <2>2 DEF ToSet
  <2> QED BY <1>4, <2>3 DEF Init
<1>6. PICK fs \in Accessing : accesses = {f \in fs : HasArray(f)}
  BY DEF Init
<1>7. accesses \subseteq DOMAIN params /\ \A f \in accesses : HasArrayIn(params[f])
  <2>1. fs \subseteq First
    BY ModuleAssumption DEF First
  <2> QED BY <1>4, <1>6, <2>1 DEF HasArray, HasArrayIn
<1>8. frames = <<>> /\ frames \in Seq(FrameSet) /\ DOMAIN frames = {}
  BY DEF Init
<1> QED BY <1>4, <1>5, <1>7, <1>8 DEF Init, CallsInv, DataInv, StackInv, Pcs, Running

(* The frame at the top.                                                   *)
LEMMA TopIsFrame ==
  ASSUME CallsInv, pc \in Running
  PROVE  /\ frames # <<>> /\ Top = Last(frames) /\ Top = frames[Len(frames)]
         /\ Len(frames) \in Nat \ {0} /\ DOMAIN frames = 1 .. Len(frames)
         /\ Top \in FrameSet /\ Top.f \in DOMAIN params
         /\ params[Top.f] \in Seq(Types)
         /\ Top.f \in Nat /\ Top.newFunc \in Nat /\ Top.param \in Nat
<1>1. frames \in Seq(FrameSet) /\ frames # <<>>
  BY DEF CallsInv, DataInv, StackInv
<1>2. /\ Len(frames) \in Nat \ {0} /\ Last(frames) = frames[Len(frames)]
      /\ Last(frames) \in FrameSet
  BY <1>1, FrontIs
<1>3. DOMAIN frames = 1 .. Len(frames)
  BY <1>1, LenProperties
<1>4. frames[Len(frames)].f \in DOMAIN params
  BY <1>2, <1>3 DEF CallsInv, DataInv
<1>5. params \in Seq(Seq(Types))
  BY DEF CallsInv, DataInv, ModuleInv, Shape
<1>6. params[Top.f] \in Seq(Types)
  BY <1>2, <1>4, <1>5 DEF Top
<1>7. Top.f \in Nat /\ Top.newFunc \in Nat /\ Top.param \in Nat
  BY <1>2 DEF Top, FrameSet
<1> QED BY <1>1, <1>2, <1>3, <1>4, <1>6, <1>7 DEF Top

LEMMA VisitKeeps == CallsInv /\ Visit => CallsInv'
<1> SUFFICES ASSUME CallsInv, Visit PROVE CallsInv'
  OBVIOUS
<1>1. PICK F : F = Frame(current)
  OBVIOUS
<1>2. F \in FrameSet /\ F.f = current /\ F.newFunc = Null /\ F.param = 1
  <2>1. current \in Nat
    BY DEF CallsInv, DataInv, ModuleInv, Shape
  <2> QED BY <1>1, <2>1 DEF Frame, FrameSet, Null
<1>3. frames' = <<F>>
  BY <1>1 DEF Visit
<1>4. /\ frames' \in Seq(FrameSet) /\ frames' # <<>> /\ Len(frames') = 1 /\ frames'[1] = F
      /\ DOMAIN frames' = 1 .. 1
  BY <1>2, <1>3
<1>5. Last(frames') = F
  BY <1>4 DEF Last
<1>6. params[current] \in Seq(Types)
  BY DEF CallsInv, DataInv, ModuleInv, Shape
<1>7. Scanned(params, F)
  BY <1>2, <1>6 DEF Scanned
<1>8. DataInv'
  BY <1>2, <1>4 DEF Visit, CallsInv, DataInv, Pcs, module
<1>9. StackInv'
  <2>1. Below(params', body', added', deleted', frames') /\ Ordered(frames')
    BY <1>4 DEF Below, Ordered
  <2>2. TopOk(params', body', added', deleted', pc', Last(frames'))
    BY <1>2, <1>5, <1>7 DEF TopOk, Visit, module
  <2> QED BY <1>2, <1>4, <2>1, <2>2 DEF StackInv, Visit, Running
<1> QED BY <1>8, <1>9 DEF CallsInv

LEMMA StopKeeps ==
  ASSUME CallsInv, NEW r \in {"undefined", "exit"}, Stop(r)
  PROVE  CallsInv'
BY DEF CallsInv, DataInv, StackInv, Stop, Pcs, Running, module

LEMMA InstrumentKeeps == CallsInv /\ Instrument => CallsInv'
<1> SUFFICES ASSUME CallsInv, Instrument PROVE CallsInv'
  OBVIOUS
<1>1. Target \in DOMAIN params
  BY DEF Target, Instrument, CallsInv, DataInv
<1>2. current' \in DOMAIN params
  <2>1. CASE current = Last(order)
    BY <2>1 DEF Instrument, CallsInv, DataInv
  <2>2. CASE current # Last(order)
    <3>1. order \in Seq(Nat) /\ ToSet(order) = DOMAIN params
      BY DEF CallsInv, DataInv, OrderIs
    <3>2. Place(current) \in DOMAIN order /\ order[Place(current)] = current
      BY <3>1, PlaceIs DEF CallsInv, DataInv
    <3>3. PICK p, n \in Nat : p = Place(current) /\ n = Len(order)
      BY <3>1, <3>2, LenProperties
    <3>4. p \in 1 .. n /\ p # n
      <4>1. Last(order) = order[n]
        BY <3>3 DEF Last
      <4> QED BY <2>2, <3>1, <3>2, <3>3, <4>1, LenProperties
    <3>5. p + 1 \in DOMAIN order
      BY <3>1, <3>3, <3>4, LenProperties
    <3>6. order[p + 1] \in DOMAIN params
      BY <3>1, <3>5 DEF ToSet
    <3> QED BY <2>2, <3>3, <3>6 DEF Instrument
  <2> QED BY <2>1, <2>2
<1>3. pc' \in {"visit", "done"}
  BY DEF Instrument
<1>4. DataInv'
  BY <1>1, <1>2, <1>3 DEF Instrument, CallsInv, DataInv, Pcs, module
<1>5. StackInv'
  BY <1>3 DEF Instrument, CallsInv, StackInv, Running, module
<1> QED BY <1>4, <1>5 DEF CallsInv

LEMMA ReturnNullKeeps == CallsInv /\ ReturnNull => CallsInv'
<1> SUFFICES ASSUME CallsInv, ReturnNull PROVE CallsInv'
  OBVIOUS
<1>1. pc = "calcArgs" /\ pc \in Running
  BY DEF ReturnNull, Running
<1>2. /\ frames \in Seq(FrameSet) /\ frames # <<>> /\ Len(frames) \in Nat \ {0}
      /\ DOMAIN frames = 1 .. Len(frames) /\ Top = Last(frames)
  BY <1>1, TopIsFrame DEF CallsInv, DataInv
<1>3. frames' = Front(frames) /\ returned' = Null
      /\ pc' = (IF Len(frames) = 1 THEN "instrument" ELSE "caller")
  BY DEF ReturnNull, Return
<1>4. /\ frames' \in Seq(FrameSet) /\ Len(frames') = Len(frames) - 1
      /\ \A i \in 1 .. Len(frames) - 1 : frames'[i] = frames[i]
  BY <1>2, <1>3, FrontIs
<1>5. \A i \in DOMAIN frames' : frames'[i].f \in DOMAIN params
  BY <1>2, <1>4 DEF CallsInv, DataInv
<1>6. DataInv'
  BY <1>3, <1>4, <1>5 DEF ReturnNull, CallsInv, DataInv, Pcs, module
<1>7. StackInv'
  <2>1. CASE Len(frames) = 1
    BY <1>3, <1>4, <2>1 DEF StackInv, Running
  <2>2. CASE Len(frames) # 1
    <3>1. Below(params, body, added, deleted, frames) /\ Ordered(frames) /\ frames[1].f = current
      BY <1>1 DEF CallsInv, StackInv
    <3>2. PoppedIs(params, body, added, deleted, frames, frames')
      BY <1>2, <1>3, <2>2, <3>1, Popped
    <3>3. PICK F : F = Last(frames')
      OBVIOUS
    <3>4. /\ frames' # <<>> /\ frames'[1] = frames[1]
          /\ Below(params, body, added, deleted, frames') /\ Ordered(frames')
          /\ F.newFunc # Null /\ Cloned(params, body, added, deleted, F)
          /\ WaitsFor(body, F, Top.f)
      BY <1>2, <3>2, <3>3 DEF PoppedIs
    <3>5. Top.f \in DOMAIN body
      <4>1. Top.f \in DOMAIN params
        BY <1>1, TopIsFrame
      <4> QED BY <4>1 DEF CallsInv, DataInv, ModuleInv, Shape
    <3>6. CallerOk(body, added, deleted, F, Null)
      BY <3>4, <3>5 DEF CallerOk, WaitsFor
    <3> QED BY <1>3, <2>2, <3>1, <3>3, <3>4, <3>6 DEF ReturnNull, StackInv, TopOk, module
  <2> QED BY <2>1, <2>2
<1> QED BY <1>6, <1>7 DEF CallsInv

(* A step that changes only the frame at the top.                          *)
LEMMA TopStepKeeps ==
  ASSUME CallsInv, pc \in Running, NEW F \in FrameSet,
         F.f = Top.f, F.newFunc = Top.newFunc, frames' = WithTop(frames, F),
         TopOk(params, body, added, deleted, "calcArgs", F), pc' = "calcArgs",
         UNCHANGED <<original, module, current, returned, isChanged, deleted, added,
                     instrumented>>
  PROVE  CallsInv'
<1>1. /\ frames \in Seq(FrameSet) /\ frames # <<>> /\ Len(frames) \in Nat \ {0}
      /\ DOMAIN frames = 1 .. Len(frames) /\ Top = Last(frames) /\ Top = frames[Len(frames)]
      /\ Top.f \in DOMAIN params
  BY TopIsFrame DEF CallsInv, DataInv
<1>2. TopIs(frames, F, frames')
  BY <1>1, TopSet
<1>3. PICK n \in Nat \ {0} : n = Len(frames)
  BY <1>1
<1>4. /\ frames' \in Seq(FrameSet) /\ frames' # <<>> /\ Len(frames') = n /\ Last(frames') = F
      /\ frames'[n] = F
      /\ \A i \in 1 .. n - 1 : frames'[i] = frames[i]
  BY <1>2, <1>3 DEF TopIs
<1>5. \A i \in DOMAIN frames' : frames'[i].f \in DOMAIN params
  <2> SUFFICES ASSUME NEW i \in 1 .. n PROVE frames'[i].f \in DOMAIN params
    BY <1>4, LenProperties
  <2>1. CASE i = n
    BY <1>1, <1>4, <2>1
  <2>2. CASE i # n
    <3>1. frames'[i] = frames[i] /\ i \in DOMAIN frames
      BY <1>1, <1>3, <1>4, <2>2
    <3> QED BY <3>1 DEF CallsInv, DataInv
  <2> QED BY <2>1, <2>2
<1>6. /\ Below(params, body, added, deleted, frames) /\ Ordered(frames) /\ frames[1].f = current
  BY DEF CallsInv, StackInv
<1>7. /\ Below(params, body, added, deleted, frames') /\ Ordered(frames')
      /\ frames'[1].f = frames[1].f
  <2>1. F.f = Last(frames).f /\ F.newFunc = Last(frames).newFunc
    BY <1>1
  <2>2. PICK fs2 : fs2 = frames'
    OBVIOUS
  <2>3. fs2 = WithTop(frames, F)
    BY <2>2
  <2>4. Below(params, body, added, deleted, fs2) /\ Ordered(fs2) /\ fs2[1].f = frames[1].f
    <3>1. Follow(frames, F)
      BY <2>1 DEF Follow
    <3>2. frames \in Seq(FrameSet) /\ frames # <<>> /\ F.f = Last(frames).f
      BY <1>1, <2>1
    <3> QED BY <1>6, <2>3, <3>1, <3>2, TopChanged
  <2> QED BY <2>2, <2>4
<1>8. DataInv'
  BY <1>4, <1>5 DEF CallsInv, DataInv, Pcs, module
<1>9. StackInv'
  BY <1>4, <1>6, <1>7 DEF StackInv, Running, module
<1> QED BY <1>8, <1>9 DEF CallsInv

LEMMA SkipKeeps == CallsInv /\ SkipParameter => CallsInv'
<1> SUFFICES ASSUME CallsInv, SkipParameter PROVE CallsInv'
  OBVIOUS
<1>1. pc = "calcArgs" /\ pc \in Running
  BY DEF SkipParameter, Running
<1>2. PICK F : F = [Top EXCEPT !.param = @ + 1]
  OBVIOUS
<1>3. Top \in FrameSet /\ params[Top.f] \in Seq(Types) /\ Top = Last(frames) /\ Top.param \in Nat
  BY <1>1, TopIsFrame
<1>4. /\ F \in FrameSet /\ F.f = Top.f /\ F.newFunc = Top.newFunc /\ F.param = Top.param + 1
  BY <1>2, <1>3 DEF FrameSet
<1>5. frames' = WithTop(frames, F)
  BY <1>2 DEF SkipParameter, SetTop, WithTop
<1>6. TopOk(params, body, added, deleted, "calcArgs", Top)
  BY <1>1, <1>3 DEF CallsInv, StackInv
<1>7. TopOk(params, body, added, deleted, "calcArgs", F)
  <2>1. Scanned(params, Top) => Scanned(params, F)
    <3> SUFFICES ASSUME Scanned(params, Top), NEW k \in DOMAIN params[F.f], k < F.param
                 PROVE  params[F.f][k] \notin Arrays
      BY <1>3, <1>4 DEF Scanned
    <3>1. k \in Nat
      BY <1>3, <1>4
    <3>2. k < Top.param \/ k = Top.param
      BY <1>3, <1>4, <3>1
    <3>3. params[Top.f][Top.param] \notin Arrays
      BY DEF SkipParameter
    <3> QED BY <1>4, <3>2, <3>3 DEF Scanned
  <2>2. Cloned(params, body, added, deleted, Top) => Cloned(params, body, added, deleted, F)
    BY <1>4 DEF Cloned
  <2> QED BY <1>4, <1>6, <2>1, <2>2 DEF TopOk
<1> QED BY <1>1, <1>4, <1>5, <1>7, TopStepKeeps DEF SkipParameter

LEMMA NoUsersKeeps == CallsInv /\ NoUsers => CallsInv'
<1> SUFFICES ASSUME CallsInv, NoUsers PROVE CallsInv'
  OBVIOUS
<1>1. pc = "users" /\ pc \in Running
  BY DEF NoUsers, Running
<1>2. PICK F : F = [Top EXCEPT !.param = @ + 1]
  OBVIOUS
<1>3. Top \in FrameSet /\ Top = Last(frames)
  BY <1>1, TopIsFrame
<1>4. F \in FrameSet /\ F.f = Top.f /\ F.newFunc = Top.newFunc
  BY <1>2, <1>3 DEF FrameSet
<1>5. frames' = WithTop(frames, F)
  BY <1>2 DEF NoUsers, SetTop, WithTop
<1>6. TopOk(params, body, added, deleted, "users", Top)
  BY <1>1, <1>3 DEF CallsInv, StackInv
<1>7. TopOk(params, body, added, deleted, "calcArgs", F)
  BY <1>4, <1>6 DEF TopOk, Cloned
<1> QED BY <1>1, <1>4, <1>5, <1>7, TopStepKeeps DEF NoUsers

LEMMA CloneStepKeeps == CallsInv /\ CloneFunction => CallsInv'
<1> SUFFICES ASSUME CallsInv, CloneFunction PROVE CallsInv'
  OBVIOUS
<1>1. /\ pc = "calcArgs" /\ pc \in Running /\ ~ PassedOver(Top.f) /\ Top.newFunc = Null
      /\ Top.param <= Len(params[Top.f]) /\ params[Top.f][Top.param] \in Arrays
  BY DEF CloneFunction, ArrayParameter, Running
<1>2. PICK f, clone, n : f = Top.f /\ clone = Len(order) + 1 /\ n = Len(frames)
  OBVIOUS
<1>3. /\ frames \in Seq(FrameSet) /\ frames # <<>> /\ n \in Nat \ {0} /\ n = Len(frames)
      /\ DOMAIN frames = 1 .. n /\ Top = Last(frames) /\ Top = frames[n]
      /\ Top \in FrameSet /\ f \in DOMAIN params /\ params[f] \in Seq(Types)
      /\ Top.param \in Nat
  BY <1>1, <1>2, TopIsFrame DEF CallsInv, DataInv
<1>4. /\ Given(original) /\ ModuleInv(original, params, body, added, deleted)
      /\ OrderIs(order, params)
  BY DEF CallsInv, DataInv
<1>5. /\ params \in Seq(Seq(Types)) /\ body \in Seq(Seq(Call)) /\ Len(body) = Len(params)
      /\ DOMAIN body = DOMAIN params /\ added \subseteq DOMAIN params \ First
      /\ deleted \subseteq First /\ First \subseteq DOMAIN params
  <2>1. Shape(original, params, body, added, deleted)
    BY <1>4 DEF ModuleInv
  <2>2. First \subseteq DOMAIN params
    BY <2>1, FirstHasParams
  <2> QED BY <2>1, <2>2 DEF Shape
<1>6. f # Main /\ f \notin added /\ f \notin deleted
  BY <1>1, <1>2 DEF PassedOver
<1>7. Below(params, body, added, deleted, frames) /\ Ordered(frames) /\ frames[1].f = current
      /\ Scanned(params, Top)
  BY <1>1, <1>3 DEF CallsInv, StackInv, TopOk
<1>8. Top.param \in DOMAIN params[f] /\ ElementType(params[f][Top.param]) \in {"int", "char"}
  <2>1. Top.param # 0
    BY <1>7 DEF Scanned
  <2> QED BY <1>1, <1>2, <1>3, <2>1 DEF ElementType
<1>9. PICK t : t = ElementType(params[f][Top.param]) /\ t \in Types
  BY <1>8 DEF Types
<1>10. /\ order' = InsertAt(order, Place(f), clone)
       /\ params' = Append(params, Append(params[f], t))
       /\ body' = Append(body, body[f])
       /\ accesses' = accesses \cup (IF f \in accesses THEN {clone} ELSE {})
       /\ frames' = WithTop(frames, [Top EXCEPT !.newFunc = clone])
       /\ isChanged' = TRUE /\ pc' = "users"
       /\ UNCHANGED <<original, current, returned, deleted, added, instrumented>>
  BY <1>2, <1>9 DEF CloneFunction, AddParam, SetTop, WithTop
<1>11. ModuleInv(original, params', body', added, deleted)
  BY <1>3, <1>4, <1>6, <1>9, <1>10, CloneKeeps
<1>12. PICK m \in Nat : m = Len(params) /\ m = Len(order) /\ m = Len(body) /\ clone = m + 1
  BY <1>2, <1>4, <1>5 DEF OrderIs
<1>13. /\ DOMAIN params = 1 .. m /\ DOMAIN params' = 1 .. m + 1
       /\ DOMAIN body = 1 .. m
       /\ params'[clone] = Append(params[f], t) /\ body'[clone] = body[f]
       /\ Extends(params, params') /\ Extends(body, body')
  <2>1. PICK types, calls : types = Append(params[f], t) /\ calls = body[f]
    OBVIOUS
  <2>2. types \in Seq(Types) /\ calls \in Seq(Call)
    BY <1>3, <1>5, <1>9, <2>1, AppendProperties
  <2>3. PICK T, C : T = Seq(Types) /\ C = Seq(Call)
    OBVIOUS
  <2>4. /\ Append(params, types) \in Seq(T)
        /\ Len(Append(params, types)) = Len(params) + 1
        /\ \A i \in 1 .. Len(params) : Append(params, types)[i] = params[i]
        /\ Append(params, types)[Len(params) + 1] = types
    BY <1>5, <2>2, <2>3, AppendProperties
  <2>5. /\ Append(body, calls) \in Seq(C)
        /\ Len(Append(body, calls)) = Len(body) + 1
        /\ \A i \in 1 .. Len(body) : Append(body, calls)[i] = body[i]
        /\ Append(body, calls)[Len(body) + 1] = calls
    BY <1>5, <2>2, <2>3, AppendProperties
  <2>6. /\ params' \in Seq(T) /\ Len(params') = m + 1 /\ params'[m + 1] = types
        /\ \A i \in 1 .. m : params'[i] = params[i]
    BY <1>10, <1>12, <2>1, <2>4
  <2>7. /\ body' \in Seq(C) /\ Len(body') = m + 1 /\ body'[m + 1] = calls
        /\ \A i \in 1 .. m : body'[i] = body[i]
    BY <1>10, <1>12, <2>1, <2>5
  <2>8. DOMAIN params = 1 .. m /\ DOMAIN body = 1 .. m
    BY <1>5, <1>12, LenProperties
  <2>9. DOMAIN params' = 1 .. m + 1 /\ DOMAIN body' = 1 .. m + 1
    BY <2>6, <2>7, LenProperties
  <2>10. \A i \in 1 .. m : i \in 1 .. m + 1
    BY <1>12
  <2> QED BY <1>12, <2>1, <2>6, <2>7, <2>8, <2>9, <2>10 DEF Extends
<1>14. PICK F : F = [Top EXCEPT !.newFunc = clone]
  OBVIOUS
<1>15. /\ F \in FrameSet /\ F.f = f /\ F.newFunc = clone /\ F.param = Top.param
       /\ clone # Null
  <2>1. clone \in Nat \ {0}
    BY <1>12
  <2>2. Top \in [f : Nat, param : Nat, newFunc : Nat,
                 call : {<<>>} \cup (Nat \X (Nat \X Nat))]
    BY <1>3 DEF FrameSet
  <2>3. /\ F.f = f /\ F.newFunc = clone /\ F.param = Top.param
    BY <1>2, <1>14, <2>2
  <2>4. F \in FrameSet
    BY <1>14, <2>1, <2>2 DEF FrameSet
  <2> QED BY <2>1, <2>3, <2>4 DEF Null
<1>16. TopIs(frames, F, frames')
  BY <1>3, <1>10, <1>14, <1>15, TopSet
<1>17. /\ frames' \in Seq(FrameSet) /\ frames' # <<>> /\ Len(frames') = n /\ Last(frames') = F
       /\ DOMAIN frames' = 1 .. n
       /\ frames'[n] = F
       /\ \A i \in 1 .. n - 1 : frames'[i] = frames[i]
  BY <1>3, <1>16, LenProperties DEF TopIs
<1>18. ASSUME NEW i \in 1 .. n PROVE frames'[i].f = frames[i].f /\ frames[i].f \in DOMAIN params
  <2>1. frames[i].f \in DOMAIN params
    BY <1>3 DEF CallsInv, DataInv
  <2>2. CASE i = n
    BY <1>2, <1>3, <1>15, <1>17, <2>1, <2>2
  <2>3. CASE i # n
    <3>1. i \in 1 .. n - 1
      BY <1>3, <2>3
    <3> QED BY <1>17, <2>1, <3>1
  <2> QED BY <2>2, <2>3
<1>19. Follow(frames, F)
  <2> SUFFICES ASSUME NEW j \in 1 .. n - 1 PROVE frames[j].newFunc < F.newFunc
    BY <1>3 DEF Follow
  <2>1. Cloned(params, body, added, deleted, frames[j])
    BY <1>3, <1>7 DEF Below
  <2>2. frames[j].newFunc \in 1 .. m
    BY <1>13, <2>1 DEF Cloned
  <2> QED BY <1>12, <1>15, <2>2
<1>20. /\ Below(params, body, added, deleted, frames') /\ Ordered(frames')
       /\ frames'[1].f = current
  <2>1. PICK fs2 : fs2 = frames'
    OBVIOUS
  <2>2. fs2 = WithTop(frames, F) /\ F.f = Last(frames).f
    BY <1>2, <1>3, <1>10, <1>14, <1>15, <2>1
  <2>3. /\ Below(params, body, added, deleted, fs2) /\ Ordered(fs2) /\ fs2[1].f = frames[1].f
    BY <1>3, <1>7, <1>15, <1>19, <2>2, TopChanged
  <2> QED BY <1>7, <2>1, <2>3
<1>21. Below(params', body', added, deleted, frames')
  <2>1. PICK fs2, ps2, b2 : fs2 = frames' /\ ps2 = params' /\ b2 = body'
    OBVIOUS
  <2>2. \A i \in DOMAIN fs2 : fs2[i].f \in DOMAIN params
    BY <1>17, <1>18, <2>1
  <2>3. fs2 \in Seq(FrameSet) /\ Below(params, body, added, deleted, fs2)
        /\ Extends(params, ps2) /\ Extends(body, b2)
    BY <1>13, <1>17, <1>20, <2>1
  <2>4. Below(ps2, b2, added, deleted, fs2)
    BY <1>5, <2>2, <2>3, BelowLonger
  <2> QED BY <2>1, <2>4
<1>22. f \in 1 .. m /\ params'[f] = params[f] /\ body'[f] = body[f]
  BY <1>3, <1>5, <1>13 DEF Extends
<1>23. Cloned(params', body', added, deleted, F)
  <2>1. clone \in DOMAIN params' \ (First \cup added)
    <3>1. clone \notin DOMAIN params /\ clone \in DOMAIN params'
      BY <1>12, <1>13
    <3> QED BY <1>5, <3>1
  <2>2. f \in DOMAIN params' /\ f < clone
    BY <1>12, <1>13, <1>22
  <2>3. IsCloneOf(params', f, clone)
    <3>1. Top.param \in DOMAIN params'[f] /\ params'[f][Top.param] \in Arrays
      BY <1>1, <1>2, <1>8, <1>22
    <3>2. params'[clone] = AddParam(params'[f], ElementType(params'[f][Top.param]))
      BY <1>9, <1>13, <1>22 DEF AddParam
    <3> QED BY <3>1, <3>2 DEF IsCloneOf
  <2>4. Covers(body', deleted, f, clone)
    BY <1>13, <1>22 DEF Covers, Calls
  <2>5. SameOrigin(body', f, clone)
    <3>1. SameOrigin(body, f, f)
      BY <1>3, <1>4, <1>5 DEF ModuleInv, OneOrigin
    <3> QED BY <1>13, <1>22, <3>1 DEF SameOrigin
  <2> QED BY <1>6, <1>15, <2>1, <2>2, <2>3, <2>4, <2>5 DEF Cloned
<1>24. accesses' \subseteq DOMAIN params' /\ \A g \in accesses' : HasArrayIn(params'[g])
  <2>1. accesses \subseteq DOMAIN params /\ \A g \in accesses : HasArrayIn(params[g])
    BY DEF CallsInv, DataInv
  <2>2. HasArrayIn(params'[clone])
    <3>1. Append(params[f], t) \in Seq(Types)
          /\ \A k \in 1 .. Len(params[f]) : Append(params[f], t)[k] = params[f][k]
          /\ Len(Append(params[f], t)) = Len(params[f]) + 1
      BY <1>3, <1>9, AppendProperties
    <3>2. PICK l \in Nat : l = Len(params[f]) /\ DOMAIN params[f] = 1 .. l
      BY <1>3, LenProperties
    <3>3. DOMAIN Append(params[f], t) = 1 .. l + 1
      BY <3>1, <3>2, LenProperties
    <3>4. Top.param \in 1 .. l /\ params[f][Top.param] \in Arrays
      BY <1>1, <1>2, <1>8, <3>2
    <3>5. Top.param \in 1 .. l + 1
      BY <3>2, <3>4
    <3> QED BY <1>13, <3>1, <3>2, <3>3, <3>4, <3>5 DEF HasArrayIn
  <2>3. \A g \in accesses : g \in DOMAIN params' /\ HasArrayIn(params'[g])
    BY <1>13, <2>1 DEF Extends
  <2>4. clone \in DOMAIN params'
    BY <1>12, <1>13
  <2> QED BY <1>10, <2>2, <2>3, <2>4
<1>25. OrderIs(order', params')
  <2>1. Place(f) \in DOMAIN order
    <3>1. f \in ToSet(order)
      BY <1>3, <1>4 DEF OrderIs
    <3> QED BY <3>1, PlaceIs
  <2>2. Append(params[f], t) \in Seq(Types)
    BY <1>3, <1>9, AppendProperties
  <2>3. OrderIs(InsertAt(order, Place(f), Len(order) + 1), Append(params, Append(params[f], t)))
    BY <1>4, <1>5, <2>1, <2>2, OrderLonger
  <2> QED BY <1>2, <1>10, <2>3
<1>26. \A g \in DOMAIN params : g \in DOMAIN params'
  BY <1>13 DEF Extends
<1>27. DataInv'
  <2>1. current' \in DOMAIN params' /\ returned' \in DOMAIN params' \cup {Null}
        /\ instrumented' \subseteq DOMAIN params'
    BY <1>10, <1>26 DEF CallsInv, DataInv
  <2>2. \A i \in DOMAIN frames' : frames'[i].f \in DOMAIN params'
    BY <1>17, <1>18, <1>26
  <2> QED BY <1>4, <1>10, <1>11, <1>17, <1>24, <1>25, <2>1, <2>2 DEF DataInv, Pcs
<1>28. StackInv'
  BY <1>10, <1>15, <1>17, <1>20, <1>21, <1>23 DEF StackInv, TopOk, Running
<1> QED BY <1>27, <1>28 DEF CallsInv

(* A function is replaced: what changes besides its calls.                 *)
LEMMA ReplaceStepKeeps ==
  ASSUME CallsInv, pc \in {"users", "caller"}, Replace(Top.f, Top.newFunc),
         ModuleInv(original, params, body', added \cup {Top.newFunc}, deleted \cup {Top.f}),
         Replaced(body, body', Top.f, Top.newFunc)
  PROVE  CallsInv'
<1>1. pc \in Running
  BY DEF Running
<1>2. PICK f, n : f = Top.f /\ n = Top.newFunc
  OBVIOUS
<1>3. /\ frames \in Seq(FrameSet) /\ frames # <<>> /\ Len(frames) \in Nat \ {0}
      /\ DOMAIN frames = 1 .. Len(frames) /\ Top = Last(frames)
      /\ f \in DOMAIN params
  BY <1>1, <1>2, TopIsFrame DEF CallsInv, DataInv
<1>4. /\ deleted' = deleted \cup {f} /\ added' = added \cup {n}
      /\ frames' = Front(frames) /\ returned' = n
      /\ pc' = (IF Len(frames) = 1 THEN "instrument" ELSE "caller")
      /\ UNCHANGED <<original, order, params, accesses, current, isChanged, instrumented>>
  BY <1>2 DEF Replace, Return
<1>5. Cloned(params, body, added, deleted, Last(frames)) /\ n # Null /\ n = Last(frames).newFunc
      /\ f = Last(frames).f
  <2>1. TopOk(params, body, added, deleted, pc, Last(frames))
    BY <1>1 DEF CallsInv, StackInv
  <2> QED BY <1>2, <1>3, <2>1 DEF TopOk
<1>6. n \in DOMAIN params
  BY <1>5 DEF Cloned
<1>7. /\ frames' \in Seq(FrameSet) /\ Len(frames') = Len(frames) - 1
      /\ \A i \in 1 .. Len(frames) - 1 : frames'[i] = frames[i]
  BY <1>3, <1>4, FrontIs
<1>8. \A i \in DOMAIN frames' : frames'[i].f \in DOMAIN params
  BY <1>3, <1>7 DEF CallsInv, DataInv
<1>9. DataInv'
  BY <1>2, <1>4, <1>6, <1>7, <1>8 DEF CallsInv, DataInv, Pcs
<1>10. StackInv'
  <2>1. CASE Len(frames) = 1
    BY <1>4, <1>7, <2>1 DEF StackInv, Running
  <2>2. CASE Len(frames) # 1
    <3>1. Below(params, body, added, deleted, frames) /\ Ordered(frames) /\ frames[1].f = current
      BY <1>1 DEF CallsInv, StackInv
    <3>2. DOMAIN body = DOMAIN params /\ AllStand(original, body, added, deleted)
      BY LenProperties DEF CallsInv, DataInv, ModuleInv, Shape
    <3>3. \A i \in DOMAIN frames : frames[i].f \in DOMAIN params
      BY DEF CallsInv, DataInv
    <3>4. PICK fs2, b2 : fs2 = frames' /\ b2 = body'
      OBVIOUS
    <3>5. fs2 = Front(frames) /\ Replaced(body, b2, f, n)
      BY <1>2, <1>4, <3>4
    <3>8. PICK fs : fs = frames
      OBVIOUS
    <3>9. /\ fs \in Seq(FrameSet) /\ fs # <<>> /\ \A i \in DOMAIN fs : fs[i].f \in DOMAIN params
          /\ Below(params, body, added, deleted, fs) /\ Ordered(fs) /\ Len(fs) # 1
          /\ Cloned(params, body, added, deleted, Last(fs)) /\ n # Null
          /\ n = Last(fs).newFunc /\ f = Last(fs).f /\ fs2 = Front(fs)
      BY <1>3, <1>5, <2>2, <3>1, <3>3, <3>5, <3>8
    <3>10. ReplacedStack(params, b2, added \cup {n}, deleted \cup {f}, fs, fs2, f, n)
      BY <3>2, <3>5, <3>9, ReplaceStack
    <3>6. /\ fs2 \in Seq(FrameSet) /\ fs2 # <<>> /\ fs2[1] = frames[1]
          /\ \A i \in DOMAIN fs2 : fs2[i].f \in DOMAIN params
          /\ Below(params, b2, added \cup {n}, deleted \cup {f}, fs2) /\ Ordered(fs2)
          /\ Last(fs2).newFunc # Null
          /\ Cloned(params, b2, added \cup {n}, deleted \cup {f}, Last(fs2))
          /\ CallerOk(b2, added \cup {n}, deleted \cup {f}, Last(fs2), n)
      BY <3>8, <3>10 DEF ReplacedStack
    <3>7. /\ frames' # <<>> /\ frames'[1].f = current
          /\ Below(params', body', added', deleted', frames') /\ Ordered(frames')
          /\ TopOk(params', body', added', deleted', pc', Last(frames'))
          /\ CallerOk(body', added', deleted', Last(frames'), returned')
      BY <1>4, <3>1, <3>4, <3>6 DEF TopOk
    <3> QED BY <1>4, <2>2, <3>7 DEF StackInv
  <2> QED BY <2>1, <2>2
<1> QED BY <1>9, <1>10 DEF CallsInv

(* The user calcArgs looks at.                                             *)
LEMMA UserIs ==
  ASSUME CallsInv, pc = "users", NEW user \in FirstUsers(Top.f)
  PROVE  /\ user[1] \in DOMAIN body /\ user[1] \in DOMAIN params
         /\ user[2] \in DOMAIN body[user[1]]
         /\ body[user[1]][user[2]].callee = Top.f /\ body[user[1]][user[2]] \in Call
         /\ Top.f \in First \ deleted
         /\ Top.newFunc \in DOMAIN params \ First /\ Top.newFunc \notin added
         /\ Top.newFunc # Null /\ IsCloneOf(params, Top.f, Top.newFunc)
         /\ Calls(body, user[1], Top.f)
         /\ \A h \in DOMAIN params \ First :
              Calls(body, h, Top.f) => user[1] \notin First /\ h <= user[1]
<1>1. pc \in Running
  BY DEF Running
<1>2. PICK f, g, k : f = Top.f /\ g = user[1] /\ k = user[2]
  OBVIOUS
<1>3. /\ params \in Seq(Seq(Types)) /\ body \in Seq(Seq(Call)) /\ Len(body) = Len(params)
      /\ DOMAIN body = DOMAIN params
  BY LenProperties DEF CallsInv, DataInv, ModuleInv, Shape
<1>4. Originals = First
  BY LenProperties DEF CallsInv, DataInv, Given, Originals, First
<1>5. /\ g \in DOMAIN params /\ k \in DOMAIN body[g] /\ body[g][k].callee = f
      /\ \A h \in DOMAIN params \ First : Calls(body, h, f) => g \notin First /\ h <= g
  BY <1>2, <1>3, <1>4, FirstUsersAre DEF Functions
<1>6. body[g][k] \in Call
  BY <1>3, <1>5
<1>7. Cloned(params, body, added, deleted, Top) /\ Top.newFunc # Null
  BY <1>1 DEF CallsInv, StackInv, TopOk, Top
<1>8. f \in First \cup added
  BY <1>3, <1>5 DEF CallsInv, DataInv, ModuleInv, AllStand, Stands
<1>9. f \in First \ deleted
  BY <1>2, <1>7, <1>8 DEF Cloned
<1>10. Calls(body, g, f)
  BY <1>5 DEF Calls
<1> QED BY <1>2, <1>3, <1>5, <1>6, <1>7, <1>9, <1>10 DEF Cloned

LEMMA ReplaceCallKeeps == CallsInv /\ ReplaceCall => CallsInv'
<1> SUFFICES ASSUME CallsInv, ReplaceCall PROVE CallsInv'
  OBVIOUS
<1>1. pc = "users"
  BY DEF ReplaceCall
<1>2. PICK user \in FirstUsers(Top.f) :
        LET g == user[1]
            call == body[g][user[2]]
            args == NewArgs(call.args)
        IN /\ call.args[1].kind # "param"
           /\ IF Fits(params[g], args, params[Top.newFunc])
                THEN /\ body' = [body EXCEPT ![g][user[2]] =
                                   [@ EXCEPT !.callee = Top.newFunc, !.args = args]]
                     /\ Replace(Top.f, Top.newFunc)
                ELSE Stop("undefined")
  BY DEF ReplaceCall
<1>3. PICK g, k, c : g = user[1] /\ k = user[2] /\ c = body[g][k]
  OBVIOUS
<1>4. CASE ~ Fits(params[g], NewArgs(c.args), params[Top.newFunc])
  <2>1. Stop("undefined")
    BY <1>2, <1>3, <1>4
  <2> QED BY <2>1, StopKeeps
<1>5. CASE Fits(params[g], NewArgs(c.args), params[Top.newFunc])
  <2>1. c.args[1].kind # "param" /\ Replace(Top.f, Top.newFunc)
    BY <1>2, <1>3, <1>5
  <2>2. body' = Rewritten(body, g, k, Top.newFunc)
    BY <1>2, <1>3, <1>5 DEF Rewritten
  <2>3. /\ g \in DOMAIN body /\ k \in DOMAIN body[g] /\ c.callee = Top.f
        /\ Top.f \in First
        /\ Top.newFunc \in DOMAIN params \ First /\ Top.newFunc \notin added
        /\ IsCloneOf(params, Top.f, Top.newFunc)
    BY <1>1, <1>3, UserIs
  <2>4. Given(original) /\ ModuleInv(original, params, body, added, deleted)
    BY DEF CallsInv, DataInv
  <2>5. PICK f, n : f = Top.f /\ n = Top.newFunc
    OBVIOUS
  <2>6. /\ ModuleInv(original, params, Rewritten(body, g, k, n), added \cup {n}, deleted \cup {f})
        /\ Replaced(body, Rewritten(body, g, k, n), f, n)
    BY <1>3, <1>5, <2>1, <2>3, <2>4, <2>5, RewriteKeeps
  <2> QED BY <1>1, <2>1, <2>2, <2>5, <2>6, ReplaceStepKeeps
<1> QED BY <1>4, <1>5

LEMMA CalcArgsOfCallerKeeps == CallsInv /\ CalcArgsOfCaller => CallsInv'
<1> SUFFICES ASSUME CallsInv, CalcArgsOfCaller PROVE CallsInv'
  OBVIOUS
<1>1. pc = "users" /\ pc \in Running
  BY DEF CalcArgsOfCaller, Running
<1>2. PICK user \in FirstUsers(Top.f) :
        LET g == user[1]
            call == body[g][user[2]]
        IN /\ call.args[1].kind = "param"
           /\ frames' = Append(Append(Front(frames), [Top EXCEPT !.call = <<g, call.site>>]),
                               Frame(g))
  BY DEF CalcArgsOfCaller
<1>3. PICK g, k, c : g = user[1] /\ k = user[2] /\ c = body[g][k]
  OBVIOUS
<1>4. PICK F, G : F = [Top EXCEPT !.call = <<g, c.site>>] /\ G = Frame(g)
  OBVIOUS
<1>5. PICK fs, fs2 : fs = frames /\ fs2 = frames'
  OBVIOUS
<1>6. fs2 = Append(WithTop(fs, F), G) /\ c.args[1].kind = "param"
  BY <1>2, <1>3, <1>4, <1>5 DEF WithTop
<1>7. /\ fs \in Seq(FrameSet) /\ fs # <<>> /\ Len(fs) \in Nat \ {0} /\ DOMAIN fs = 1 .. Len(fs)
      /\ Top = Last(fs) /\ Top = fs[Len(fs)] /\ Top \in FrameSet
  BY <1>1, <1>5, TopIsFrame DEF CallsInv, DataInv
<1>8. /\ g \in DOMAIN body /\ g \in DOMAIN params /\ k \in DOMAIN body[g] /\ c.callee = Top.f
      /\ c \in Call /\ Top.f \in First \ deleted /\ Top.newFunc # Null
      /\ Calls(body, g, Top.f)
      /\ \A h \in DOMAIN params \ First : Calls(body, h, Top.f) => g \notin First /\ h <= g
  BY <1>1, <1>3, UserIs
<1>9. DOMAIN body = DOMAIN params /\ params \in Seq(Seq(Types)) /\ g \in Nat
  BY <1>8, LenProperties DEF CallsInv, DataInv, ModuleInv, Shape
<1>10. c.site \in Nat \X Nat
  BY <1>8 DEF Call
<1>11. /\ F \in FrameSet /\ F.f = Top.f /\ F.newFunc = Top.newFunc /\ F.call = <<g, c.site>>
       /\ G \in FrameSet /\ G.f = g /\ G.newFunc = Null /\ G.param = 1
  BY <1>4, <1>7, <1>9, <1>10 DEF Frame, FrameSet, Null
<1>12. /\ Below(params, body, added, deleted, fs) /\ Ordered(fs) /\ fs[1].f = current
       /\ Cloned(params, body, added, deleted, Top)
  BY <1>1, <1>5, <1>8 DEF CallsInv, StackInv, TopOk, Top
<1>13. Cloned(params, body, added, deleted, F)
  BY <1>11, <1>12 DEF Cloned
<1>14. WaitsFor(body, F, G.f)
  BY <1>3, <1>6, <1>8, <1>11 DEF WaitsFor
<1>15. ASSUME NEW i \in DOMAIN fs PROVE fs[i].f # G.f
  <2>1. PICK E : E = fs[i]
    OBVIOUS
  <2>2. E \in FrameSet
    BY <1>7, <2>1
  <2>3. Cloned(params, body, added, deleted, E)
    <3>1. CASE i = Len(fs)
      BY <1>7, <1>12, <2>1, <3>1
    <3>2. CASE i # Len(fs)
      <4>1. i \in 1 .. Len(fs) - 1
        BY <1>7, <3>2
      <4> QED BY <1>12, <2>1, <4>1 DEF Below
    <3> QED BY <3>1, <3>2
  <2>4. E.newFunc \in Nat /\ E.f \in Nat
    BY <2>2 DEF FrameSet
  <2>5. PICK z \in First \ deleted : z = Top.f
    BY <1>8
  <2>6. g # E.f
    BY <1>8, <1>9, <2>3, <2>4, <2>5, NewCaller
  <2> QED BY <1>11, <2>1, <2>6
<1>16. PushedIs(params, body, added, deleted, fs, G, fs2)
  BY <1>6, <1>7, <1>8, <1>11, <1>12, <1>13, <1>14, <1>15, Pushed
<1>17. /\ fs2 \in Seq(FrameSet) /\ fs2 # <<>> /\ Last(fs2) = G
       /\ Len(fs2) = Len(fs) + 1 /\ fs2[1].f = current
       /\ \A i \in 1 .. Len(fs) : fs2[i].f = fs[i].f
       /\ Below(params, body, added, deleted, fs2) /\ Ordered(fs2)
  BY <1>12, <1>16 DEF PushedIs
<1>18. Scanned(params, G)
  <2>1. params[g] \in Seq(Types)
    BY <1>8, <1>9
  <2> QED BY <1>11, <2>1 DEF Scanned
<1>19. \A i \in DOMAIN fs2 : fs2[i].f \in DOMAIN params
  <2> SUFFICES ASSUME NEW i \in DOMAIN fs2 PROVE fs2[i].f \in DOMAIN params
    OBVIOUS
  <2>1. i \in 1 .. Len(fs) + 1
    BY <1>17, LenProperties
  <2>2. CASE i = Len(fs) + 1
    BY <1>8, <1>11, <1>17, <2>2 DEF Last
  <2>3. CASE i # Len(fs) + 1
    <3>1. i \in 1 .. Len(fs)
      BY <1>7, <2>1, <2>3
    <3>2. frames[i].f \in DOMAIN params
      BY <1>5, <1>7, <3>1 DEF CallsInv, DataInv
    <3> QED BY <1>5, <1>17, <3>1, <3>2
  <2> QED BY <2>2, <2>3
<1>20. DataInv'
  BY <1>5, <1>17, <1>19 DEF CalcArgsOfCaller, CallsInv, DataInv, Pcs, module
<1>21. StackInv'
  BY <1>5, <1>11, <1>17, <1>18 DEF CalcArgsOfCaller, StackInv, TopOk, Running, module
<1> QED BY <1>20, <1>21 DEF CallsInv

LEMMA ReplaceCallInCloneKeeps == CallsInv /\ ReplaceCallInClone => CallsInv'
<1> SUFFICES ASSUME CallsInv, ReplaceCallInClone PROVE CallsInv'
  OBVIOUS
<1>1. pc = "caller" /\ pc \in Running /\ returned # Null
  BY DEF ReplaceCallInClone, Running
<1>2. PICK f, n, r, g, site : /\ f = Top.f /\ n = Top.newFunc /\ r = returned
                              /\ g = Top.call[1] /\ site = Top.call[2]
  OBVIOUS
<1>3. PICK k, d : k = FirstCall(r, f) /\ d = CallAt(g, f, site)
  OBVIOUS
<1>4. PICK args : args = <<body[r][k].args[1], Param(2)>>
  OBVIOUS
<1>5. IF Fits(params[r], args, params[n])
        THEN /\ body' = InClone(body, r, k, n, g, d)
             /\ Replace(f, n)
        ELSE Stop("undefined")
  BY <1>2, <1>3, <1>4 DEF ReplaceCallInClone, InClone
<1>6. CASE ~ Fits(params[r], args, params[n])
  <2>1. Stop("undefined")
    BY <1>5, <1>6
  <2> QED BY <2>1, StopKeeps
<1>7. CASE Fits(params[r], args, params[n])
  <2>1. body' = InClone(body, r, k, n, g, d) /\ Replace(f, n)
    BY <1>5, <1>7
  <2>2. CallerOk(body, added, deleted, Top, r) /\ TopOk(params, body, added, deleted, pc, Top)
    BY <1>1, <1>2 DEF CallsInv, StackInv, Top
  <2>3. /\ g \in DOMAIN body /\ r \in added /\ g \in deleted
        /\ Calls(body, r, f) /\ SameOrigin(body, g, r)
        /\ \E e \in DOMAIN body[g] : /\ body[g][e].callee = f /\ body[g][e].site = site
                                     /\ body[g][e].args[1].kind = "param"
    BY <1>1, <1>2, <2>2 DEF CallerOk, WaitsFor
  <2>4. Cloned(params, body, added, deleted, Top) /\ n # Null
    BY <1>1, <1>2, <2>2 DEF TopOk
  <2>5. Given(original) /\ ModuleInv(original, params, body, added, deleted)
    BY DEF CallsInv, DataInv
  <2>6. /\ body \in Seq(Seq(Call)) /\ r \in DOMAIN body /\ g # r
        /\ AllStand(original, body, added, deleted)
    BY <2>3, <2>5 DEF ModuleInv, Shape
  <2>7. body[r] \in Seq(Call) /\ body[g] \in Seq(Call)
    BY <2>3, <2>6
  <2>8. k \in DOMAIN body[r] /\ body[r][k].callee = f
    BY <1>3, <2>3, <2>7, FirstCallIs DEF Calls
  <2>9. d \in DOMAIN body[g] /\ body[g][d].callee = f
    BY <1>3, <2>3, <2>7, CallAtIs
  <2>10. f \in First \ deleted
    <3>1. f \in First \cup added
      BY <2>6, <2>8 DEF AllStand, Stands
    <3> QED BY <1>2, <2>4, <3>1 DEF Cloned
  <2>11. n \in DOMAIN params \ First /\ n \notin added /\ IsCloneOf(params, f, n)
    BY <1>2, <2>4 DEF Cloned
  <2>12. PICK e \in DOMAIN body[g] : body[g][e].callee = f /\ body[g][e].args[1].kind = "param"
    BY <2>3
  <2>13. Fits(params[r], <<body[r][k].args[1], Param(2)>>, params[n])
    BY <1>4, <1>7
  <2>14. /\ ModuleInv(original, params, InClone(body, r, k, n, g, d), added \cup {n}, deleted \cup {f})
         /\ Replaced(body, InClone(body, r, k, n, g, d), f, n)
    BY <2>3, <2>5, <2>6, <2>8, <2>9, <2>10, <2>11, <2>12, <2>13, InsertKeeps
  <2> QED BY <1>1, <1>2, <2>1, <2>14, ReplaceStepKeeps
<1> QED BY <1>6, <1>7

LEMMA CallsNext == CallsInv /\ [Next]_vars => CallsInv'
<1> SUFFICES ASSUME CallsInv, [Next]_vars PROVE CallsInv'
  OBVIOUS
<1>1. CASE InstrumentNothing
  BY <1>1, StopKeeps DEF InstrumentNothing
<1>2. CASE CloneAgainFails
  BY <1>2, StopKeeps DEF CloneAgainFails
<1>3. CASE CallerNotReplaced
  BY <1>3, StopKeeps DEF CallerNotReplaced
<1>4. CASE UNCHANGED vars
  BY <1>4 DEF CallsInv, DataInv, StackInv, vars
<1>5. CASE Finished
  BY <1>4, <1>5 DEF Finished
<1> QED BY <1>1, <1>2, <1>3, <1>4, <1>5, VisitKeeps, InstrumentKeeps, ReturnNullKeeps, SkipKeeps,
           CloneStepKeeps, NoUsersKeeps, ReplaceCallKeeps, CalcArgsOfCallerKeeps,
           ReplaceCallInCloneKeeps DEF Next

(* What the invariant says.                                                *)
LEMMA CallsTypes == CallsInv => TypeOK
<1> SUFFICES ASSUME CallsInv PROVE TypeOK
  OBVIOUS
<1>1. /\ params \in Seq(Seq(Types)) /\ body \in Seq(Seq(Call)) /\ Len(body) = Len(params)
      /\ DOMAIN body = DOMAIN params
  BY LenProperties DEF CallsInv, DataInv, ModuleInv, Shape
<1>2. deleted \cup added \cup instrumented \subseteq Functions
  <2>1. added \subseteq Functions /\ instrumented \subseteq Functions /\ deleted \subseteq First
    BY DEF CallsInv, DataInv, ModuleInv, Shape, Functions
  <2>2. First \subseteq DOMAIN params
    <3>1. Len(Order) \in Nat /\ Len(params) \in Nat /\ Len(Order) <= Len(params)
      BY <1>1, ModuleAssumption, LenProperties DEF CallsInv, DataInv, ModuleInv, Shape
    <3>2. DOMAIN params = 1 .. Len(params) /\ First = 1 .. Len(Order)
      BY <1>1, LenProperties DEF First
    <3> QED BY <3>1, <3>2
  <2> QED BY <2>1, <2>2 DEF Functions
<1>3. ASSUME NEW f \in Functions, NEW k \in DOMAIN body[f]
      PROVE  body[f][k].callee \in Functions
             /\ Fits(params[f], body[f][k].args, params[body[f][k].callee])
  BY <1>1, <1>3 DEF CallsInv, DataInv, ModuleInv, Fitting, Functions
<1>4. ToSet(order) = Functions /\ IsInjective(order)
  BY DEF CallsInv, DataInv, OrderIs, Functions
<1> QED BY <1>1, <1>2, <1>3, <1>4 DEF TypeOK, CallsInv, DataInv, Functions, Pcs

LEMMA CallsSizes == CallsInv => SizesAgree
<1> SUFFICES ASSUME CallsInv PROVE SizesAgree
  OBVIOUS
<1>1. DOMAIN body = Functions /\ AllSized(original, params, body, added)
  BY LenProperties DEF CallsInv, DataInv, ModuleInv, Shape, Functions
<1>2. ASSUME NEW f \in Functions, NEW k \in DOMAIN body[f]
      PROVE  LET call == body[f][k] IN
             /\ call.callee \in added =>
                  \/ PassesOwnSize(f, call)
                  \/ /\ f \in added /\ Last(call.args) = Param(2)
                     /\ LastArray(f) # 1 \/ CalledAgain(call.site)
             /\ (\E j \in DOMAIN body[f] \ {k} : body[f][j].site = call.site) =>
                  f \in added /\ (call.args[1].kind = "param" \/ CalledAgain(call.site))
  <2>1. PICK c : c = body[f][k]
    OBVIOUS
  <2>2. /\ Sized(original, params, added, f, c)
        /\ \A j \in DOMAIN body[f] \ {k} : body[f][j].site = c.site => Passed(original, added, f, c)
    BY <1>1, <2>1 DEF AllSized
  <2>3. LastArray(f) = LastIn(params[f]) /\ LastArray(c.callee) = LastIn(params[c.callee])
    BY DEF LastArray, LastIn
  <2>4. OwnSize(params, added, f, c) => PassesOwnSize(f, c)
    BY <2>3 DEF OwnSize, PassesOwnSize
  <2>5. Again(original, c.site) => CalledAgain(c.site)
    BY DEF Again, CalledAgain
  <2>6. c.callee \in added =>
          \/ PassesOwnSize(f, c)
          \/ /\ f \in added /\ Last(c.args) = Param(2)
             /\ LastArray(f) # 1 \/ CalledAgain(c.site)
    BY <2>2, <2>3, <2>4, <2>5 DEF Sized
  <2>7. ASSUME NEW j \in DOMAIN body[f] \ {k}, body[f][j].site = c.site
        PROVE  f \in added /\ (c.args[1].kind = "param" \/ CalledAgain(c.site))
    BY <2>2, <2>5, <2>7 DEF Passed
  <2> QED BY <2>1, <2>6, <2>7
<1> QED BY <1>2, CallsTypes DEF SizesAgree

----------------------------------------------------------------------------
(* The walk of runOnModule                                                 *)

(* calcArgs finds nothing to do for f.                                     *)
SettledIn(ps, add, del, f) == f = Main \/ f \in add \/ f \in del \/ ~ HasArrayIn(ps[f])

(* Functions before the current one are replaced or instrumented, and      *)
(* settled, but for the clone of the current one, c.                       *)
CameTo(ord, ps, add, del, ins, cur, c) ==
  \A p, q \in DOMAIN ord :
    ord[p] = cur /\ q < p =>
      ord[q] = c \/ (ord[q] \in del \cup ins /\ SettledIn(ps, add, del, ord[q]))

LEMMA CameToMore ==
  ASSUME NEW ord, NEW ps, NEW add, NEW del, NEW ins, NEW cur, NEW c,
         CameTo(ord, ps, add, del, ins, cur, c),
         NEW add2, NEW del2, NEW ins2, add \subseteq add2, del \subseteq del2, ins \subseteq ins2
  PROVE  CameTo(ord, ps, add2, del2, ins2, cur, c)
<1> SUFFICES ASSUME NEW p \in DOMAIN ord, NEW q \in DOMAIN ord, ord[p] = cur, q < p
             PROVE  \/ ord[q] = c
                    \/ ord[q] \in del2 \cup ins2 /\ SettledIn(ps, add2, del2, ord[q])
  BY DEF CameTo
<1>1. ord[q] = c \/ (ord[q] \in del \cup ins /\ SettledIn(ps, add, del, ord[q]))
  BY DEF CameTo
<1>2. SettledIn(ps, add, del, ord[q]) => SettledIn(ps, add2, del2, ord[q])
  BY DEF SettledIn
<1> QED BY <1>1, <1>2

(* A clone of f is put before it; f is the current function or after it.   *)
LEMMA CameToClone ==
  ASSUME NEW ps \in Seq(Seq(Types)), NEW ord, OrderIs(ord, ps), NEW i \in DOMAIN ord,
         NEW add, NEW del, NEW ins, NEW cur \in DOMAIN ps, NEW c, NEW c2,
         CameTo(ord, ps, add, del, ins, cur, c),
         ~ SettledIn(ps, add, del, ord[i]), ord[i] # c,
         IF ord[i] = cur THEN c2 = Len(ord) + 1 /\ c = Null ELSE c2 = c,
         NEW t \in Seq(Types), NEW ord2, ord2 = InsertAt(ord, i, Len(ord) + 1),
         NEW ps2, ps2 = Append(ps, t)
  PROVE  CameTo(ord2, ps2, add, del, ins, cur, c2)
<1>1. PICK n \in Nat : n = Len(ord) /\ n = Len(ps)
  BY DEF OrderIs
<1>2. ord \in Seq(Nat) /\ DOMAIN ord = 1 .. n /\ DOMAIN ps = 1 .. n
  BY <1>1, LenProperties DEF OrderIs
<1>3. /\ Len(ord2) = n + 1
      /\ \A j \in 1 .. n + 1 :
           ord2[j] = IF j < i THEN ord[j] ELSE IF j = i THEN n + 1 ELSE ord[j - 1]
      /\ DOMAIN ord2 = 1 .. n + 1
  <2>1. i \in 1 .. Len(ord) + 1 /\ n + 1 \in Nat
    BY <1>1, <1>2
  <2>2. ord2 \in Seq(Nat) /\ IsInserted(ord, i, n + 1, ord2)
    BY <1>1, <1>2, <2>1, InsertAtIs
  <2> QED BY <1>1, <2>2, LenProperties DEF IsInserted
<1>4. \A p \in 1 .. n : ord[p] \in 1 .. n
  BY <1>2 DEF OrderIs, ToSet
<1>5. \A p, q \in 1 .. n : ord[p] = ord[q] => p = q
  BY <1>2 DEF OrderIs, IsInjective
<1>6. \A h \in 1 .. n : SettledIn(ps, add, del, h) => SettledIn(ps2, add, del, h)
  <2> SUFFICES ASSUME NEW h \in 1 .. n PROVE ps2[h] = ps[h]
    BY DEF SettledIn
  <2>1. PICK T : T = Seq(Types)
    OBVIOUS
  <2> QED BY <1>1, <2>1, AppendProperties
<1> SUFFICES ASSUME NEW p \in 1 .. n + 1, NEW q \in 1 .. n + 1, ord2[p] = cur, q < p
             PROVE  \/ ord2[q] = c2
                    \/ ord2[q] \in del \cup ins /\ SettledIn(ps2, add, del, ord2[q])
  BY <1>3 DEF CameTo
<1>7. i \in 1 .. n /\ i \in Nat
  BY <1>2
<1>8. \A r \in 1 .. n : ord[r] = cur => r <= i
  <2> SUFFICES ASSUME NEW r \in 1 .. n, ord[r] = cur, i < r PROVE FALSE
    BY <1>7
  <2>1. ord[i] = c \/ (ord[i] \in del \cup ins /\ SettledIn(ps, add, del, ord[i]))
    BY <1>2, <1>7 DEF CameTo
  <2> QED BY <2>1
<1>9. p # i
  BY <1>2, <1>3, <1>7
<1>10. PICK r \in 1 .. n : ord[r] = cur /\ r = (IF p < i THEN p ELSE p - 1)
  <2>1. CASE p < i
    <3>1. p \in 1 .. n
      BY <1>7, <2>1
    <3> QED BY <1>3, <2>1, <3>1
  <2>2. CASE ~ (p < i)
    <3>1. p - 1 \in 1 .. n
      BY <1>7, <1>9, <2>2
    <3> QED BY <1>3, <1>9, <2>2, <3>1
  <2> QED BY <2>1, <2>2
<1>11. r <= i
  BY <1>8, <1>10
<1>12. q <= i
  BY <1>7, <1>10, <1>11
<1>13. CASE q = i
  <2>1. r = i
    BY <1>7, <1>10, <1>11, <1>13
  <2>2. ord2[q] = n + 1
    BY <1>3, <1>7, <1>13
  <2> QED BY <1>1, <1>10, <2>1, <2>2
<1>14. CASE q < i
  <2>1. q \in 1 .. n /\ q < r /\ ord2[q] = ord[q]
    BY <1>3, <1>7, <1>9, <1>10, <1>14
  <2>2. ord[q] = c \/ (ord[q] \in del \cup ins /\ SettledIn(ps, add, del, ord[q]))
    BY <1>2, <1>10, <2>1 DEF CameTo
  <2>3. ord[q] \in 1 .. n
    BY <1>4, <2>1
  <2>4. ord[q] = c => c2 = c
    BY <2>3 DEF Null
  <2> QED BY <1>6, <2>1, <2>2, <2>3, <2>4
<1> QED BY <1>7, <1>12, <1>13, <1>14

ClonedCurrent == IF frames # <<>> THEN frames[1].newFunc ELSE IF isChanged THEN returned ELSE Null

(* The pass has not stopped and will not stop by the next step, and works   *)
(* on no clone of a clone.                                                 *)
OnCourse ==
  /\ pc \notin {"undefined", "exit"}
  /\ pc = "caller" \/ (pc = "instrument" /\ isChanged) => returned # Null
  /\ frames # <<>> => (Top.newFunc # Null => Top.f \in First)

CourseInv ==
  /\ pc = "visit" => ~ isChanged
  /\ pc \in Running => (isChanged <=> frames[1].newFunc # Null)
  /\ OnCourse => CameTo(order, params, added, deleted, instrumented, current, ClonedCurrent)
  /\ pc = "instrument" =>
       IF isChanged THEN returned # Null => returned \in added /\ current \in deleted
       ELSE SettledIn(params, added, deleted, current)
  /\ pc = "done" => DOMAIN params \ instrumented \subseteq deleted

LEMMA CourseInit == Init => CourseInv
<1> SUFFICES ASSUME Init PROVE CourseInv
  OBVIOUS
<1>1. /\ pc = "visit" /\ ~ isChanged /\ current = Head(order) /\ order = Order
  BY DEF Init
<1>2. CameTo(order, params, added, deleted, instrumented, current, ClonedCurrent)
  <2> SUFFICES ASSUME NEW p \in DOMAIN order, NEW q \in DOMAIN order, order[p] = current, q < p
               PROVE  FALSE
    BY DEF CameTo
  <2>1. order \in Seq(Nat) /\ IsInjective(order) /\ order # <<>>
    BY <1>1, ModuleAssumption DEF ToSet
  <2>2. order[p] = order[1] /\ 1 \in DOMAIN order
    BY <1>1, <2>1
  <2>3. p = 1
    BY <2>1, <2>2 DEF IsInjective
  <2> QED BY <2>1, <2>3
<1> QED BY <1>1, <1>2 DEF CourseInv, Running

LEMMA CourseStop ==
  ASSUME NEW r \in {"undefined", "exit"}, Stop(r)
  PROVE  CourseInv'
BY DEF CourseInv, Stop, OnCourse, Running

LEMMA CourseVisit == CallsInv /\ CourseInv /\ Visit => CourseInv'
<1> SUFFICES ASSUME CallsInv, CourseInv, Visit PROVE CourseInv'
  OBVIOUS
<1>1. pc = "visit" /\ frames = <<>> /\ ~ isChanged
  BY DEF Visit, CallsInv, StackInv, CourseInv
<1>2. OnCourse /\ ClonedCurrent = Null
  BY <1>1 DEF OnCourse, ClonedCurrent
<1>3. frames' # <<>> /\ frames'[1].newFunc = Null
  BY DEF Visit, Frame
<1>4. ClonedCurrent' = Null
  BY <1>3 DEF ClonedCurrent
<1>5. CameTo(order, params, added, deleted, instrumented, current, Null)
  BY <1>2 DEF CourseInv
<1>6. /\ pc' = "calcArgs"
      /\ UNCHANGED <<order, params, current, isChanged, deleted, added, instrumented>>
  BY DEF Visit, module
<1> QED BY <1>1, <1>3, <1>4, <1>5, <1>6 DEF CourseInv

(* The next function: current is come to as well.                          *)
NextCame(ord, ps, add, del, ins, p, c) ==
  \A q \in DOMAIN ord : q <= p =>
    ord[q] = c \/ (ord[q] \in del \cup ins /\ SettledIn(ps, add, del, ord[q]))

LEMMA CameToNext ==
  ASSUME NEW ord \in Seq(Nat), IsInjective(ord), NEW ps, NEW add, NEW del, NEW ins,
         NEW p \in DOMAIN ord, NEW c, NEW c2, NEW x,
         CameTo(ord, ps, add, del, ins, ord[p], c),
         c # c2 => c = x /\ x \in add,
         ord[p] \in del \cup (ins \cup {x}), SettledIn(ps, add, del, ord[p])
  PROVE  NextCame(ord, ps, add, del, ins \cup {x}, p, c2)
<1> SUFFICES ASSUME NEW q \in DOMAIN ord, q <= p
             PROVE  \/ ord[q] = c2
                    \/ ord[q] \in del \cup (ins \cup {x}) /\ SettledIn(ps, add, del, ord[q])
  BY DEF NextCame
<1>1. CASE q = p
  BY <1>1
<1>2. CASE q # p
  <2>1. q < p
    BY <1>2
  <2>2. ord[q] = c \/ (ord[q] \in del \cup ins /\ SettledIn(ps, add, del, ord[q]))
    BY <2>1 DEF CameTo
  <2>3. c = x /\ x \in add => SettledIn(ps, add, del, x)
    BY DEF SettledIn
  <2> QED BY <2>2, <2>3
<1> QED BY <1>1, <1>2

LEMMA CourseInstrument == CallsInv /\ CourseInv /\ Instrument => CourseInv'
<1> SUFFICES ASSUME CallsInv, CourseInv, Instrument PROVE CourseInv'
  OBVIOUS
<1>1. /\ pc = "instrument" /\ Target # Null /\ instrumented' = instrumented \cup {Target}
      /\ isChanged' = FALSE /\ frames' = frames
      /\ UNCHANGED <<order, params, deleted, added>>
  BY DEF Instrument, module
<1>2. /\ frames = <<>> /\ isChanged \in BOOLEAN /\ current \in DOMAIN params
      /\ OrderIs(order, params)
  BY <1>1 DEF CallsInv, StackInv, DataInv
<1>3. PICK x, c : x = Target /\ c = ClonedCurrent
  OBVIOUS
<1>4. /\ isChanged => x = returned /\ c = returned /\ x \in added /\ current \in deleted
      /\ ~ isChanged => x = current /\ c = Null /\ SettledIn(params, added, deleted, current)
  BY <1>1, <1>2, <1>3 DEF CourseInv, Target, ClonedCurrent
<1>5. OnCourse
  BY <1>1, <1>2, <1>3, <1>4 DEF OnCourse
<1>6. CameTo(order, params, added, deleted, instrumented, current, c)
  BY <1>3, <1>5 DEF CourseInv
<1>7. /\ current \in deleted \cup (instrumented \cup {x})
      /\ SettledIn(params, added, deleted, current)
  BY <1>2, <1>4 DEF SettledIn
<1>8. order \in Seq(Nat) /\ IsInjective(order) /\ ToSet(order) = DOMAIN params
  BY <1>2 DEF OrderIs
<1>9. PICK p \in DOMAIN order : p = Place(current) /\ order[p] = current
  BY <1>2, <1>8, PlaceIs
<1>10. \A q \in DOMAIN order : q <= p =>
         \/ order[q] = Null
         \/ order[q] \in deleted \cup (instrumented \cup {x})
            /\ SettledIn(params, added, deleted, order[q])
  <2>1. c # Null => c = x /\ x \in added
    BY <1>2, <1>4
  <2>2. /\ CameTo(order, params, added, deleted, instrumented, order[p], c)
        /\ order[p] \in deleted \cup (instrumented \cup {x})
        /\ SettledIn(params, added, deleted, order[p])
    BY <1>6, <1>7, <1>9
  <2>3. NextCame(order, params, added, deleted, instrumented \cup {x}, p, Null)
    BY <1>8, <2>1, <2>2, CameToNext
  <2> QED BY <2>3 DEF NextCame
<1>11. ClonedCurrent' = Null
  BY <1>1, <1>2 DEF ClonedCurrent
<1>12. instrumented' = instrumented \cup {x}
  BY <1>1, <1>3
<1>13. PICK n \in Nat : n = Len(order) /\ DOMAIN order = 1 .. n
  BY <1>8, LenProperties
<1>14. Last(order) = order[n]
  BY <1>13 DEF Last
<1>15. CASE current = Last(order)
  <2>1. pc' = "done" /\ current' = current
    BY <1>15 DEF Instrument
  <2>2. p = n
    <3>1. p \in 1 .. n /\ n \in 1 .. n /\ order[p] = order[n]
      BY <1>9, <1>13, <1>14, <1>15
    <3> QED BY <1>8, <1>13, <3>1 DEF IsInjective
  <2>3. DOMAIN params \ instrumented' \subseteq deleted
    <3> SUFFICES ASSUME NEW h \in DOMAIN params PROVE h \in deleted \cup instrumented'
      OBVIOUS
    <3>1. PICK q \in DOMAIN order : order[q] = h
      BY <1>8 DEF ToSet
    <3>2. q <= p /\ h # Null
      <4>1. params \in Seq(Seq(Types))
        BY DEF CallsInv, DataInv, ModuleInv, Shape
      <4> QED BY <1>13, <2>2, <3>1, <4>1 DEF Null
    <3> QED BY <1>10, <1>12, <3>1, <3>2
  <2>4. CameTo(order, params, added, deleted, instrumented', current, Null)
    <3> SUFFICES ASSUME NEW r \in DOMAIN order, NEW q \in DOMAIN order, order[r] = current, q < r
                 PROVE  \/ order[q] = Null
                        \/ order[q] \in deleted \cup instrumented'
                           /\ SettledIn(params, added, deleted, order[q])
      BY DEF CameTo
    <3>1. r = p
      BY <1>8, <1>9 DEF IsInjective
    <3> QED BY <1>10, <1>12, <1>13, <3>1
  <2> QED BY <1>1, <1>11, <2>1, <2>3, <2>4 DEF CourseInv, Running
<1>16. CASE current # Last(order)
  <2>1. pc' = "visit" /\ current' = order[p + 1]
    BY <1>9, <1>16 DEF Instrument
  <2>2. p + 1 \in DOMAIN order
    <3>1. p # n
      BY <1>9, <1>14, <1>16
    <3> QED BY <1>13, <3>1
  <2>3. CameTo(order, params, added, deleted, instrumented', current', Null)
    <3> SUFFICES ASSUME NEW r \in DOMAIN order, NEW q \in DOMAIN order, order[r] = order[p + 1],
                        q < r
                 PROVE  \/ order[q] = Null
                        \/ order[q] \in deleted \cup instrumented'
                           /\ SettledIn(params, added, deleted, order[q])
      BY <2>1 DEF CameTo
    <3>1. r = p + 1
      BY <1>8, <2>2 DEF IsInjective
    <3>2. q <= p
      BY <1>13, <3>1
    <3> QED BY <1>10, <1>12, <3>2
  <2> QED BY <1>1, <1>11, <2>1, <2>3 DEF CourseInv, Running
<1> QED BY <1>15, <1>16

LEMMA CourseReturnNull == CallsInv /\ CourseInv /\ ReturnNull => CourseInv'
<1> SUFFICES ASSUME CallsInv, CourseInv, ReturnNull PROVE CourseInv'
  OBVIOUS
<1>1. /\ pc = "calcArgs" /\ pc \in Running
      /\ PassedOver(Top.f) \/ Top.param > Len(params[Top.f])
      /\ frames' = Front(frames) /\ returned' = Null
      /\ pc' = (IF Len(frames) = 1 THEN "instrument" ELSE "caller")
      /\ UNCHANGED <<order, params, current, isChanged, deleted, added, instrumented>>
  BY DEF ReturnNull, Return, Running, module
<1>2. /\ frames # <<>> /\ Top = Last(frames) /\ Top = frames[Len(frames)]
      /\ Len(frames) \in Nat \ {0} /\ Top.param \in Nat
      /\ params[Top.f] \in Seq(Types) /\ frames \in Seq(FrameSet)
  BY <1>1, TopIsFrame DEF CallsInv, DataInv
<1>3. /\ isChanged \in BOOLEAN /\ isChanged <=> frames[1].newFunc # Null
      /\ frames[1].f = current /\ TopOk(params, body, added, deleted, "calcArgs", Top)
  BY <1>1, <1>2 DEF CallsInv, DataInv, StackInv, CourseInv
<1>4. Len(frames') = Len(frames) - 1 /\ \A i \in 1 .. Len(frames) - 1 : frames'[i] = frames[i]
  BY <1>1, <1>2, FrontIs
<1>5. CASE Len(frames) # 1
  <2>1. pc' = "caller" /\ ~ OnCourse'
    BY <1>1, <1>5 DEF OnCourse
  <2>2. frames'[1] = frames[1]
    BY <1>2, <1>4, <1>5
  <2> QED BY <1>1, <1>3, <2>1, <2>2 DEF CourseInv, Running
<1>6. CASE Len(frames) = 1
  <2>1. pc' = "instrument" /\ frames' = <<>> /\ Top = frames[1]
    BY <1>1, <1>2, <1>4, <1>6
  <2>2. CASE isChanged
    <3>1. ~ OnCourse'
      BY <1>1, <2>1, <2>2 DEF OnCourse
    <3> QED BY <1>1, <2>1, <2>2, <3>1 DEF CourseInv, Running
  <2>3. CASE ~ isChanged
    <3>1. Top.newFunc = Null /\ frames[1].newFunc = Null
      BY <1>3, <2>1, <2>3
    <3>2. OnCourse
      BY <1>1, <3>1 DEF OnCourse
    <3>3. ClonedCurrent = Null /\ ClonedCurrent' = Null
      BY <1>1, <1>2, <2>1, <2>3, <3>1 DEF ClonedCurrent
    <3>4. CameTo(order, params, added, deleted, instrumented, current, Null)
      BY <3>2, <3>3 DEF CourseInv
    <3>5. SettledIn(params, added, deleted, current)
      <4>1. Scanned(params, Top) /\ Top.f = current
        BY <1>3, <2>1, <3>1 DEF TopOk
      <4>2. Top.param > Len(params[Top.f]) => ~ HasArrayIn(params[current])
        BY <1>2, <4>1 DEF Scanned, HasArrayIn
      <4> QED BY <1>1, <4>1, <4>2 DEF SettledIn, PassedOver
    <3> QED BY <1>1, <2>1, <2>3, <3>3, <3>4, <3>5 DEF CourseInv, Running
  <2> QED BY <1>3, <2>2, <2>3
<1> QED BY <1>5, <1>6

(* Steps within calcArgs that leave the module alone.                      *)
LEMMA CourseSame ==
  ASSUME CallsInv, CourseInv, pc \in Running, pc' = "calcArgs", frames # <<>>, frames' # <<>>,
         frames'[1].newFunc = frames[1].newFunc, OnCourse' => OnCourse,
         UNCHANGED <<order, params, added, deleted, instrumented, current, isChanged>>
  PROVE  CourseInv'
<1>1. ClonedCurrent' = ClonedCurrent
  BY DEF ClonedCurrent
<1>2. OnCourse' => CameTo(order, params, added, deleted, instrumented, current, ClonedCurrent)
  BY DEF CourseInv
<1> QED BY <1>1, <1>2 DEF CourseInv, Running

LEMMA CourseParameter ==
  CallsInv /\ CourseInv /\ (SkipParameter \/ NoUsers) => CourseInv'
<1> SUFFICES ASSUME CallsInv, CourseInv, SkipParameter \/ NoUsers PROVE CourseInv'
  OBVIOUS
<1>1. pc \in {"calcArgs", "users"} /\ pc' = "calcArgs" /\ pc \in Running
  BY DEF SkipParameter, NoUsers, Running
<1>2. PICK F : F = [Top EXCEPT !.param = @ + 1]
  OBVIOUS
<1>3. /\ Top \in FrameSet /\ Top = Last(frames) /\ Top = frames[Len(frames)]
      /\ frames # <<>> /\ frames \in Seq(FrameSet) /\ Len(frames) \in Nat \ {0}
  BY <1>1, TopIsFrame DEF CallsInv, DataInv
<1>4. F \in FrameSet /\ F.f = Top.f /\ F.newFunc = Top.newFunc
  <2>1. Top \in FrameSet
    BY <1>3
  <2> QED BY <1>2, <2>1 DEF FrameSet
<1>5. frames' = WithTop(frames, F)
  BY <1>2 DEF SkipParameter, NoUsers, SetTop, WithTop
<1>6. TopIs(frames, F, frames')
  BY <1>3, <1>4, <1>5, TopSet
<1>7. frames' # <<>> /\ Top' = F /\ frames'[1].newFunc = frames[1].newFunc
  <2>1. Len(frames) = 1 \/ 1 \in 1 .. Len(frames) - 1
    <3>1. PICK n \in Nat \ {0} : n = Len(frames)
      BY <1>3
    <3>2. n = 1 \/ 1 \in 1 .. n - 1
      OBVIOUS
    <3> QED BY <3>1, <3>2
  <2> QED BY <1>3, <1>4, <1>6, <2>1 DEF TopIs, Top
<1>8. OnCourse' => OnCourse
  BY <1>1, <1>4, <1>7 DEF OnCourse
<1>9. UNCHANGED <<order, params, added, deleted, instrumented, current, isChanged>>
  BY DEF SkipParameter, NoUsers, module
<1> QED BY <1>1, <1>3, <1>7, <1>8, <1>9, CourseSame

LEMMA CourseCaller == CallsInv /\ CourseInv /\ CalcArgsOfCaller => CourseInv'
<1> SUFFICES ASSUME CallsInv, CourseInv, CalcArgsOfCaller PROVE CourseInv'
  OBVIOUS
<1>1. pc = "users" /\ pc' = "calcArgs" /\ pc \in Running
  BY DEF CalcArgsOfCaller, Running
<1>2. PICK user \in FirstUsers(Top.f) :
        frames' = Append(Append(Front(frames),
                           [Top EXCEPT !.call = <<user[1], body[user[1]][user[2]].site>>]),
                         Frame(user[1]))
  BY DEF CalcArgsOfCaller
<1>3. PICK F, G : /\ F = [Top EXCEPT !.call = <<user[1], body[user[1]][user[2]].site>>]
                  /\ G = Frame(user[1])
  OBVIOUS
<1>4. frames' = Append(WithTop(frames, F), G)
  BY <1>2, <1>3 DEF WithTop
<1>5. /\ Top \in FrameSet /\ Top = Last(frames) /\ Top = frames[Len(frames)]
      /\ frames # <<>> /\ frames \in Seq(FrameSet) /\ Len(frames) \in Nat \ {0}
  BY <1>1, TopIsFrame DEF CallsInv, DataInv
<1>6. user[1] \in DOMAIN params /\ body[user[1]][user[2]] \in Call /\ Top.f \in First
  BY <1>1, UserIs
<1>7. F \in FrameSet /\ F.newFunc = Top.newFunc /\ G \in FrameSet
  <2>1. user[1] \in Nat /\ body[user[1]][user[2]].site \in Nat \X Nat
    <3>1. body[user[1]][user[2]].site \in Nat \X Nat
      BY <1>6 DEF Call
    <3>2. params \in Seq(Seq(Types))
      BY DEF CallsInv, DataInv, ModuleInv, Shape
    <3> QED BY <1>6, <3>1, <3>2, LenProperties
  <2> QED BY <1>3, <1>5, <2>1 DEF FrameSet, Frame, Null
<1>8. PICK fs : fs = WithTop(frames, F)
  OBVIOUS
<1>9. fs \in Seq(FrameSet) /\ Len(fs) = Len(frames) /\ fs[1].newFunc = frames[1].newFunc
  <2>1. TopIs(frames, F, fs)
    BY <1>5, <1>7, <1>8, TopSet
  <2>2. Len(frames) = 1 \/ 1 \in 1 .. Len(frames) - 1
    <3>1. PICK n \in Nat \ {0} : n = Len(frames)
      BY <1>5
    <3>2. n = 1 \/ 1 \in 1 .. n - 1
      OBVIOUS
    <3> QED BY <3>1, <3>2
  <2> QED BY <1>5, <1>7, <2>1, <2>2 DEF TopIs
<1>10. frames' # <<>> /\ frames'[1].newFunc = frames[1].newFunc
  <2>1. frames' = Append(fs, G)
    BY <1>4, <1>8
  <2> QED BY <1>5, <1>7, <1>9, <2>1, AppendProperties
<1>11. OnCourse
  BY <1>1, <1>6 DEF OnCourse
<1>12. UNCHANGED <<order, params, added, deleted, instrumented, current, isChanged>>
  BY DEF CalcArgsOfCaller, module
<1> QED BY <1>1, <1>5, <1>10, <1>11, <1>12, CourseSame

(* The function at the top is replaced.                                    *)
LEMMA CourseReplace ==
  ASSUME CallsInv, CourseInv, pc \in {"users", "caller"}, pc = "caller" => returned # Null,
         Top.f \in First, Top.newFunc # Null, Replace(Top.f, Top.newFunc)
  PROVE  CourseInv'
<1>1. pc \in Running
  BY DEF Running
<1>2. /\ frames # <<>> /\ Top = frames[Len(frames)]
      /\ Len(frames) \in Nat \ {0} /\ frames \in Seq(FrameSet)
  BY <1>1, TopIsFrame DEF CallsInv, DataInv
<1>3. /\ deleted' = deleted \cup {Top.f} /\ added' = added \cup {Top.newFunc}
      /\ frames' = Front(frames) /\ returned' = Top.newFunc
      /\ pc' = (IF Len(frames) = 1 THEN "instrument" ELSE "caller")
      /\ UNCHANGED <<order, params, current, isChanged, instrumented>>
  BY DEF Replace, Return
<1>4. /\ isChanged \in BOOLEAN /\ isChanged <=> frames[1].newFunc # Null
      /\ frames[1].f = current
  BY <1>1 DEF CallsInv, DataInv, StackInv, CourseInv
<1>5. Len(frames') = Len(frames) - 1 /\ \A i \in 1 .. Len(frames) - 1 : frames'[i] = frames[i]
  BY <1>2, <1>3, FrontIs
<1>6. OnCourse
  BY <1>1 DEF OnCourse, Running
<1>7. CameTo(order, params, added', deleted', instrumented, current, frames[1].newFunc)
  <2>1. CameTo(order, params, added, deleted, instrumented, current, frames[1].newFunc)
    BY <1>2, <1>6 DEF CourseInv, ClonedCurrent
  <2> QED BY <1>3, <2>1, CameToMore
<1>8. CASE Len(frames) # 1
  <2>1. frames' # <<>> /\ frames'[1] = frames[1]
    BY <1>2, <1>5, <1>8
  <2>2. ClonedCurrent' = frames[1].newFunc
    BY <2>1 DEF ClonedCurrent
  <2> QED BY <1>3, <1>4, <1>7, <1>8, <2>1, <2>2 DEF CourseInv, Running
<1>9. CASE Len(frames) = 1
  <2>1. frames' = <<>> /\ Top = frames[1]
    BY <1>2, <1>3, <1>5, <1>9
  <2>2. isChanged /\ ClonedCurrent' = frames[1].newFunc
    BY <1>3, <1>4, <2>1 DEF ClonedCurrent
  <2> QED BY <1>3, <1>4, <1>7, <1>9, <2>1, <2>2 DEF CourseInv, Running
<1> QED BY <1>8, <1>9

(* A function is cloned, and its clone put before it.                      *)
LEMMA CloneIs ==
  ASSUME CallsInv, CloneFunction
  PROVE  /\ pc = "calcArgs" /\ pc' = "users" /\ isChanged' = TRUE
         /\ Place(Top.f) \in DOMAIN order /\ order[Place(Top.f)] = Top.f
         /\ Top.f \in DOMAIN params /\ Top.newFunc = Null /\ params[Top.f] \in Seq(Types)
         /\ Top.param \in DOMAIN params[Top.f] /\ params[Top.f][Top.param] \in Arrays
         /\ ~ SettledIn(params, added, deleted, Top.f)
         /\ order' = InsertAt(order, Place(Top.f), Len(order) + 1)
         /\ params' = Append(params, Append(params[Top.f],
                                            ElementType(params[Top.f][Top.param])))
         /\ frames' # <<>> /\ Len(frames') = Len(frames)
         /\ Top'.f = Top.f /\ Top'.newFunc # Null
         /\ frames'[1].newFunc = IF Len(frames) = 1 THEN Len(order) + 1 ELSE frames[1].newFunc
<1>1. /\ pc = "calcArgs" /\ pc \in Running /\ ~ PassedOver(Top.f) /\ Top.newFunc = Null
      /\ Top.param <= Len(params[Top.f]) /\ params[Top.f][Top.param] \in Arrays
      /\ pc' = "users" /\ isChanged' = TRUE
      /\ order' = InsertAt(order, Place(Top.f), Len(order) + 1)
      /\ params' = Append(params, Append(params[Top.f],
                                         ElementType(params[Top.f][Top.param])))
      /\ frames' = WithTop(frames, [Top EXCEPT !.newFunc = Len(order) + 1])
  BY DEF CloneFunction, ArrayParameter, Running, AddParam, SetTop, WithTop
<1>2. /\ frames \in Seq(FrameSet) /\ frames # <<>>
      /\ Top = Last(frames) /\ Top = frames[Len(frames)]
      /\ Top \in FrameSet /\ Top.f \in DOMAIN params /\ params[Top.f] \in Seq(Types)
      /\ Top.param \in Nat /\ OrderIs(order, params)
  BY <1>1, TopIsFrame DEF CallsInv, DataInv
<1>3. Scanned(params, Top)
  BY <1>1, <1>2 DEF CallsInv, StackInv, TopOk
<1>4. Top.param \in DOMAIN params[Top.f]
  <2>1. Top.param # 0
    BY <1>3 DEF Scanned
  <2> QED BY <1>1, <1>2, <2>1
<1>5. ~ SettledIn(params, added, deleted, Top.f)
  BY <1>1, <1>4 DEF SettledIn, PassedOver, HasArrayIn
<1>6. Place(Top.f) \in DOMAIN order /\ order[Place(Top.f)] = Top.f
  <2>1. Top.f \in ToSet(order)
    BY <1>2 DEF OrderIs
  <2> QED BY <2>1, PlaceIs
<1>7. PICK m \in Nat : m = Len(order)
  BY <1>2, LenProperties DEF OrderIs
<1>8. PICK F : F = [Top EXCEPT !.newFunc = m + 1]
  OBVIOUS
<1>9. F \in FrameSet /\ F.f = Top.f /\ F.newFunc = m + 1
  <2>1. Top \in FrameSet
    BY <1>2
  <2> QED BY <1>8, <2>1 DEF FrameSet
<1>10. TopIs(frames, F, frames')
  BY <1>1, <1>2, <1>7, <1>8, <1>9, TopSet
<1>11. PICK n \in Nat \ {0} : n = Len(frames)
  BY <1>2, FrontIs
<1>12. n = 1 \/ 1 \in 1 .. n - 1
  OBVIOUS
<1>13. Top' = F /\ F.newFunc # Null
  BY <1>9, <1>10 DEF TopIs, Top, Null
<1>14. frames'[1].newFunc = IF n = 1 THEN m + 1 ELSE frames[1].newFunc
  BY <1>9, <1>10, <1>11, <1>12 DEF TopIs
<1>15. frames' # <<>> /\ Len(frames') = Len(frames)
  BY <1>10 DEF TopIs
<1> QED BY <1>1, <1>2, <1>4, <1>5, <1>6, <1>7, <1>9, <1>11, <1>13, <1>14, <1>15

LEMMA CourseClone == CallsInv /\ CourseInv /\ CloneFunction => CourseInv'
<1> SUFFICES ASSUME CallsInv, CourseInv, CloneFunction PROVE CourseInv'
  OBVIOUS
<1>1. PICK f, i, m, ts : /\ f = Top.f /\ i = Place(f) /\ m = Len(order) + 1
                         /\ ts = Append(params[f], ElementType(params[f][Top.param]))
  OBVIOUS
<1>2. /\ pc = "calcArgs" /\ pc' = "users" /\ isChanged' = TRUE
      /\ i \in DOMAIN order /\ order[i] = f
      /\ f \in DOMAIN params /\ Top.newFunc = Null /\ params[f] \in Seq(Types)
      /\ params[f][Top.param] \in Arrays
      /\ ~ SettledIn(params, added, deleted, f)
      /\ order' = InsertAt(order, i, m) /\ params' = Append(params, ts)
      /\ frames' # <<>> /\ Top'.f = f /\ Top'.newFunc # Null
      /\ frames'[1].newFunc = IF Len(frames) = 1 THEN m ELSE frames[1].newFunc
  BY <1>1, CloneIs
<1>3. /\ frames # <<>> /\ Top = frames[Len(frames)] /\ Len(frames) \in Nat \ {0}
      /\ DOMAIN frames = 1 .. Len(frames) /\ frames \in Seq(FrameSet)
      /\ Ordered(frames) /\ Below(params, body, added, deleted, frames)
      /\ frames[1].f = current /\ OrderIs(order, params) /\ current \in DOMAIN params
      /\ params \in Seq(Seq(Types))
  <2>1. pc \in Running
    BY <1>2 DEF Running
  <2> QED BY <2>1, TopIsFrame DEF CallsInv, DataInv, StackInv, ModuleInv, Shape
<1>4. PICK n \in Nat \ {0} : n = Len(frames)
  BY <1>3
<1>5. n # 1 => /\ f # current /\ frames[1].newFunc # Null /\ frames[1].newFunc \notin First
  <2> SUFFICES ASSUME n # 1
               PROVE  f # current /\ frames[1].newFunc # Null /\ frames[1].newFunc \notin First
    OBVIOUS
  <2>1. 1 \in 1 .. n - 1 /\ n \in 1 .. n
    OBVIOUS
  <2>2. f # current
    BY <1>1, <1>3, <1>4, <2>1 DEF Ordered
  <2>3. frames[1].newFunc # Null /\ Cloned(params, body, added, deleted, frames[1])
    BY <1>3, <1>4, <2>1 DEF Below
  <2> QED BY <2>2, <2>3 DEF Cloned
<1>6. n = 1 => f = current /\ frames[1].newFunc = Null
  BY <1>1, <1>2, <1>3, <1>4
<1>7. PICK c, c2 : c = frames[1].newFunc /\ c2 = frames'[1].newFunc
  OBVIOUS
<1>8. c2 # Null
  <2>1. m # Null
    BY <1>1, <1>3, LenProperties DEF OrderIs, Null
  <2> QED BY <1>2, <1>4, <1>5, <1>7, <2>1
<1>9. ASSUME OnCourse'
      PROVE  CameTo(order', params', added, deleted, instrumented, current, c2)
  <2>1. f \in First
    BY <1>2, <1>9 DEF OnCourse
  <2>2. OnCourse
    BY <1>2 DEF OnCourse
  <2>3. CameTo(order, params, added, deleted, instrumented, current, c)
    BY <1>3, <1>7, <2>2 DEF CourseInv, ClonedCurrent
  <2>4. f # c
    <3>1. f # Null
      BY <1>2, <1>3 DEF Null
    <3> QED BY <1>5, <1>6, <1>7, <2>1, <3>1
  <2>5. IF order[i] = current THEN c2 = Len(order) + 1 /\ c = Null ELSE c2 = c
    BY <1>1, <1>2, <1>4, <1>5, <1>6, <1>7
  <2>6. PICK ord2, ps2 : ord2 = order' /\ ps2 = params'
    OBVIOUS
  <2>7. ord2 = InsertAt(order, i, Len(order) + 1) /\ ps2 = Append(params, ts)
    BY <1>1, <1>2, <2>6
  <2>8. ts \in Seq(Types)
    <3>1. ElementType(params[f][Top.param]) \in Types
      BY DEF ElementType, Types
    <3> QED BY <1>1, <1>2, <3>1, AppendProperties
  <2>9. ~ SettledIn(params, added, deleted, order[i]) /\ order[i] # c
    BY <1>2, <2>4
  <2>10. CameTo(ord2, ps2, added, deleted, instrumented, current, c2)
    BY <1>2, <1>3, <2>3, <2>5, <2>7, <2>8, <2>9, CameToClone
  <2> QED BY <2>6, <2>10
<1>10. ClonedCurrent' = c2
  BY <1>2, <1>7 DEF ClonedCurrent
<1>11. UNCHANGED <<added, deleted, instrumented, current>>
  BY DEF CloneFunction
<1> QED BY <1>2, <1>7, <1>8, <1>9, <1>10, <1>11 DEF CourseInv, Running

LEMMA CourseReplaceCall == CallsInv /\ CourseInv /\ ReplaceCall => CourseInv'
<1> SUFFICES ASSUME CallsInv, CourseInv, ReplaceCall PROVE CourseInv'
  OBVIOUS
<1>1. pc = "users"
  BY DEF ReplaceCall
<1>2. PICK user \in FirstUsers(Top.f) : Replace(Top.f, Top.newFunc) \/ Stop("undefined")
  BY DEF ReplaceCall
<1>3. Top.f \in First /\ Top.newFunc # Null
  BY <1>1, UserIs
<1> QED BY <1>1, <1>2, <1>3, CourseReplace, CourseStop

LEMMA CourseReplaceInClone == CallsInv /\ CourseInv /\ ReplaceCallInClone => CourseInv'
<1> SUFFICES ASSUME CallsInv, CourseInv, ReplaceCallInClone PROVE CourseInv'
  OBVIOUS
<1>1. /\ pc = "caller" /\ pc \in Running /\ returned # Null
      /\ Replace(Top.f, Top.newFunc) \/ Stop("undefined")
  BY DEF ReplaceCallInClone, Running
<1>2. /\ CallerOk(body, added, deleted, Top, returned)
      /\ TopOk(params, body, added, deleted, pc, Top)
  BY <1>1 DEF CallsInv, StackInv, Top
<1>3. Cloned(params, body, added, deleted, Top) /\ Top.newFunc # Null
  BY <1>1, <1>2 DEF TopOk
<1>4. Calls(body, returned, Top.f) /\ returned \in DOMAIN body
  <2>1. returned \in added /\ Calls(body, returned, Top.f)
    BY <1>1, <1>2 DEF CallerOk
  <2>2. DOMAIN body = DOMAIN params /\ added \subseteq DOMAIN params
    BY LenProperties DEF CallsInv, DataInv, ModuleInv, Shape
  <2> QED BY <2>1, <2>2
<1>5. Top.f \in First
  <2>1. Top.f \in First \cup added
    BY <1>4 DEF Calls, CallsInv, DataInv, ModuleInv, AllStand, Stands
  <2> QED BY <1>3, <2>1 DEF Cloned
<1> QED BY <1>1, <1>3, <1>5, CourseReplace, CourseStop

LEMMA CourseNext == CallsInv /\ CourseInv /\ [Next]_vars => CourseInv'
<1> SUFFICES ASSUME CallsInv, CourseInv, [Next]_vars PROVE CourseInv'
  OBVIOUS
<1>1. CASE InstrumentNothing
  BY <1>1, CourseStop DEF InstrumentNothing
<1>2. CASE CloneAgainFails
  BY <1>2, CourseStop DEF CloneAgainFails
<1>3. CASE CallerNotReplaced
  BY <1>3, CourseStop DEF CallerNotReplaced
<1>4. CASE UNCHANGED vars
  BY <1>4 DEF CourseInv, OnCourse, ClonedCurrent, Top, vars
<1>5. CASE Finished
  BY <1>4, <1>5 DEF Finished
<1> QED BY <1>1, <1>2, <1>3, <1>4, <1>5, CourseVisit, CourseInstrument, CourseReturnNull,
           CourseParameter, CourseClone, CourseReplaceCall, CourseCaller,
           CourseReplaceInClone DEF Next

----------------------------------------------------------------------------
(* Modules the pass can do                                                 *)

(* What is replaced comes before the current function.                     *)
DeletedBefore(ord, del, cur) ==
  \A p, q \in DOMAIN ord : ord[p] = cur /\ ord[q] \in del => q < p

(* Clones have one array and its size, and are called, but for c.          *)
ClonesSimple(ps, add, c) ==
  \A h \in DOMAIN ps \ First : ps[h] = <<"ints", "int">> /\ (h \in add \/ h = c)

SimpleInv ==
  Simple =>
    /\ pc \notin {"undefined", "exit", "caller"}
    /\ frames # <<>> =>
         Len(frames) = 1 /\ (frames[1].newFunc # Null <=> pc = "users")
    /\ ClonesSimple(params, added, IF frames # <<>> THEN frames[1].newFunc ELSE Null)
    /\ pc \in {"visit", "calcArgs", "users"} \/ (pc = "instrument" /\ ~ isChanged) =>
         DeletedBefore(order, deleted, current)
    /\ pc = "instrument" /\ isChanged =>
         /\ DeletedBefore(order, deleted \ {current}, current)
         /\ returned \notin First /\ returned # Null

LEMMA Pair ==
  ASSUME NEW S, NEW x \in S, NEW y \in S, NEW s \in Seq(S), Len(s) = 1, s[1] = x
  PROVE  Append(s, y) = <<x, y>>
<1>1. PICK r : r = Append(s, y)
  OBVIOUS
<1>2. /\ r \in Seq(S) /\ Len(r) = Len(s) + 1
      /\ \A j \in 1 .. Len(s) : r[j] = s[j]
      /\ r[Len(s) + 1] = y
  BY <1>1, AppendProperties
<1>3. Len(r) = 2 /\ r[1] = x /\ r[2] = y
  BY <1>2
<1>4. PICK z : z = <<x, y>>
  OBVIOUS
<1>5. z \in Seq(S) /\ Len(z) = 2 /\ z[1] = x /\ z[2] = y
  BY <1>4
<1>6. \A j \in 1 .. 2 : r[j] = z[j]
  BY <1>3, <1>5
<1> QED BY <1>1, <1>2, <1>3, <1>4, <1>5, <1>6, SeqEqual

LEMMA OneLocal ==
  ASSUME NEW args \in Seq(Argument), Len(args) = 1, args[1].kind = "alloca"
  PROVE  NewArgs(args) = <<args[1], SizeOf(args[1])>>
<1> DEFINE I == {i \in 1 .. Len(args) : args[i].kind = "alloca"}
<1>1. FirstLocal(args) = IF I # {} THEN Min(I) ELSE 0
  BY DEF FirstLocal, SelectInSeq
<1>2. I = {1}
  OBVIOUS
<1>3. Min(I) = 1
  <2>1. I \in SUBSET Nat /\ I # {}
    BY <1>2
  <2>2. Min(I) \in I
    <3> HIDE DEF I
    <3> QED BY <2>1, MinIs
  <2> QED BY <1>2, <2>2
<1>4. FirstLocal(args) = 1
  BY <1>1, <1>2, <1>3
<1>5. PICK a : a = args[1]
  OBVIOUS
<1>6. PICK s, z : s = SubSeq(args, 1, 1) /\ z = SizeOf(a)
  OBVIOUS
<1>7. s \in Seq(Argument) /\ Len(s) = 1 /\ s[1] = a
  BY <1>5, <1>6
<1>8. NewArgs(args) = Append(s, z)
  BY <1>4, <1>5, <1>6 DEF NewArgs
<1>9. z \in Argument
  <2>1. a \in Argument /\ a.kind = "alloca"
    BY <1>5
  <2>2. a.k \in Nat
    BY <2>1 DEF Argument
  <2> QED BY <1>6, <2>2 DEF SizeOf, Argument
<1>10. a \in Argument
  BY <1>5
<1>11. Append(s, z) = <<a, z>>
  BY <1>7, <1>9, <1>10, Pair
<1> QED BY <1>5, <1>6, <1>8, <1>11

(* What a function with an array is like.                                  *)
LEMMA SimpleIs ==
  ASSUME Simple, Given(original), NEW f \in First, f # Main, HasArrayIn(original.params[f])
  PROVE  /\ original.params[f] = <<"ints">>
         /\ \E g \in First : Calls(original.body, g, f)
         /\ \A g \in First : \A k \in DOMAIN original.body[g] :
              original.body[g][k].callee = f => original.body[g][k].args[1].kind = "alloca"
<1>1. Originals = First
  BY LenProperties DEF Given, Originals, First
<1> QED BY <1>1 DEF Simple, HasArrayIn, Calls

(* The call of such a function that calcArgs looks at.                     *)
LEMMA SimpleUser ==
  ASSUME Simple, CallsInv, pc = "users", NEW user \in FirstUsers(Top.f)
  PROVE  /\ params[Top.f] = <<"ints">>
         /\ body[user[1]][user[2]].args[1].kind = "alloca"
         /\ Len(body[user[1]][user[2]].args) = 1
         /\ body[user[1]][user[2]].args \in Seq(Argument)
         /\ body[user[1]][user[2]].args[1].type = "ints"
<1>1. PICK f, g, k, c : f = Top.f /\ g = user[1] /\ k = user[2] /\ c = body[g][k]
  OBVIOUS
<1>2. /\ g \in DOMAIN body /\ k \in DOMAIN body[g] /\ c.callee = f /\ c \in Call
      /\ f \in First \ deleted /\ IsCloneOf(params, f, Top.newFunc)
  BY <1>1, UserIs
<1>3. /\ Given(original) /\ Shape(original, params, body, added, deleted)
      /\ AllStand(original, body, added, deleted) /\ Fitting(params, body)
  BY DEF CallsInv, DataInv, ModuleInv
<1>4. f # Main
  <2>1. pc \in Running
    BY DEF Running
  <2>2. TopOk(params, body, added, deleted, pc, Top)
    BY <2>1 DEF CallsInv, StackInv, Top
  <2> QED BY <1>1, <2>2 DEF TopOk, Cloned
<1>5. params[f] = original.params[f] /\ HasArrayIn(params[f])
  BY <1>2, <1>3 DEF Shape, IsCloneOf, HasArrayIn
<1>6. /\ original.params[f] = <<"ints">>
      /\ \A h \in First : \A j \in DOMAIN original.body[h] :
           original.body[h][j].callee = f => original.body[h][j].args[1].kind = "alloca"
  BY <1>2, <1>3, <1>4, <1>5, SimpleIs
<1>7. Stands(original, added, deleted, c) /\ Fits(params[g], c.args, params[f])
  BY <1>1, <1>2, <1>3 DEF AllStand, Fitting
<1>8. c.args[1].kind = "alloca"
  <2>1. /\ c.site[1] \in First /\ c.site[2] \in DOMAIN original.body[c.site[1]]
        /\ c = original.body[c.site[1]][c.site[2]]
    BY <1>2, <1>7 DEF Stands
  <2> QED BY <1>2, <1>6, <2>1
<1>9. params[f] = <<"ints">> /\ c.args \in Seq(Argument)
  BY <1>2, <1>5, <1>6 DEF Call
<1>10. Len(c.args) = 1 /\ ArgType(params[g], c.args[1]) = "ints"
  <2>1. Len(c.args) = 1
    BY <1>7, <1>9 DEF Fits
  <2>2. 1 \in DOMAIN c.args /\ params[f][1] = "ints"
    BY <1>9, <2>1
  <2> QED BY <1>7, <2>1, <2>2 DEF Fits
<1>11. c.args[1].type = "ints"
  BY <1>8, <1>10 DEF ArgType
<1> QED BY <1>1, <1>8, <1>9, <1>10, <1>11

(* Whether a module is simple is decided by what the pass is given.        *)
LEMMA SimpleStays == original' = original => (Simple' <=> Simple)
BY DEF Simple, Originals

LEMMA SimpleInit == Init => SimpleInv
<1> SUFFICES ASSUME Init PROVE SimpleInv
  OBVIOUS
<1>1. pc = "visit" /\ frames = <<>> /\ deleted = {}
  BY DEF Init
<1>2. DOMAIN params \subseteq First
  BY GivenKeeps DEF Init
<1> QED BY <1>1, <1>2 DEF SimpleInv, ClonesSimple, DeletedBefore

LEMMA SimpleVisit == CallsInv /\ SimpleInv /\ Visit => SimpleInv'
<1> SUFFICES ASSUME CallsInv, SimpleInv, Visit, Simple PROVE SimpleInv'
  BY SimpleStays DEF SimpleInv, Visit
<1>1. /\ pc = "visit" /\ pc' = "calcArgs" /\ frames = <<>> /\ frames' = <<Frame(current)>>
      /\ UNCHANGED <<order, params, added, deleted, current>>
  BY DEF Visit, module, CallsInv, StackInv
<1>2. frames' # <<>> /\ Len(frames') = 1 /\ frames'[1].newFunc = Null
  BY <1>1 DEF Frame
<1> QED BY <1>1, <1>2 DEF SimpleInv

LEMMA SimpleParameter == CallsInv /\ SimpleInv /\ SkipParameter => SimpleInv'
<1> SUFFICES ASSUME CallsInv, SimpleInv, SkipParameter, Simple PROVE SimpleInv'
  BY SimpleStays DEF SimpleInv, SkipParameter
<1>1. /\ pc = "calcArgs" /\ pc \in Running /\ pc' = "calcArgs"
      /\ UNCHANGED <<order, params, added, deleted, current>>
  BY DEF SkipParameter, Running, module
<1>2. PICK F : F = [Top EXCEPT !.param = @ + 1]
  OBVIOUS
<1>3. /\ Top \in FrameSet /\ Top = frames[Len(frames)]
      /\ frames # <<>> /\ frames \in Seq(FrameSet)
  BY <1>1, TopIsFrame DEF CallsInv, DataInv
<1>4. F \in FrameSet /\ F.newFunc = Top.newFunc
  <2>1. Top \in FrameSet
    BY <1>3
  <2> QED BY <1>2, <2>1 DEF FrameSet
<1>5. TopIs(frames, F, frames')
  <2>1. frames' = WithTop(frames, F)
    BY <1>2 DEF SkipParameter, SetTop, WithTop
  <2> QED BY <1>3, <1>4, <2>1, TopSet
<1>6. Len(frames) = 1
  BY <1>3 DEF SimpleInv
<1>7. frames' # <<>> /\ Len(frames') = 1 /\ frames'[1].newFunc = frames[1].newFunc
  BY <1>3, <1>4, <1>5, <1>6 DEF TopIs
<1> QED BY <1>1, <1>3, <1>7 DEF SimpleInv

LEMMA SimpleReturnNull == CallsInv /\ CourseInv /\ SimpleInv /\ ReturnNull => SimpleInv'
<1> SUFFICES ASSUME CallsInv, CourseInv, SimpleInv, ReturnNull, Simple PROVE SimpleInv'
  BY SimpleStays DEF SimpleInv, ReturnNull
<1>1. /\ pc = "calcArgs" /\ pc \in Running /\ frames' = Front(frames)
      /\ pc' = (IF Len(frames) = 1 THEN "instrument" ELSE "caller")
      /\ UNCHANGED <<order, params, added, deleted, current, isChanged>>
  BY DEF ReturnNull, Return, Running, module
<1>2. frames # <<>> /\ frames \in Seq(FrameSet)
  BY <1>1, TopIsFrame DEF CallsInv, DataInv
<1>3. Len(frames) = 1 /\ frames[1].newFunc = Null
  BY <1>1, <1>2 DEF SimpleInv
<1>4. ~ isChanged /\ isChanged \in BOOLEAN
  BY <1>1, <1>3 DEF CourseInv, CallsInv, DataInv
<1>5. frames' = <<>>
  BY <1>1, <1>2, <1>3, FrontIs
<1> QED BY <1>1, <1>2, <1>3, <1>4, <1>5 DEF SimpleInv

(* The clone of the current function is put before it.                     *)
LEMMA DeletedClone ==
  ASSUME NEW ps \in Seq(Seq(Types)), NEW ord, OrderIs(ord, ps), NEW i \in DOMAIN ord,
         NEW del \in SUBSET DOMAIN ps, NEW cur \in DOMAIN ps, ord[i] = cur,
         DeletedBefore(ord, del, cur), NEW ord2, ord2 = InsertAt(ord, i, Len(ord) + 1)
  PROVE  DeletedBefore(ord2, del, cur)
<1>1. PICK n \in Nat : n = Len(ord) /\ n = Len(ps)
  BY DEF OrderIs
<1>2. ord \in Seq(Nat) /\ DOMAIN ord = 1 .. n /\ DOMAIN ps = 1 .. n
  BY <1>1, LenProperties DEF OrderIs
<1>3. /\ \A j \in 1 .. n + 1 :
           ord2[j] = IF j < i THEN ord[j] ELSE IF j = i THEN n + 1 ELSE ord[j - 1]
      /\ DOMAIN ord2 = 1 .. n + 1
  <2>1. i \in 1 .. Len(ord) + 1 /\ n + 1 \in Nat
    BY <1>1, <1>2
  <2>2. ord2 \in Seq(Nat) /\ IsInserted(ord, i, n + 1, ord2)
    BY <1>1, <1>2, <2>1, InsertAtIs
  <2> QED BY <1>1, <2>2, LenProperties DEF IsInserted
<1>4. \A p, q \in 1 .. n : ord[p] = ord[q] => p = q
  BY <1>2 DEF OrderIs, IsInjective
<1>5. i \in 1 .. n
  BY <1>2
<1>6. \A h \in del \cup {cur} : h # n + 1
  BY <1>2
<1> SUFFICES ASSUME NEW p \in 1 .. n + 1, NEW q \in 1 .. n + 1, ord2[p] = cur, ord2[q] \in del
             PROVE  q < p
  BY <1>3 DEF DeletedBefore
<1>7. p = i + 1
  <2>1. p # i
    BY <1>3, <1>5, <1>6
  <2>2. CASE p < i
    <3>1. p \in 1 .. n /\ ord[p] = cur
      BY <1>3, <1>5, <2>2
    <3> QED BY <1>4, <1>5, <2>2, <3>1
  <2>3. CASE ~ (p < i)
    <3>1. p - 1 \in 1 .. n /\ ord[p - 1] = cur
      BY <1>3, <1>5, <2>1, <2>3
    <3>2. p - 1 = i
      BY <1>4, <1>5, <3>1
    <3> QED BY <3>2
  <2> QED BY <2>2, <2>3
<1>8. CASE ~ (q < p)
  <2>1. q - 1 \in 1 .. n /\ ord[q - 1] \in del
    <3>1. i \in Nat /\ n \in Nat /\ q \in Nat
      BY <1>5
    <3>2. q - 1 \in 1 .. n /\ ~ (q < i) /\ q # i
      BY <1>5, <1>7, <1>8, <3>1
    <3>3. ord2[q] = ord[q - 1]
      BY <1>3, <3>2
    <3> QED BY <3>2, <3>3
  <2>2. q - 1 < i
    BY <1>2, <1>5, <2>1 DEF DeletedBefore
  <2> QED BY <1>5, <1>7, <1>8, <2>2
<1> QED BY <1>8

LEMMA SimpleCloneStep == CallsInv /\ SimpleInv /\ CloneFunction => SimpleInv'
<1> SUFFICES ASSUME CallsInv, SimpleInv, CloneFunction, Simple PROVE SimpleInv'
  BY SimpleStays DEF SimpleInv, CloneFunction
<1>1. PICK f, i, m, t : /\ f = Top.f /\ i = Place(f) /\ m = Len(order) + 1
                        /\ t = params[f][Top.param]
  OBVIOUS
<1>2. /\ pc = "calcArgs" /\ pc' = "users"
      /\ i \in DOMAIN order /\ order[i] = f /\ f \in DOMAIN params /\ Top.newFunc = Null
      /\ Top.param \in DOMAIN params[f] /\ t \in Arrays
      /\ ~ SettledIn(params, added, deleted, f)
      /\ order' = InsertAt(order, i, m)
      /\ params' = Append(params, Append(params[f], ElementType(t)))
      /\ frames' # <<>> /\ Len(frames') = Len(frames)
      /\ frames'[1].newFunc = IF Len(frames) = 1 THEN m ELSE frames[1].newFunc
  BY <1>1, CloneIs
<1>3. /\ frames # <<>> /\ Top = frames[Len(frames)] /\ frames[1].f = current
      /\ OrderIs(order, params) /\ current \in DOMAIN params /\ params \in Seq(Seq(Types))
      /\ Given(original) /\ Shape(original, params, body, added, deleted)
  <2>1. pc \in Running
    BY <1>2 DEF Running
  <2> QED BY <2>1, TopIsFrame DEF CallsInv, DataInv, StackInv, ModuleInv, Shape
<1>4. /\ Len(frames) = 1 /\ f = current /\ frames[1].newFunc = Null
      /\ ClonesSimple(params, added, Null) /\ DeletedBefore(order, deleted, current)
  <2>1. Len(frames) = 1
    BY <1>3 DEF SimpleInv
  <2>2. frames[1].newFunc = Null
    BY <1>2, <1>3, <2>1
  <2> QED BY <1>1, <1>2, <1>3, <2>1, <2>2 DEF SimpleInv
<1>5. f \in First /\ f # Main
  <2>1. f # Null
    BY <1>2, <1>3 DEF Null
  <2> QED BY <1>2, <1>4, <2>1 DEF ClonesSimple, SettledIn
<1>6. params[f] = <<"ints">>
  <2>1. params[f] = original.params[f]
    BY <1>3, <1>5 DEF Shape
  <2>2. HasArrayIn(original.params[f])
    BY <1>1, <1>2, <2>1 DEF HasArrayIn
  <2> QED BY <1>3, <1>5, <2>1, <2>2, SimpleIs
<1>7. Append(params[f], ElementType(t)) = <<"ints", "int">>
  <2>1. t = "ints"
    BY <1>1, <1>2, <1>6
  <2>2. PICK x, y : x = "ints" /\ y = "int"
    OBVIOUS
  <2>3. x \in Types /\ y \in Types
    BY <2>2 DEF Types, Arrays
  <2>4. <<x>> \in Seq(Types) /\ Len(<<x>>) = 1 /\ <<x>>[1] = x
    BY <2>3
  <2>5. Append(<<x>>, y) = <<x, y>>
    BY <2>3, <2>4, Pair
  <2> QED BY <1>6, <2>1, <2>2, <2>5 DEF ElementType
<1>8. PICK n \in Nat : n = Len(params) /\ m = n + 1 /\ DOMAIN params = 1 .. n
  BY <1>1, <1>3, LenProperties DEF OrderIs
<1>9. PICK types : types = <<"ints", "int">>
  OBVIOUS
<1>10. /\ DOMAIN params' = 1 .. n + 1 /\ params'[n + 1] = types
       /\ \A h \in 1 .. n : params'[h] = params[h]
  <2>1. params' = Append(params, types)
    BY <1>2, <1>7, <1>9
  <2>2. types \in Seq(Types)
    BY <1>9 DEF Types, Arrays
  <2>3. PICK T : T = Seq(Types)
    OBVIOUS
  <2>4. /\ Append(params, types) \in Seq(T) /\ Len(Append(params, types)) = n + 1
        /\ \A h \in 1 .. n : Append(params, types)[h] = params[h]
        /\ Append(params, types)[n + 1] = types
    BY <1>3, <1>8, <2>2, <2>3, AppendProperties
  <2> QED BY <2>1, <2>4, LenProperties
<1>11. ClonesSimple(params', added, m)
  BY <1>4, <1>8, <1>9, <1>10 DEF ClonesSimple, Null
<1>12. DeletedBefore(order', deleted, current)
  <2>1. PICK ord2 : ord2 = order'
    OBVIOUS
  <2>2. ord2 = InsertAt(order, i, Len(order) + 1) /\ order[i] = current
    BY <1>1, <1>2, <1>4, <2>1
  <2>3. deleted \in SUBSET DOMAIN params
    BY <1>3, FirstHasParams DEF Shape
  <2>4. DeletedBefore(ord2, deleted, current)
    BY <1>2, <1>3, <1>4, <2>2, <2>3, DeletedClone
  <2> QED BY <2>1, <2>4
<1>13. frames'[1].newFunc = m /\ m # Null
  BY <1>2, <1>4, <1>8 DEF Null
<1>14. UNCHANGED <<added, deleted, current>>
  BY DEF CloneFunction
<1> QED BY <1>2, <1>4, <1>11, <1>12, <1>13, <1>14 DEF SimpleInv

LEMMA SimpleReplaceCall == CallsInv /\ CourseInv /\ SimpleInv /\ ReplaceCall => SimpleInv'
<1> SUFFICES ASSUME CallsInv, CourseInv, SimpleInv, ReplaceCall, Simple PROVE SimpleInv'
  <2>1. ReplaceCall => UNCHANGED original
    BY DEF ReplaceCall, Replace, Stop
  <2>2. UNCHANGED original => (Simple' <=> Simple)
    BY DEF Simple, Originals
  <2> QED BY <2>1, <2>2 DEF SimpleInv
<1>1. pc = "users" /\ pc \in Running
  BY DEF ReplaceCall, Running
<1>2. PICK user \in FirstUsers(Top.f) :
        IF Fits(params[user[1]], NewArgs(body[user[1]][user[2]].args), params[Top.newFunc])
          THEN Replace(Top.f, Top.newFunc) ELSE Stop("undefined")
  BY DEF ReplaceCall
<1>3. PICK g, args, a, n : /\ g = user[1] /\ args = body[user[1]][user[2]].args /\ a = args[1]
                           /\ n = Top.newFunc
  OBVIOUS
<1>4. args \in Seq(Argument) /\ Len(args) = 1 /\ a.kind = "alloca" /\ a.type = "ints"
  BY <1>1, <1>3, SimpleUser
<1>5. /\ frames # <<>> /\ frames \in Seq(FrameSet) /\ Top = frames[Len(frames)]
      /\ frames[1].f = current
  BY <1>1, TopIsFrame DEF CallsInv, DataInv, StackInv
<1>6. Len(frames) = 1 /\ Top = frames[1] /\ Top.f = current
  BY <1>5 DEF SimpleInv
<1>7. n \in DOMAIN params \ First /\ n # Null
  BY <1>1, <1>3, UserIs
<1>8. ClonesSimple(params, added, n) /\ DeletedBefore(order, deleted, current)
  BY <1>1, <1>3, <1>5, <1>6 DEF SimpleInv
<1>9. params[n] = <<"ints", "int">>
  BY <1>7, <1>8 DEF ClonesSimple
<1>10. Fits(params[g], NewArgs(args), params[n])
  <2>1. PICK z : z = SizeOf(a)
    OBVIOUS
  <2>2. NewArgs(args) = <<a, z>>
    BY <1>3, <1>4, <2>1, OneLocal
  <2>3. z.kind = "size"
    BY <2>1 DEF SizeOf
  <2>4. ArgType(params[g], a) = "ints" /\ ArgType(params[g], z) = "int"
    BY <1>4, <2>3 DEF ArgType
  <2> QED BY <1>4, <1>9, <2>2, <2>3, <2>4 DEF Fits
<1>11. Replace(Top.f, n)
  BY <1>2, <1>3, <1>10
<1>12. /\ deleted' = deleted \cup {current} /\ added' = added \cup {n}
       /\ frames' = Front(frames) /\ returned' = n /\ pc' = "instrument"
       /\ UNCHANGED <<order, params, current, isChanged>>
  BY <1>6, <1>11 DEF Replace, Return
<1>13. frames' = <<>>
  BY <1>5, <1>6, <1>12, FrontIs
<1>14. isChanged
  BY <1>1, <1>3, <1>6, <1>7 DEF CourseInv, CallsInv, DataInv
<1>15. ClonesSimple(params, added', Null)
  BY <1>8, <1>12 DEF ClonesSimple
<1>16. DeletedBefore(order, deleted' \ {current}, current)
  BY <1>8, <1>12 DEF DeletedBefore
<1> QED BY <1>7, <1>12, <1>13, <1>14, <1>15, <1>16 DEF SimpleInv

(* instrumentGeps can be called for what runOnModule has come to.          *)
LEMMA SimpleTarget ==
  ASSUME CallsInv, CourseInv, SimpleInv, Simple, pc = "instrument"
  PROVE  Target # Null /\ ~ NoSizeParameter(Target)
<1>1. PICK f : f = Target
  OBVIOUS
<1>2. /\ frames = <<>> /\ isChanged \in BOOLEAN /\ current \in DOMAIN params
      /\ returned \in DOMAIN params \cup {Null} /\ params \in Seq(Seq(Types))
      /\ OrderIs(order, params) /\ Given(original)
      /\ Shape(original, params, body, added, deleted)
      /\ \A h \in accesses : HasArrayIn(params[h])
  BY DEF CallsInv, StackInv, DataInv, ModuleInv, Shape
<1>3. ClonesSimple(params, added, Null)
  BY <1>2 DEF SimpleInv
<1>4. f \in DOMAIN params
  BY <1>1, <1>2 DEF SimpleInv, Target
<1>5. f # Null
  BY <1>2, <1>4 DEF Null
<1>6. params[f] \in Seq(Types) /\ LastArray(f) = LastIn(params[f])
  BY <1>2, <1>4 DEF LastArray, LastIn
<1>7. f \notin First => ~ NoSizeParameter(f)
  <2> SUFFICES ASSUME f \notin First PROVE ~ NoSizeParameter(f)
    OBVIOUS
  <2>1. params[f] = <<"ints", "int">>
    BY <1>3, <1>4 DEF ClonesSimple
  <2>2. Len(params[f]) = 2 /\ params[f][2] \notin Arrays
    BY <2>1 DEF Arrays
  <2>3. LastIn(params[f]) # 2
    BY <1>6, <2>2, LastInIs
  <2> QED BY <1>6, <2>2, <2>3 DEF NoSizeParameter
<1>8. f \in First => ~ NoSizeParameter(f)
  <2> SUFFICES ASSUME f \in First, f \in accesses, f # Main \/ LastArray(f) # 2 PROVE FALSE
    BY DEF NoSizeParameter
  <2>1. ~ isChanged /\ f = current
    BY <1>1, <1>2 DEF SimpleInv, Target
  <2>2. HasArrayIn(params[f]) /\ SettledIn(params, added, deleted, f)
    BY <1>2, <2>1 DEF CourseInv
  <2>3. f \notin deleted
    <3>1. DeletedBefore(order, deleted, current)
      BY <2>1 DEF SimpleInv
    <3>2. PICK p \in DOMAIN order : order[p] = current
      BY <1>2 DEF OrderIs, ToSet
    <3>3. ~ (p < p)
      BY <1>2 DEF OrderIs
    <3> QED BY <2>1, <3>1, <3>2, <3>3 DEF DeletedBefore
  <2>4. f \notin added
    BY <1>2 DEF Shape
  <2>5. f = Main /\ LastIn(params[f]) # 2
    BY <1>6, <2>2, <2>3, <2>4 DEF SettledIn
  <2>6. params[f] = original.params[f]
    BY <1>2 DEF Shape
  <2>7. \A k \in DOMAIN params[f] : params[f][k] \in Arrays => k = 2
    BY <2>5, <2>6 DEF Simple
  <2>8. LastIn(params[f]) # 0
    BY <1>6, <2>2, LastInIs DEF HasArrayIn
  <2>9. LastIn(params[f]) \in DOMAIN params[f] /\ params[f][LastIn(params[f])] \in Arrays
    BY <1>6, <2>8, LastInIs
  <2> QED BY <2>5, <2>7, <2>9
<1> QED BY <1>1, <1>5, <1>7, <1>8

LEMMA SimpleInstrument == CallsInv /\ SimpleInv /\ Instrument => SimpleInv'
<1> SUFFICES ASSUME CallsInv, SimpleInv, Instrument, Simple PROVE SimpleInv'
  <2>1. Instrument => UNCHANGED original
    BY DEF Instrument
  <2>2. UNCHANGED original => (Simple' <=> Simple)
    BY DEF Simple, Originals
  <2> QED BY <2>1, <2>2 DEF SimpleInv
<1>1. /\ pc = "instrument" /\ frames' = frames /\ isChanged' = FALSE
      /\ UNCHANGED <<order, params, deleted, added>>
  BY DEF Instrument, module
<1>2. /\ frames = <<>> /\ isChanged \in BOOLEAN /\ current \in DOMAIN params
      /\ OrderIs(order, params)
  BY <1>1 DEF CallsInv, StackInv, DataInv
<1>3. ClonesSimple(params, added, Null)
  BY <1>2 DEF SimpleInv
<1>4. CASE current = Last(order)
  <2>1. pc' = "done"
    BY <1>4 DEF Instrument
  <2> QED BY <1>1, <1>2, <1>3, <2>1 DEF SimpleInv
<1>5. CASE current # Last(order)
  <2>1. order \in Seq(Nat) /\ IsInjective(order) /\ ToSet(order) = DOMAIN params
    BY <1>2 DEF OrderIs
  <2>2. PICK p \in DOMAIN order : p = Place(current) /\ order[p] = current
    BY <1>2, <2>1, PlaceIs
  <2>3. pc' = "visit" /\ current' = order[p + 1]
    BY <1>5, <2>2 DEF Instrument
  <2>4. PICK n \in Nat : n = Len(order) /\ DOMAIN order = 1 .. n
    BY <2>1, LenProperties
  <2>5. p + 1 \in DOMAIN order
    <3>1. p # n
      BY <1>5, <2>2, <2>4 DEF Last
    <3> QED BY <2>4, <3>1
  <2>6. ASSUME NEW q \in DOMAIN order, order[q] \in deleted PROVE q < p + 1
    <3>1. CASE order[q] = current
      <4>1. q = p
        BY <2>1, <2>2, <3>1 DEF IsInjective
      <4> QED BY <2>4, <4>1
    <3>2. CASE order[q] # current
      <4>1. \/ DeletedBefore(order, deleted, current)
            \/ DeletedBefore(order, deleted \ {current}, current)
        BY <1>1, <1>2 DEF SimpleInv
      <4>2. q < p
        BY <2>2, <2>6, <3>2, <4>1 DEF DeletedBefore
      <4> QED BY <2>4, <4>2
    <3> QED BY <3>1, <3>2
  <2>7. DeletedBefore(order, deleted, current')
    <3> SUFFICES ASSUME NEW r \in DOMAIN order, NEW q \in DOMAIN order, order[r] = order[p + 1],
                        order[q] \in deleted
                 PROVE  q < r
      BY <2>3 DEF DeletedBefore
    <3>1. r = p + 1
      BY <2>1, <2>5 DEF IsInjective
    <3> QED BY <2>6, <3>1
  <2> QED BY <1>1, <1>2, <1>3, <2>3, <2>7 DEF SimpleInv
<1> QED BY <1>4, <1>5

(* The functions the pass works on are called.                             *)
LEMMA SimpleHasUsers ==
  ASSUME CallsInv, SimpleInv, Simple, NoUsers
  PROVE  FALSE
<1>1. pc = "users" /\ pc \in Running /\ Callers(Top.f) = {}
  BY DEF NoUsers, Running
<1>2. /\ frames # <<>> /\ Top = frames[Len(frames)] /\ Top = Last(frames)
      /\ Top.f \in DOMAIN params /\ Top.f \in Nat /\ Top.newFunc \in Nat
      /\ TopOk(params, body, added, deleted, pc, Top)
  BY <1>1, TopIsFrame DEF CallsInv, StackInv
<1>3. Len(frames) = 1 /\ Top = frames[1]
  BY <1>2 DEF SimpleInv
<1>4. Cloned(params, body, added, deleted, Top)
  BY <1>1, <1>2 DEF TopOk
<1>5. ClonesSimple(params, added, Top.newFunc)
  BY <1>2, <1>3 DEF SimpleInv
<1>6. PICK f : f = Top.f
  OBVIOUS
<1>7. f \in First \ deleted /\ f # Main
  <2>1. f \notin added /\ f \notin deleted /\ f # Main /\ f # Top.newFunc
    BY <1>2, <1>4, <1>6 DEF Cloned
  <2> QED BY <1>2, <1>5, <1>6, <2>1 DEF ClonesSimple
<1>8. /\ Given(original) /\ Shape(original, params, body, added, deleted)
      /\ StillCalled(original, body, deleted)
  BY DEF CallsInv, DataInv, ModuleInv
<1>9. HasArrayIn(original.params[f])
  BY <1>4, <1>6, <1>7, <1>8 DEF Cloned, IsCloneOf, HasArrayIn, Shape
<1>10. \E g \in First : Calls(original.body, g, f)
  BY <1>7, <1>8, <1>9, SimpleIs
<1>11. PICK h \in DOMAIN body : Calls(body, h, f)
  BY <1>7, <1>8, <1>10 DEF StillCalled
<1>12. h \in Callers(f)
  <2>1. DOMAIN body = DOMAIN params
    BY <1>8, LenProperties DEF Shape
  <2> QED BY <1>11, <2>1 DEF Calls, Callers, Functions
<1> QED BY <1>1, <1>6, <1>12

LEMMA SimpleNext == CallsInv /\ CourseInv /\ SimpleInv /\ [Next]_vars => SimpleInv'
<1> SUFFICES ASSUME CallsInv, CourseInv, SimpleInv, [Next]_vars PROVE SimpleInv'
  OBVIOUS
<1>1. CASE UNCHANGED vars
  BY <1>1 DEF SimpleInv, Simple, Originals, vars
<1>2. CASE Finished
  BY <1>1, <1>2 DEF Finished
<1>3. UNCHANGED original
  BY DEF Next, vars, Visit, Instrument, InstrumentNothing, ReturnNull, SkipParameter,
         CloneFunction, CloneAgainFails, NoUsers, ReplaceCall, CalcArgsOfCaller,
         CallerNotReplaced, ReplaceCallInClone, Finished, Replace, Stop
<1> SUFFICES ASSUME Simple PROVE SimpleInv'
  BY <1>3 DEF SimpleInv, Simple, Originals
<1>4. ~ InstrumentNothing
  BY SimpleTarget DEF InstrumentNothing
<1>5. ~ CloneAgainFails
  <2> SUFFICES ASSUME CloneAgainFails PROVE FALSE
    OBVIOUS
  <2>1. pc = "calcArgs" /\ pc \in Running /\ Top.newFunc # Null
    BY DEF CloneAgainFails, ArrayParameter, Running
  <2>2. frames # <<>> /\ Top = frames[Len(frames)]
    BY <2>1, TopIsFrame
  <2> QED BY <2>1, <2>2 DEF SimpleInv
<1>6. ~ CalcArgsOfCaller
  <2> SUFFICES ASSUME CalcArgsOfCaller PROVE FALSE
    OBVIOUS
  <2>1. pc = "users"
    BY DEF CalcArgsOfCaller
  <2>2. PICK user \in FirstUsers(Top.f) : body[user[1]][user[2]].args[1].kind = "param"
    BY DEF CalcArgsOfCaller
  <2>3. body[user[1]][user[2]].args[1].kind = "alloca"
    BY <2>1, SimpleUser
  <2> QED BY <2>2, <2>3
<1>7. ~ NoUsers
  BY SimpleHasUsers
<1>8. ~ CallerNotReplaced /\ ~ ReplaceCallInClone
  BY DEF SimpleInv, CallerNotReplaced, ReplaceCallInClone
<1> QED BY <1>1, <1>2, <1>4, <1>5, <1>6, <1>7, <1>8, SimpleVisit, SimpleInstrument,
           SimpleReturnNull, SimpleParameter, SimpleCloneStep, SimpleReplaceCall DEF Next

----------------------------------------------------------------------------
(* What is proved                                                          *)

(* Every call fits the signature of what it calls, whatever module the pass *)
(* is given and whatever calcArgs has rewritten of it (BoundsChecker.cpp   *)
(* calcArgs, findAndProcessCalls).                                         *)
THEOREM CallsTypeOK == Spec => []TypeOK
<1>1. Spec => []CallsInv
  BY CallsInit, CallsNext, PTL DEF Spec
<1> QED BY <1>1, CallsTypes, PTL

(* What a clone is given as a size is the size of the array it is given,    *)
(* but in the two cases where the code passes another value: the second    *)
(* parameter, and the first call of the clone (BoundsChecker.cpp calcArgs, *)
(* findAndProcessCalls).                                                   *)
THEOREM CallsSizesAgree == Spec => []SizesAgree
<1>1. Spec => []CallsInv
  BY CallsInit, CallsNext, PTL DEF Spec
<1> QED BY <1>1, CallsSizes, PTL

(* runOnModule leaves only functions without checks that were replaced,    *)
(* although clones are put into the module it walks.                       *)
THEOREM CallsOnlyReplacedUnchecked == Spec => []OnlyReplacedUnchecked
<1>1. CourseInv => OnlyReplacedUnchecked
  BY DEF CourseInv, OnlyReplacedUnchecked, Functions
<1>2. Init => CallsInv /\ CourseInv
  BY CallsInit, CourseInit
<1>3. CallsInv /\ CourseInv /\ [Next]_vars => CallsInv' /\ CourseInv'
  BY CallsNext, CourseNext
<1> QED BY <1>1, <1>2, <1>3, PTL DEF Spec

(* For a module of functions with one array, called with local arrays, the *)
(* pass neither dereferences null nor creates a call that does not fit nor *)
(* exits: it instruments every function.                                   *)
THEOREM CallsSimpleSurvives == Spec => []SimpleSurvives
<1>1. SimpleInv => SimpleSurvives
  BY DEF SimpleInv, SimpleSurvives
<1>2. Init => CallsInv /\ CourseInv /\ SimpleInv
  BY CallsInit, CourseInit, SimpleInit
<1>3. CallsInv /\ CourseInv /\ SimpleInv /\ [Next]_vars => CallsInv' /\ CourseInv' /\ SimpleInv'
  BY CallsNext, CourseNext, SimpleNext
<1> QED BY <1>1, <1>2, <1>3, PTL DEF Spec
=============================================================================
