---------------------------- MODULE LICM_proofs ----------------------------
(***************************************************************************)
(* Proofs about loop-invariant code motion, for every graph in the form    *)
(* that LoopSimplify leaves and every function over it.                    *)
(***************************************************************************)
EXTENDS LICM, FiniteSets, FiniteSetTheorems, WellFoundedInduction, TLAPS

----------------------------------------------------------------------------
(* Induction, stated over sets instead of predicates: a set that holds the *)
(* first number and the successor of each of its members holds them all.   *)

(* Induction over the natural numbers.                                     *)
LEMMA SetNatInduction ==
  ASSUME NEW S, 0 \in S, \A n \in Nat : n \in S => n + 1 \in S
  PROVE  Nat \subseteq S
<1> DEFINE T == {n \in Nat : n \notin S}
           R == {ss \in Nat \X Nat : ss[1] < ss[2]}
<1>1. SUFFICES ASSUME T # {} PROVE FALSE
  OBVIOUS
<1>2. IsWellFoundedOn(R, Nat)
  BY NatLessThanWellFounded DEF OpToRel
<1>3. PICK x \in T : \A y \in T : <<y, x>> \notin R
  <2> HIDE DEF R
  <2> QED BY <1>1, <1>2, WFMin
<1>4. x # 0 /\ x \in Nat
  OBVIOUS
<1>5. x - 1 \in Nat /\ x - 1 < x /\ (x - 1) + 1 = x
  BY <1>4
<1>6. x - 1 \in S
  BY <1>3, <1>5
<1>7. QED
  BY <1>5, <1>6

(* Induction up to a bound.                                                *)
LEMMA SetIntervalInduction ==
  ASSUME NEW Top \in Nat, NEW S, 0 \in S,
         \A n \in 0 .. Top - 1 : n \in S => n + 1 \in S
  PROVE  0 .. Top \subseteq S
<1> DEFINE T == {n \in Nat : n <= Top => n \in S}
<1>1. 0 \in T /\ \A n \in Nat : n \in T => n + 1 \in T
  OBVIOUS
<1>2. Nat \subseteq T
  <2> HIDE DEF T
  <2> QED BY <1>1, SetNatInduction
<1>3. QED
  BY <1>2

(* Top steps from a.                                                         *)
IsIteration(f, Top, D, a, step) ==
  f \in [0 .. Top -> D] /\ f[0] = a /\ \A n \in 1 .. Top : f[n] = step[f[n - 1]]

(* A step can be iterated: there is a sequence of values in which each is  *)
(* the step taken from the one before it.                                  *)
LEMMA Iteration ==
  ASSUME NEW Top \in Nat, NEW D, NEW a \in D, NEW step \in [D -> D]
  PROVE  \E f : IsIteration(f, Top, D, a, step)
<1> DEFINE Iterates(f, m) == f[0] = a /\ \A n \in 1 .. m : f[n] = step[f[n - 1]]
           S == {m \in 0 .. Top : \E f \in [0 .. m -> D] : Iterates(f, m)}
<1>1. 0 \in S
  <2> DEFINE f == [k \in 0 .. 0 |-> a]
  <2>1. f \in [0 .. 0 -> D] /\ Iterates(f, 0)
    OBVIOUS
  <2>2. 0 \in 0 .. Top
    OBVIOUS
  <2> HIDE DEF f, Iterates
  <2>3. QED
    BY <2>1, <2>2
<1>2. ASSUME NEW n \in 0 .. Top - 1, n \in S
      PROVE  n + 1 \in S
  <2> PICK f \in [0 .. n -> D] : Iterates(f, n)
    BY <1>2
  <2> DEFINE g == [k \in 0 .. n + 1 |-> IF k = n + 1 THEN step[f[n]] ELSE f[k]]
  <2>1. g \in [0 .. n + 1 -> D]
    OBVIOUS
  <2>2. g[0] = a
    OBVIOUS
  <2>3. ASSUME NEW k \in 1 .. n + 1
        PROVE  g[k] = step[g[k - 1]]
    <3>1. CASE k = n + 1
      BY <3>1
    <3>2. CASE k # n + 1
      <4>1. k \in 1 .. n /\ k - 1 \in 0 .. n /\ k - 1 # n + 1
        BY <3>2
      <4>2. QED
        BY <4>1
    <3>3. QED
      BY <3>1, <3>2
  <2>4. Iterates(g, n + 1)
    BY <2>2, <2>3
  <2>5. n + 1 \in 0 .. Top
    OBVIOUS
  <2> HIDE DEF g, Iterates
  <2>6. QED
    BY <2>1, <2>4, <2>5
<1>3. Top \in S
  <2> HIDE DEF S
  <2>1. QED
    BY <1>1, <1>2, SetIntervalInduction
<1>4. QED
  BY <1>3 DEF IsIteration

----------------------------------------------------------------------------
(* Reachability                                                            *)

\* What ReachableAvoiding iterates.
Spread(found, x) ==
  found \cup {b \in Blocks \ {x} : Predecessors(b) \cap found # {}}

\* A set holds every successor of its members but x.
Closed(S, x) == \A e \in Edges : e[1] \in S /\ e[2] # x => e[2] \in S

Spreads(f, S, x) ==
  /\ f \in [0 .. B -> SUBSET Blocks]
  /\ f[0] = S \ {x}
  /\ \A n \in 1 .. B : f[n] = Spread(f[n - 1], x)
  /\ ReachableAvoiding(S, x) = f[B]

LEMMA GraphIs ==
  /\ B \in Nat /\ B # 0 /\ 1 \in Blocks /\ Blocks \subseteq Nat \ {0}
  /\ \A e \in Edges : e[1] \in Blocks /\ e[2] \in Blocks /\ e = <<e[1], e[2]>>
  /\ \A a, b : a \in Predecessors(b) <=> a \in Blocks /\ <<a, b>> \in Edges
BY GraphAssumption DEF Blocks, Predecessors

(* The recursive function of ReachableAvoiding is there.                   *)
LEMMA SpreadIterates ==
  ASSUME NEW S \in SUBSET Blocks, NEW x
  PROVE  \E f : Spreads(f, S, x)
<1> DEFINE start == S \ {x}
           Equation(f) == f = [n \in 0 .. B |-> IF n = 0 THEN start
                                                ELSE Spread(f[n - 1], x)]
           grow[n \in 0 .. B] ==
             IF n = 0 THEN start ELSE Spread(grow[n - 1], x)
           step == [T \in SUBSET Blocks |-> Spread(T, x)]
<1>1. B \in Nat
  BY GraphIs
<1>2. step \in [SUBSET Blocks -> SUBSET Blocks]
  BY DEF Spread
<1>3. PICK f : IsIteration(f, B, SUBSET Blocks, start, step)
  <2>1. start \in SUBSET Blocks
    OBVIOUS
  <2> HIDE DEF step, start
  <2>2. QED
    BY <1>1, <1>2, <2>1, Iteration
<1>4. Equation(f)
  <2>1. f \in [0 .. B -> SUBSET Blocks] /\ f[0] = start
    BY <1>3 DEF IsIteration
  <2>2. ASSUME NEW n \in 1 .. B
        PROVE  f[n] = Spread(f[n - 1], x)
    <3>1. n - 1 \in 0 .. B
      BY <1>1
    <3>2. QED
      BY <1>3, <2>1, <3>1 DEF IsIteration
  <2>3. \A n \in 0 .. B : n # 0 => n \in 1 .. B
    BY <1>1
  <2> HIDE DEF start
  <2>4. QED
    BY <2>1, <2>2, <2>3
<1>5. Equation(grow)
  BY <1>4
<1>6. ReachableAvoiding(S, x) = grow[B]
  BY DEF ReachableAvoiding, Spread
<1>7. PICK g : Equation(g) /\ ReachableAvoiding(S, x) = g[B]
  <2> HIDE DEF grow, Equation
  <2>1. QED
    BY <1>5, <1>6
<1>8. g[0] = start /\ \A n \in 1 .. B : g[n] = Spread(g[n - 1], x)
  <2>1. 0 \in 0 .. B /\ \A n \in 1 .. B : n \in 0 .. B /\ n # 0
    BY <1>1
  <2> HIDE DEF start
  <2>2. QED
    BY <1>7, <2>1
<1>9. g \in [0 .. B -> SUBSET Blocks]
  <2> DEFINE typed == {n \in 0 .. B : g[n] \in SUBSET Blocks}
  <2>1. 0 \in typed
    BY <1>1, <1>8
  <2>2. ASSUME NEW n \in 0 .. B - 1, n \in typed
        PROVE  n + 1 \in typed
    <3>1. n + 1 \in 1 .. B /\ (n + 1) - 1 = n
      BY <1>1
    <3>2. g[n + 1] = Spread(g[n], x)
      BY <1>8, <3>1
    <3>3. QED
      BY <2>2, <3>1, <3>2 DEF Spread
  <2>3. 0 .. B \subseteq typed
    <3> HIDE DEF typed
    <3>1. QED
      BY <1>1, <2>1, <2>2, SetIntervalInduction
  <2>4. QED
    BY <1>7, <2>3
<1>10. QED
  BY <1>7, <1>8, <1>9 DEF Spreads

LEMMA ClosedEdges ==
  ASSUME NEW S, NEW x
  PROVE  Closed(S, x) <=> \A a, b \in Blocks : <<a, b>> \in Edges /\ a \in S /\ b # x => b \in S
<1>1. ASSUME Closed(S, x), NEW a, NEW b, <<a, b>> \in Edges, a \in S, b # x
      PROVE  b \in S
  <2>1. PICK e \in Edges : e = <<a, b>>
    BY <1>1
  <2>2. e[1] = a /\ e[2] = b
    BY <2>1
  <2>3. QED
    BY <1>1, <2>2 DEF Closed
<1>2. ASSUME \A a, b \in Blocks : <<a, b>> \in Edges /\ a \in S /\ b # x => b \in S
      PROVE  Closed(S, x)
  BY <1>2, GraphIs DEF Closed
<1>3. QED
  BY <1>1, <1>2

(* A step that adds nothing has reached a closed set.                      *)
LEMMA SpreadStops ==
  ASSUME NEW S \in SUBSET Blocks, NEW x, Spread(S, x) = S
  PROVE  Closed(S, x)
BY GraphIs DEF Spread, Closed

LEMMA ClosedStops ==
  ASSUME NEW S \in SUBSET Blocks, NEW x, Closed(S, x)
  PROVE  Spread(S, x) = S
<1>1. SUFFICES ASSUME NEW b \in Blocks \ {x}, NEW a \in Predecessors(b), a \in S
      PROVE  b \in S
  BY DEF Spread
<1>2. QED
  BY <1>1, GraphIs, ClosedEdges

(* What is reachable is closed: each step that adds something adds one of  *)
(* B blocks.                                                               *)
LEMMA ReachClosed ==
  ASSUME NEW S \in SUBSET Blocks, NEW x
  PROVE  Closed(ReachableAvoiding(S, x), x)
<1>1. B \in Nat /\ IsFiniteSet(Blocks) /\ Cardinality(Blocks) = B
  BY GraphIs, FS_Interval DEF Blocks
<1>2. PICK f : Spreads(f, S, x)
  BY SpreadIterates
<1> USE <1>2 DEF Spreads
<1>3. \A T \in SUBSET Blocks : IsFiniteSet(T) /\ Cardinality(T) \in Nat
  BY <1>1, FS_Subset, FS_CardinalityType
<1> DEFINE large == {n \in 0 .. B : Closed(f[n], x) \/ Cardinality(f[n]) >= n}
<1>4. 0 \in large
  BY <1>1, <1>3
<1>5. ASSUME NEW n \in 0 .. B - 1, n \in large
      PROVE  n + 1 \in large
  <2>1. /\ n + 1 \in 1 .. B /\ n + 1 \in 0 .. B /\ (n + 1) - 1 = n
        /\ n \in 0 .. B /\ n \in Nat
    BY <1>1
  <2>2. f[n + 1] = Spread(f[n], x) /\ f[n] \in SUBSET Blocks /\ f[n + 1] \in SUBSET Blocks
    BY <2>1
  <2>3. CASE Closed(f[n], x)
    BY <2>1, <2>2, <2>3, ClosedStops
  <2>4. CASE ~ Closed(f[n], x)
    <3>1. Cardinality(f[n]) >= n
      BY <1>5, <2>4
    <3>2. f[n] \subseteq f[n + 1] /\ f[n] # f[n + 1]
      BY <2>2, <2>4, SpreadStops DEF Spread
    <3>3. IsFiniteSet(f[n + 1]) /\ f[n] \in SUBSET f[n + 1]
      BY <1>3, <2>2, <3>2
    <3>4. Cardinality(f[n]) <= Cardinality(f[n + 1])
          /\ Cardinality(f[n]) # Cardinality(f[n + 1])
      BY <3>2, <3>3, FS_Subset
    <3>5. QED
      BY <1>3, <2>1, <2>2, <3>1, <3>4
  <2>5. QED
    BY <2>3, <2>4
<1>6. 0 .. B \subseteq large
  <2> HIDE DEF large
  <2>1. QED
    BY <1>1, <1>4, <1>5, SetIntervalInduction
<1>7. f[B] \in SUBSET Blocks
  BY <1>1
<1>8. CASE Cardinality(f[B]) >= B
  <2>1. Cardinality(f[B]) <= Cardinality(Blocks)
        /\ (Cardinality(Blocks) = Cardinality(f[B]) => Blocks = f[B])
    BY <1>1, <1>7, FS_Subset
  <2>2. f[B] = Blocks
    BY <1>1, <1>3, <1>7, <1>8, <2>1
  <2>3. QED
    BY <2>2, GraphIs DEF Closed
<1>9. QED
  BY <1>1, <1>6, <1>8

(* It is the smallest closed set with the start in it.                     *)
LEMMA ReachSmallest ==
  ASSUME NEW S \in SUBSET Blocks, NEW x, NEW T, S \ {x} \subseteq T, Closed(T, x)
  PROVE  ReachableAvoiding(S, x) \subseteq T
<1>1. B \in Nat
  BY GraphIs
<1>2. PICK f : Spreads(f, S, x)
  BY SpreadIterates
<1> USE <1>2 DEF Spreads
<1> DEFINE within == {n \in 0 .. B : f[n] \subseteq T}
<1>3. 0 \in within
  BY <1>1
<1>4. ASSUME NEW n \in 0 .. B - 1, n \in within
      PROVE  n + 1 \in within
  <2>1. n + 1 \in 1 .. B /\ n + 1 \in 0 .. B /\ (n + 1) - 1 = n
    BY <1>1
  <2>2. f[n + 1] = Spread(f[n], x)
    BY <2>1
  <2>3. ASSUME NEW b \in Blocks \ {x}, NEW a \in Predecessors(b), a \in f[n]
        PROVE  b \in T
    BY <1>4, <2>3, GraphIs, ClosedEdges
  <2>4. QED
    BY <1>4, <2>1, <2>2, <2>3 DEF Spread
<1>5. 0 .. B \subseteq within
  <2> HIDE DEF within
  <2>1. QED
    BY <1>1, <1>3, <1>4, SetIntervalInduction
<1>6. QED
  BY <1>1, <1>5

LEMMA ReachContains ==
  ASSUME NEW S \in SUBSET Blocks, NEW x
  PROVE  /\ S \ {x} \subseteq ReachableAvoiding(S, x)
         /\ ReachableAvoiding(S, x) \subseteq Blocks
         /\ x \notin ReachableAvoiding(S, x)
<1>1. B \in Nat
  BY GraphIs
<1>2. PICK f : Spreads(f, S, x)
  BY SpreadIterates
<1> USE <1>2 DEF Spreads
<1> DEFINE above == {n \in 0 .. B : S \ {x} \subseteq f[n] /\ x \notin f[n]}
<1>3. 0 \in above
  BY <1>1
<1>4. ASSUME NEW n \in 0 .. B - 1, n \in above
      PROVE  n + 1 \in above
  <2>1. n + 1 \in 1 .. B /\ n + 1 \in 0 .. B /\ (n + 1) - 1 = n
    BY <1>1
  <2>2. f[n + 1] = Spread(f[n], x)
    BY <2>1
  <2>3. QED
    BY <1>4, <2>1, <2>2 DEF Spread
<1>5. 0 .. B \subseteq above
  <2> HIDE DEF above
  <2>1. QED
    BY <1>1, <1>3, <1>4, SetIntervalInduction
<1>6. QED
  BY <1>1, <1>5


\* The blocks that can be reached without the block x.
Without(x) == ReachableAvoiding({1}, x)

LEMMA WithoutIs ==
  ASSUME NEW x
  PROVE  /\ Without(x) \subseteq Blocks \ {x}
         /\ x # 1 => 1 \in Without(x)
         /\ \A a, b \in Blocks : <<a, b>> \in Edges /\ a \in Without(x) /\ b # x
                                   => b \in Without(x)
<1>1. {1} \in SUBSET Blocks
  BY GraphIs
<1>2. QED
  BY <1>1, ReachContains, ReachClosed, ClosedEdges DEF Without

LEMMA WithoutSmallest ==
  ASSUME NEW x, NEW T, x # 1 => 1 \in T,
         \A a, b \in Blocks : <<a, b>> \in Edges /\ a \in T /\ b # x => b \in T
  PROVE  Without(x) \subseteq T
<1>1. {1} \in SUBSET Blocks
  BY GraphIs
<1>2. Closed(T, x)
  BY ClosedEdges
<1>3. {1} \ {x} \subseteq T
  OBVIOUS
<1>4. QED
  BY <1>1, <1>2, <1>3, ReachSmallest DEF Without

(* Every block can be reached.                                             *)
LEMMA AllReached ==
  ASSUME NEW T, 1 \in T,
         \A a, b \in Blocks : <<a, b>> \in Edges /\ a \in T => b \in T
  PROVE  Blocks \subseteq T
<1>1. Without(0) = Blocks
  BY LoopSimplified DEF Without
<1>2. QED
  BY <1>1, WithoutSmallest

----------------------------------------------------------------------------
(* Dominance                                                               *)

LEMMA DominatesIs ==
  ASSUME NEW a, NEW b \in Blocks
  PROVE  Dominates(a, b) <=> a \in Blocks /\ b \notin Without(a)
<1>1. Dominates(a, b) <=> a \in Blocks /\ (a = b \/ b \notin Without(a))
  BY DEF Dominates, Dominators, Without
<1>2. a \notin Without(a)
  BY WithoutIs
<1>3. QED
  BY <1>1, <1>2

LEMMA DominatesItself ==
  ASSUME NEW a \in Blocks
  PROVE  Dominates(a, a)
BY DominatesIs, WithoutIs

(* What dominates a block dominates its predecessors.                      *)
LEMMA DominatesPredecessors ==
  ASSUME NEW a, NEW b \in Blocks, Dominates(a, b), a # b, NEW q \in Predecessors(b)
  PROVE  Dominates(a, q)
<1>1. q \in Blocks /\ <<q, b>> \in Edges
  BY GraphIs
<1>2. QED
  BY <1>1, DominatesIs, WithoutIs

LEMMA DominatesTransitive ==
  ASSUME NEW a, NEW b \in Blocks, NEW c \in Blocks, Dominates(a, b), Dominates(b, c)
  PROVE  Dominates(a, c)
<1>1. a \in Blocks /\ b \notin Without(a) /\ c \notin Without(b)
  BY DominatesIs
<1> DEFINE T == Without(a) \cap Without(b)
<1>2. a # 1 => 1 \in T
  BY <1>1, WithoutIs
<1>3. ASSUME NEW u \in Blocks, NEW v \in Blocks, <<u, v>> \in Edges, u \in T, v # a
      PROVE  v \in T
  <2>1. v \in Without(a)
    BY <1>3, WithoutIs
  <2>2. v # b
    BY <1>1, <2>1
  <2>3. QED
    BY <1>3, <2>1, <2>2, WithoutIs
<1>4. Without(a) \subseteq T
  <2> HIDE DEF T
  <2>1. QED
    BY <1>2, <1>3, WithoutSmallest
<1>5. QED
  BY <1>1, <1>4, DominatesIs

(* A block other than the entry has a predecessor before it.               *)
LEMMA ForwardPredecessor ==
  ASSUME NEW b \in Blocks, b # 1
  PROVE  \E q \in Predecessors(b) : q < b
<1>1. SUFFICES ASSUME \A q \in Predecessors(b) : ~ (q < b)
               PROVE  FALSE
  OBVIOUS
<1>2. \A q \in Predecessors(b) : Dominates(b, q)
  <2>1. TAKE q \in Predecessors(b)
  <2>2. PICK e \in Edges : e = <<q, b>>
    BY GraphIs
  <2>3. e[1] = q /\ e[2] = b
    BY <2>2
  <2>4. QED
    BY <1>1, <2>3, LoopSimplified
<1>3. ASSUME NEW u \in Blocks, NEW v \in Blocks, <<u, v>> \in Edges, u \in Without(b)
      PROVE  v \in Without(b)
  <2>1. CASE v = b
    <3>1. u \in Predecessors(b)
      BY <1>3, <2>1, GraphIs
    <3>2. QED
      BY <1>2, <1>3, <3>1, DominatesIs
  <2>2. CASE v # b
    BY <1>3, <2>2, WithoutIs
  <2>3. QED
    BY <2>1, <2>2
<1>4. 1 \in Without(b)
  BY WithoutIs
<1>5. Blocks \subseteq Without(b)
  BY <1>3, <1>4, AllReached
<1>6. QED
  BY <1>5, WithoutIs

(* Blocks are numbered so that dominators come first.                      *)
LEMMA DominatesInOrder ==
  ASSUME NEW a, NEW b \in Blocks, Dominates(a, b)
  PROVE  a <= b
<1>1. SUFFICES ASSUME b < a
               PROVE  FALSE
  BY DominatesIs, GraphIs
<1>2. a \in Blocks
  BY DominatesIs
<1> DEFINE S == {n \in 0 .. B : \A c \in Blocks : c <= n /\ c < a => c \in Without(a)}
<1>3. 0 \in S
  BY GraphIs DEF Blocks
<1>4. ASSUME NEW n \in 0 .. B - 1, n \in S
      PROVE  n + 1 \in S
  <2>1. SUFFICES ASSUME NEW c \in Blocks, c = n + 1, c < a
                 PROVE  c \in Without(a)
    BY <1>4, GraphIs DEF Blocks
  <2>2. CASE c = 1
    BY <2>1, <2>2, <1>2, WithoutIs
  <2>3. CASE c # 1
    <3>1. PICK q \in Predecessors(c) : q < c
      BY <2>3, ForwardPredecessor
    <3>2. q \in Blocks /\ <<q, c>> \in Edges
      BY GraphIs
    <3>3. q <= n /\ q < a
      BY <2>1, <3>1, <3>2, <1>2, GraphIs
    <3>4. q \in Without(a)
      BY <1>4, <3>2, <3>3
    <3>5. c # a
      BY <2>1, <1>2, GraphIs
    <3>6. QED
      BY <3>2, <3>4, <3>5, WithoutIs
  <2>4. QED
    BY <2>2, <2>3
<1>5. 0 .. B \subseteq S
  <2> HIDE DEF S
  <2>1. QED
    BY <1>3, <1>4, GraphIs, SetIntervalInduction
<1>6. b \in Without(a)
  <2>1. b \in 0 .. B /\ b <= b
    BY GraphIs DEF Blocks
  <2>2. b \in S
    BY <1>5, <2>1
  <2>3. QED
    BY <1>1, <2>1, <2>2
<1>7. QED
  BY <1>6, DominatesIs

LEMMA DominatesAntisymmetric ==
  ASSUME NEW a \in Blocks, NEW b \in Blocks, Dominates(a, b), Dominates(b, a)
  PROVE  a = b
BY DominatesInOrder, GraphIs

LEMMA EntryDominates ==
  ASSUME NEW b \in Blocks
  PROVE  Dominates(1, b)
<1>1. Without(1) \subseteq {}
  <2> DEFINE T == {}
  <2>1. 1 # 1 => 1 \in T
    OBVIOUS
  <2>2. \A u, v \in Blocks : <<u, v>> \in Edges /\ u \in T /\ v # 1 => v \in T
    OBVIOUS
  <2> HIDE DEF T
  <2>3. Without(1) \subseteq T
    BY <2>1, <2>2, WithoutSmallest
  <2>4. QED
    BY <2>3 DEF T
<1>2. QED
  BY <1>1, GraphIs, DominatesIs


----------------------------------------------------------------------------
(* Loops                                                                   *)

LEMMA LatchIs ==
  ASSUME NEW h, NEW a
  PROVE  a \in Latches(h) <=> /\ a \in Blocks /\ <<a, h>> \in Edges /\ Dominates(h, a)
BY GraphIs DEF Latches

LEMMA HeadersAre ==
  Headers \subseteq Blocks
BY DEF Headers

\* What can be reached from b without h, the header of a loop.
Onward(b, h) == ReachableAvoiding({b}, h)

LEMMA OnwardIs ==
  ASSUME NEW b \in Blocks, NEW h
  PROVE  /\ Onward(b, h) \subseteq Blocks \ {h}
         /\ b # h => b \in Onward(b, h)
         /\ \A u, v \in Blocks : <<u, v>> \in Edges /\ u \in Onward(b, h) /\ v # h
                                   => v \in Onward(b, h)
<1>1. {b} \in SUBSET Blocks
  OBVIOUS
<1>2. QED
  BY <1>1, ReachContains, ReachClosed, ClosedEdges DEF Onward

LEMMA OnwardSmallest ==
  ASSUME NEW b \in Blocks, NEW h, NEW T, b # h => b \in T,
         \A u, v \in Blocks : <<u, v>> \in Edges /\ u \in T /\ v # h => v \in T
  PROVE  Onward(b, h) \subseteq T
<1>1. {b} \in SUBSET Blocks
  OBVIOUS
<1>2. Closed(T, h)
  BY ClosedEdges
<1>3. {b} \ {h} \subseteq T
  OBVIOUS
<1>4. QED
  BY <1>1, <1>2, <1>3, ReachSmallest DEF Onward

(* From what is reached no more is reached.                                *)
LEMMA OnwardTransitive ==
  ASSUME NEW b \in Blocks, NEW h, NEW c \in Onward(b, h)
  PROVE  Onward(c, h) \subseteq Onward(b, h)
<1>1. c \in Blocks
  BY OnwardIs
<1>2. QED
  BY <1>1, OnwardIs, OnwardSmallest

LEMMA LoopIs ==
  ASSUME NEW h \in Headers, NEW b
  PROVE  b \in Loop(h) <=> \/ b = h
                           \/ /\ b \in Blocks /\ Dominates(h, b)
                              /\ \E a \in Latches(h) : a \in Onward(b, h)
BY DEF Loop, LoopBlocks, Onward

LEMMA HeaderDominates ==
  ASSUME NEW h \in Headers, NEW b \in Loop(h)
  PROVE  b \in Blocks /\ Dominates(h, b)
BY LoopIs, HeadersAre, DominatesItself

LEMMA LatchesInside ==
  ASSUME NEW h \in Headers, NEW a \in Latches(h)
  PROVE  a \in Loop(h)
BY LoopIs, LatchIs, OnwardIs

(* A loop is entered by its header only.                                   *)
LEMMA PredecessorsInside ==
  ASSUME NEW h \in Headers, NEW b \in Loop(h), b # h, NEW q \in Predecessors(b)
  PROVE  q \in Loop(h)
<1>1. b \in Blocks /\ Dominates(h, b) /\ q \in Blocks /\ <<q, b>> \in Edges
  BY HeaderDominates, GraphIs
<1>2. Dominates(h, q)
  BY <1>1, DominatesPredecessors
<1>3. PICK a \in Latches(h) : a \in Onward(b, h)
  BY LoopIs
<1>4. CASE q # h
  <2>1. b \in Onward(q, h)
    BY <1>1, <1>4, OnwardIs
  <2>2. a \in Onward(q, h)
    BY <1>1, <1>3, <2>1, OnwardTransitive
  <2>3. QED
    BY <1>1, <1>2, <2>2, LoopIs
<1>5. QED
  BY <1>4, LoopIs

(* So what holds of the header, and of a block when it holds of one before *)
(* it in the loop, holds of the loop.                                      *)
LEMMA LoopInduction ==
  ASSUME NEW h \in Headers, NEW T, h \in T,
         \A b \in Loop(h) \ {h} : \A q \in Predecessors(b) \cap Loop(h) : q \in T => b \in T
  PROVE  Loop(h) \subseteq T
<1> DEFINE S == {n \in 0 .. B : \A b \in Loop(h) : b <= n => b \in T}
<1>1. \A b \in Loop(h) : b \in 1 .. B /\ b \in Nat
  BY HeaderDominates, GraphIs DEF Blocks
<1>2. 0 \in S
  BY <1>1, GraphIs
<1>3. ASSUME NEW n \in 0 .. B - 1, n \in S
      PROVE  n + 1 \in S
  <2>1. SUFFICES ASSUME NEW b \in Loop(h), b = n + 1
                 PROVE  b \in T
    BY <1>1, <1>3, GraphIs
  <2>2. CASE b # h
    <3>1. b \in Blocks /\ Dominates(h, b)
      BY HeaderDominates
    <3>2. b # 1
      BY <2>2, <3>1, DominatesInOrder, HeadersAre, GraphIs DEF Blocks
    <3>3. PICK q \in Predecessors(b) : q < b
      BY <3>1, <3>2, ForwardPredecessor
    <3>4. q \in Loop(h)
      BY <2>2, PredecessorsInside
    <3>5. q \in T
      BY <1>1, <1>3, <2>1, <3>3, <3>4
    <3>6. QED
      BY <2>2, <3>4, <3>5
  <2>3. QED
    BY <2>2
<1>4. 0 .. B \subseteq S
  <2> HIDE DEF S
  <2>1. QED
    BY <1>2, <1>3, GraphIs, SetIntervalInduction
<1>5. QED
  BY <1>1, <1>4

LEMMA PreheaderIs ==
  ASSUME NEW h \in Headers
  PROVE  LET p == getLoopPreheader(h) IN
         /\ p \in Blocks \ Loop(h) /\ Predecessors(h) \ Loop(h) = {p}
         /\ <<p, h>> \in Edges
         /\ \A b \in Blocks : <<p, b>> \in Edges => b = h
<1>1. PICK p \in Blocks : /\ Predecessors(h) \ Loop(h) = {p}
                          /\ \A b \in Blocks : <<p, b>> \in Edges => b = h
  BY LoopSimplified
<1>2. getLoopPreheader(h) = p
  BY <1>1 DEF getLoopPreheader
<1>3. p \in Predecessors(h) /\ p \notin Loop(h)
  BY <1>1
<1>4. <<p, h>> \in Edges
  BY <1>3, GraphIs
<1>5. QED
  BY <1>1, <1>2, <1>3, <1>4

LEMMA HeaderNotEntry ==
  ASSUME NEW h \in Headers
  PROVE  h # 1
<1>1. PICK p : p = getLoopPreheader(h)
  OBVIOUS
<1>2. p \in Blocks /\ <<p, h>> \in Edges /\ p \notin Loop(h)
  BY <1>1, PreheaderIs
<1>3. QED
  BY <1>2, EntryDominates, LatchIs, LatchesInside

LEMMA PreheaderDominates ==
  ASSUME NEW h \in Headers
  PROVE  Dominates(getLoopPreheader(h), h)
<1>1. PICK p : p = getLoopPreheader(h)
  OBVIOUS
<1>2. p \in Blocks /\ Predecessors(h) \ Loop(h) = {p} /\ p \notin Loop(h)
  BY <1>1, PreheaderIs
<1> DEFINE T == {v \in Without(p) : ~ Dominates(h, v)}
<1>3. p # 1 => 1 \in T
  <2>1. ~ Dominates(h, 1)
    BY DominatesInOrder, HeaderNotEntry, HeadersAre, GraphIs DEF Blocks
  <2>2. QED
    BY <2>1, WithoutIs
<1>4. ASSUME NEW u \in Blocks, NEW v \in Blocks, <<u, v>> \in Edges, u \in T, v # p
      PROVE  v \in T
  <2>1. v \in Without(p) /\ u \in Predecessors(v) /\ u # p
    BY <1>4, WithoutIs, GraphIs
  <2>2. CASE v = h
    <3>1. u \in Loop(h)
      BY <1>2, <2>1, <2>2
    <3>2. QED
      BY <1>4, <3>1, HeaderDominates
  <2>3. CASE v # h
    BY <1>4, <2>1, <2>3, DominatesPredecessors
  <2>4. QED
    BY <2>2, <2>3
<1>5. Without(p) \subseteq T
  <2> HIDE DEF T
  <2>1. QED
    BY <1>3, <1>4, WithoutSmallest
<1>6. h \notin T
  BY HeadersAre, DominatesItself
<1>7. QED
  BY <1>1, <1>2, <1>5, <1>6, HeadersAre, DominatesIs

(* A dominator of a block of the loop that is outside of it dominates the  *)
(* preheader.                                                              *)
LEMMA OutsideDominators ==
  ASSUME NEW h \in Headers, NEW b \in Loop(h), NEW d, Dominates(d, b), d \notin Loop(h)
  PROVE  Dominates(d, getLoopPreheader(h))
<1>1. PICK p : p = getLoopPreheader(h)
  OBVIOUS
<1>2. p \in Blocks /\ <<p, h>> \in Edges /\ h \in Blocks /\ b \in Blocks
  BY <1>1, PreheaderIs, HeadersAre, HeaderDominates
<1>3. d \in Blocks /\ b \notin Without(d)
  BY <1>2, DominatesIs
<1>4. SUFFICES ASSUME p \in Without(d)
               PROVE  FALSE
  BY <1>1, <1>2, <1>3, DominatesIs
<1>5. d # h
  BY LoopIs
<1>6. h \in Without(d)
  BY <1>2, <1>4, <1>5, WithoutIs
<1>7. ASSUME NEW c \in Loop(h) \ {h}, NEW q \in Predecessors(c) \cap Loop(h), q \in Without(d)
      PROVE  c \in Without(d)
  <2>1. c \in Blocks /\ q \in Blocks /\ <<q, c>> \in Edges
    BY HeaderDominates, GraphIs
  <2>2. QED
    BY <1>7, <2>1, WithoutIs
<1>8. Loop(h) \subseteq Without(d)
  BY <1>6, <1>7, LoopInduction
<1>9. QED
  BY <1>3, <1>8

(* A dominator of a block of the loop is inside or dominates the header.   *)
LEMMA DominatorsInside ==
  ASSUME NEW h \in Headers, NEW b \in Loop(h), NEW d, Dominates(d, b)
  PROVE  d \in Loop(h) \/ Dominates(d, h)
<1> DEFINE T == {c \in Blocks : Dominates(d, c) => d \in Loop(h) \/ Dominates(d, h)}
<1>1. h \in T
  BY HeadersAre
<1>2. ASSUME NEW c \in Loop(h) \ {h}, NEW q \in Predecessors(c) \cap Loop(h), q \in T
      PROVE  c \in T
  <2>1. c \in Blocks
    BY HeaderDominates
  <2>2. CASE Dominates(d, c) /\ c # d
    <3>1. Dominates(d, q)
      BY <2>1, <2>2, DominatesPredecessors
    <3>2. QED
      BY <1>2, <2>1, <3>1
  <2>3. QED
    BY <2>1, <2>2
<1>3. Loop(h) \subseteq T
  <2> HIDE DEF T
  <2>1. QED
    BY <1>1, <1>2, LoopInduction
<1>4. QED
  BY <1>3


(* What reaches a latch without the header is dominated by the header.     *)
LEMMA DominatedOnward ==
  ASSUME NEW h \in Blocks, NEW v \in Blocks, NEW a \in Onward(v, h), Dominates(h, a)
  PROVE  Dominates(h, v)
<1>1. SUFFICES ASSUME v \in Without(h)
               PROVE  FALSE
  BY DominatesIs
<1>2. Onward(v, h) \subseteq Without(h)
  BY <1>1, WithoutIs, OnwardSmallest
<1>3. a \in Blocks
  BY OnwardIs
<1>4. QED
  BY <1>2, <1>3, DominatesIs

(* A loop whose header is in another loop is inside that loop.             *)
LEMMA LoopsNest ==
  ASSUME NEW g \in Headers, NEW h \in Headers, h \in Loop(g), h # g
  PROVE  Loop(h) \subseteq Loop(g)
<1>1. g \in Blocks /\ h \in Blocks /\ Dominates(g, h)
  BY HeadersAre, HeaderDominates
<1>2. ~ Dominates(h, g)
  BY <1>1, DominatesAntisymmetric
<1>3. SUFFICES ASSUME NEW b \in Loop(h), b # h
               PROVE  b \in Loop(g)
  OBVIOUS
<1>4. b \in Blocks /\ Dominates(h, b)
  BY HeaderDominates
<1>5. Dominates(g, b)
  BY <1>1, <1>4, DominatesTransitive
<1>6. b # g
  BY <1>2, <1>4
<1>7. PICK a \in Latches(h) : a \in Onward(b, h)
  BY <1>3, LoopIs
<1>8. a \in Blocks /\ <<a, h>> \in Edges /\ Dominates(h, a) /\ a # h
  BY <1>4, <1>7, LatchIs, OnwardIs
<1> DEFINE T == {v \in Onward(b, h) : a \in Onward(v, h) => v \in Onward(b, g)}
<1>9. b \in T
  BY <1>3, <1>4, <1>6, OnwardIs
<1>10. ASSUME NEW u \in Blocks, NEW v \in Blocks, <<u, v>> \in Edges, u \in T, v # h
       PROVE  v \in T
  <2>1. v \in Onward(b, h) /\ u # h
    BY <1>4, <1>10, OnwardIs
  <2>2. ASSUME a \in Onward(v, h)
        PROVE  v \in Onward(b, g)
    <3>1. v \in Onward(u, h)
      BY <1>10, <2>1, OnwardIs
    <3>2. a \in Onward(u, h)
      BY <1>10, <2>2, <3>1, OnwardTransitive
    <3>3. u \in Onward(b, g)
      BY <1>10, <3>2
    <3>4. Dominates(h, v)
      BY <1>1, <1>8, <2>2, DominatedOnward
    <3>5. v # g
      BY <1>2, <3>4
    <3>6. QED
      BY <1>4, <1>10, <3>3, <3>5, OnwardIs
  <2>3. QED
    BY <2>1, <2>2
<1>11. Onward(b, h) \subseteq T
  <2> HIDE DEF T
  <2>1. QED
    BY <1>4, <1>9, <1>10, OnwardSmallest
<1>12. a \in Onward(b, g)
  BY <1>7, <1>8, <1>11, OnwardIs
<1>13. h \in Onward(b, g)
  BY <1>1, <1>4, <1>8, <1>12, OnwardIs
<1>14. PICK c \in Latches(g) : c \in Onward(h, g)
  BY LoopIs
<1>15. c \in Onward(b, g)
  BY <1>4, <1>13, <1>14, OnwardTransitive
<1>16. QED
  BY <1>4, <1>5, <1>14, <1>15, LoopIs

LEMMA LoopsDiffer ==
  ASSUME NEW g \in Headers, NEW h \in Headers, Loop(g) = Loop(h)
  PROVE  g = h
<1>1. g \in Loop(h) /\ h \in Loop(g)
  BY LoopIs
<1>2. QED
  BY <1>1, HeaderDominates, DominatesAntisymmetric

LEMMA LoopsOfIs ==
  ASSUME NEW b \in Blocks
  PROVE  LoopsOf(b) \subseteq Headers /\ \A h \in Headers : h \in LoopsOf(b) <=> b \in Loop(h)
BY DEF LoopsOf, Surrounding

(* A set of blocks has a last one.                                         *)
LEMMA LastBlock ==
  ASSUME NEW T \in SUBSET Blocks, T # {}
  PROVE  \E b \in T : \A c \in T : c <= b
<1> DEFINE S == {n \in 0 .. B : \A c \in T : c <= B - n}
<1>1. SUFFICES ASSUME \A b \in T : \E c \in T : ~ (c <= b)
               PROVE  FALSE
  OBVIOUS
<1>2. \A c \in T : c \in 1 .. B /\ c \in Nat
  BY GraphIs DEF Blocks
<1>3. 0 \in S
  BY <1>2, GraphIs
<1>4. ASSUME NEW n \in 0 .. B - 1, n \in S
      PROVE  n + 1 \in S
  <2>1. ASSUME NEW c \in T
        PROVE  c <= B - (n + 1)
    <3>1. PICK d \in T : ~ (d <= c)
      BY <1>1
    <3>2. d <= B - n
      BY <1>4
    <3>3. QED
      BY <1>2, <3>1, <3>2, GraphIs
  <2>2. QED
    BY <2>1, GraphIs
<1>5. 0 .. B \subseteq S
  <2> HIDE DEF S
  <2>1. QED
    BY <1>3, <1>4, GraphIs, SetIntervalInduction
<1>6. PICK c \in T : TRUE
  OBVIOUS
<1>7. B \in S
  BY <1>5, GraphIs
<1>8. c <= B - B
  BY <1>7
<1>9. QED
  BY <1>2, <1>6, <1>8, GraphIs

(* And a first one.                                                        *)
LEMMA FirstBlockIs ==
  ASSUME NEW T \in SUBSET Blocks, T # {}
  PROVE  FirstBlock(T) \in T /\ \A c \in T : FirstBlock(T) <= c
<1> DEFINE S == {n \in 0 .. B : \A c \in T : c > n}
<1>1. \A c \in T : c \in 1 .. B /\ c \in Nat
  BY GraphIs DEF Blocks
<1>2. \E b \in T : \A c \in T : b <= c
  <2>1. SUFFICES ASSUME \A b \in T : \E c \in T : ~ (b <= c)
                 PROVE  FALSE
    OBVIOUS
  <2>2. 0 \in S
    BY <1>1, GraphIs
  <2>3. ASSUME NEW n \in 0 .. B - 1, n \in S
        PROVE  n + 1 \in S
    <3>1. ASSUME NEW c \in T
          PROVE  c > n + 1
      <4>1. PICK d \in T : ~ (c <= d)
        BY <2>1
      <4>2. d > n
        BY <2>3
      <4>3. QED
        BY <1>1, <4>1, <4>2, GraphIs
    <3>2. QED
      BY <3>1, GraphIs
  <2>4. 0 .. B \subseteq S
    <3> HIDE DEF S
    <3>1. QED
      BY <2>2, <2>3, GraphIs, SetIntervalInduction
  <2>5. PICK c \in T : TRUE
    OBVIOUS
  <2>6. B \in S
    BY <2>4, GraphIs
  <2>7. c > B
    BY <2>6
  <2>8. QED
    BY <1>1, <2>5, <2>7, GraphIs
<1>3. QED
  BY <1>2 DEF FirstBlock

(* Of the loops around a block one is inside all others.                   *)
LEMMA LoopForIs ==
  ASSUME NEW b \in Blocks, NEW h \in Headers, b \in Loop(h)
  PROVE  /\ getLoopFor(b) \in Headers /\ b \in Loop(getLoopFor(b))
         /\ Loop(getLoopFor(b)) \subseteq Loop(h)
<1>1. LoopsOf(b) \in SUBSET Blocks /\ LoopsOf(b) # {}
  BY LoopsOfIs, HeadersAre
<1>2. PICK m \in LoopsOf(b) : \A g \in LoopsOf(b) : g <= m
  BY <1>1, LastBlock
<1>3. ASSUME NEW g \in LoopsOf(b)
      PROVE  Loop(m) \subseteq Loop(g)
  <2>1. g \in Headers /\ m \in Headers /\ b \in Loop(g) /\ b \in Loop(m)
    BY LoopsOfIs
  <2>2. m \in Loop(g) \/ Dominates(m, g)
    BY <2>1, HeaderDominates, DominatorsInside
  <2>3. CASE m \in Loop(g)
    BY <2>1, <2>3, LoopsNest
  <2>4. CASE Dominates(m, g)
    <3>1. m <= g
      BY <2>1, <2>4, HeadersAre, DominatesInOrder
    <3>2. g = m
      BY <1>2, <2>1, <3>1, HeadersAre, GraphIs
    <3>3. QED
      BY <3>2
  <2>5. QED
    BY <2>2, <2>3, <2>4
<1>4. /\ getLoopFor(b) \in LoopsOf(b)
      /\ \A g \in LoopsOf(b) : Loop(getLoopFor(b)) \subseteq Loop(g)
  BY <1>3 DEF getLoopFor
<1>5. QED
  BY <1>4, LoopsOfIs

(* A loop around the preheader is around the loop.                         *)
LEMMA LoopOfPreheader ==
  ASSUME NEW h \in Headers, NEW g \in Headers, getLoopPreheader(h) \in Loop(g)
  PROVE  h \in Loop(g) /\ h # g
<1>1. PICK p : p = getLoopPreheader(h)
  OBVIOUS
<1>2. /\ p \in Blocks /\ p \notin Loop(h) /\ <<p, h>> \in Edges
      /\ \A b \in Blocks : <<p, b>> \in Edges => b = h
      /\ h \in Blocks /\ g \in Blocks /\ p # h
  BY <1>1, PreheaderIs, HeadersAre, LoopIs
<1>3. p \in Loop(g) /\ Dominates(p, h)
  BY <1>1, PreheaderDominates
<1>4. h # g
  BY <1>2, <1>3
<1>5. p \notin Latches(g)
  BY <1>2, <1>4, LatchIs
<1>6. Dominates(g, h)
  BY <1>2, <1>3, HeaderDominates, DominatesTransitive
<1>7. \E a \in Latches(g) : a \in Onward(h, g)
  <2>1. CASE p = g
    <3>1. PICK a \in Latches(p) : TRUE
      BY <2>1 DEF Headers
    <3>2. a \in Blocks /\ Dominates(p, a) /\ a # p
      BY <1>5, <2>1, <3>1, LatchIs
    <3> DEFINE T == {v \in Blocks : Dominates(p, v) /\ v # p => v \in Onward(h, p)}
    <3>3. 1 \in T
      <4>1. Dominates(p, 1) => p = 1
        BY <1>2, GraphIs, EntryDominates, DominatesAntisymmetric
      <4>2. QED
        BY <4>1, GraphIs
    <3>4. ASSUME NEW u \in Blocks, NEW v \in Blocks, <<u, v>> \in Edges, u \in T
          PROVE  v \in T
      <4>1. SUFFICES ASSUME Dominates(p, v), v # p
                     PROVE  v \in Onward(h, p)
        OBVIOUS
      <4>2. Dominates(p, u)
        BY <3>4, <4>1, GraphIs, DominatesPredecessors
      <4>3. CASE u = p
        BY <1>2, <3>4, <4>3, OnwardIs
      <4>4. CASE u # p
        BY <1>2, <3>4, <4>1, <4>2, <4>4, OnwardIs
      <4>5. QED
        BY <4>3, <4>4
    <3>5. Blocks \subseteq T
      <4> HIDE DEF T
      <4>1. QED
        BY <3>3, <3>4, AllReached
    <3>6. QED
      BY <2>1, <3>1, <3>2, <3>5
  <2>2. CASE p # g
    <3>1. PICK a \in Latches(g) : a \in Onward(p, g)
      BY <1>3, <2>2, LoopIs
    <3> DEFINE T == {p} \cup Onward(h, g)
    <3>2. ASSUME NEW u \in Blocks, NEW v \in Blocks, <<u, v>> \in Edges, u \in T, v # g
          PROVE  v \in T
      <4>1. CASE u = p
        BY <1>2, <1>4, <3>2, <4>1, OnwardIs
      <4>2. CASE u # p
        BY <1>2, <3>2, <4>2, OnwardIs
      <4>3. QED
        BY <4>1, <4>2
    <3>3. Onward(p, g) \subseteq T
      <4>1. p \in T
        OBVIOUS
      <4> HIDE DEF T
      <4>2. QED
        BY <1>2, <3>2, <4>1, OnwardSmallest
    <3>4. QED
      BY <1>5, <3>1, <3>3
  <2>3. QED
    BY <2>1, <2>2
<1>8. QED
  BY <1>2, <1>4, <1>6, <1>7, LoopIs


----------------------------------------------------------------------------
(* Places of instructions                                                  *)

Placement(place) == place \in [Blocks -> Seq(Instrs)] /\ EachOnce(place)

LEMMA PlaceIs ==
  ASSUME NEW place, Placement(place), NEW i \in Instrs
  PROVE  /\ BlockOf(place, i) \in Blocks
         /\ IndexOf(place, i) \in DOMAIN place[BlockOf(place, i)]
         /\ place[BlockOf(place, i)][IndexOf(place, i)] = i
<1>1. PICK b \in Blocks : \E k \in DOMAIN place[b] :
        \A c \in Blocks : \A l \in DOMAIN place[c] : place[c][l] = i <=> c = b /\ l = k
  BY DEF Placement, EachOnce
<1>2. PICK k \in DOMAIN place[b] :
        \A c \in Blocks : \A l \in DOMAIN place[c] : place[c][l] = i <=> c = b /\ l = k
  BY <1>1
<1>3. place[b][k] = i
  BY <1>2
<1>4. BlockOf(place, i) \in Blocks
      /\ \E l \in DOMAIN place[BlockOf(place, i)] : place[BlockOf(place, i)][l] = i
  BY <1>3 DEF BlockOf
<1>5. QED
  BY <1>4 DEF IndexOf

LEMMA PlaceUnique ==
  ASSUME NEW place, Placement(place), NEW c \in Blocks, NEW l \in DOMAIN place[c]
  PROVE  /\ place[c][l] \in Instrs
         /\ BlockOf(place, place[c][l]) = c /\ IndexOf(place, place[c][l]) = l
<1>1. PICK i \in Instrs : i = place[c][l]
  BY DEF Placement
<1>2. PICK b \in Blocks : \E k \in DOMAIN place[b] :
        \A d \in Blocks : \A m \in DOMAIN place[d] : place[d][m] = i <=> d = b /\ m = k
  BY DEF Placement, EachOnce
<1>3. PICK k \in DOMAIN place[b] :
        \A d \in Blocks : \A m \in DOMAIN place[d] : place[d][m] = i <=> d = b /\ m = k
  BY <1>2
<1>4. c = b /\ l = k
  BY <1>1, <1>3
<1>5. BlockOf(place, i) = b /\ IndexOf(place, i) = k
  BY <1>3, PlaceIs
<1>6. QED
  BY <1>1, <1>4, <1>5

\* Instruction d comes before instruction i on every path to i.
Before(place, d, i) ==
  LET db == BlockOf(place, d)  b == BlockOf(place, i)
  IN IF db = b THEN IndexOf(place, d) < IndexOf(place, i) ELSE Dominates(db, b)

OperandComesFirst(f, place, i, o) ==
  LET d == f.operands[i][o] IN
  d # Argument => IF f.kind[i] = "phi" THEN Dominates(BlockOf(place, d), o)
                                       ELSE Before(place, d, i)

\* What does not change of a function, and is in order.
WellKnown(f) ==
  /\ f.kind \in [Instrs -> Kinds]
  /\ DOMAIN f.operands = Instrs
  /\ \A i \in Instrs :
       IF f.kind[i] = "phi"
         THEN \A o \in DOMAIN f.operands[i] : o \in Blocks /\ f.operands[i][o] \in 0 .. N
         ELSE f.operands[i] \in Seq(0 .. N)

LEMMA ElementType ==
  ASSUME NEW T, NEW s \in Seq(T), NEW k \in DOMAIN s
  PROVE  s[k] \in T
OBVIOUS

LEMMA OperandType ==
  ASSUME NEW f, WellKnown(f), NEW i \in Instrs, NEW o \in DOMAIN f.operands[i]
  PROVE  f.operands[i][o] \in 0 .. N
<1>1. CASE f.kind[i] = "phi"
  BY <1>1 DEF WellKnown
<1>2. CASE f.kind[i] # "phi"
  <2>1. f.operands[i] \in Seq(0 .. N)
    BY <1>2 DEF WellKnown
  <2>2. QED
    BY <2>1, ElementType
<1>3. QED
  BY <1>1, <1>2

LEMMA AvailableIs ==
  ASSUME NEW place, Placement(place), NEW d \in Instrs, NEW b \in Blocks,
         NEW limit \in 0 .. Len(place[b])
  PROVE  Available(place, d, b, limit) <=>
           IF BlockOf(place, d) = b THEN IndexOf(place, d) <= limit
                                    ELSE Dominates(BlockOf(place, d), b)
<1>1. PICK db \in Blocks : db = BlockOf(place, d)
  BY PlaceIs
<1>2. place[b] \in Seq(Instrs)
  BY DEF Placement
<1>3. CASE db = b
  <2>0. IndexOf(place, d) \in DOMAIN place[b] /\ place[b][IndexOf(place, d)] = d
    BY <1>1, <1>3, PlaceIs
  <2>1. IndexOf(place, d) \in 1 .. Len(place[b]) /\ place[b][IndexOf(place, d)] = d
    BY <1>2, <2>0
  <2>2. \A k \in 1 .. limit : place[b][k] = d => k = IndexOf(place, d)
    <3>1. TAKE k \in 1 .. limit
    <3>2. k \in DOMAIN place[b]
      BY <1>2
    <3>3. QED
      BY <3>2, PlaceUnique
  <2>3. (\E k \in 1 .. limit : place[b][k] = d) <=> IndexOf(place, d) <= limit
    BY <1>2, <2>1, <2>2
  <2>4. QED
    BY <1>1, <1>3, <2>3 DEF Available
<1>4. CASE db # b
  BY <1>1, <1>4 DEF Available
<1>5. QED
  BY <1>3, <1>4

LEMMA DominatedIs ==
  ASSUME NEW place, Placement(place), NEW f, WellKnown(f)
  PROVE  Dominated(f, place) <=>
           \A i \in Instrs : \A o \in DOMAIN f.operands[i] : OperandComesFirst(f, place, i, o)
<1>1. ASSUME NEW b \in Blocks, NEW k \in DOMAIN place[b], NEW i \in Instrs, place[b][k] = i,
             NEW o \in DOMAIN f.operands[i]
      PROVE  OperandComesFirst(f, place, i, o) <=>
               (f.operands[i][o] # Argument =>
                  IF f.kind[i] = "phi"
                    THEN Available(place, f.operands[i][o], o, Len(place[o]))
                    ELSE Available(place, f.operands[i][o], b, k - 1))
  <2>1. BlockOf(place, i) = b /\ IndexOf(place, i) = k /\ place[b] \in Seq(Instrs)
        /\ k \in 1 .. Len(place[b])
    BY <1>1, PlaceUnique DEF Placement
  <2>2. CASE f.operands[i][o] = Argument
    BY <2>2 DEF OperandComesFirst
  <2>3. CASE f.operands[i][o] # Argument
    <3>1. PICK d \in Instrs : d = f.operands[i][o]
      <4>1. f.operands[i][o] \in 0 .. N
        BY OperandType
      <4>2. QED
        BY <2>3, <4>1, LoopSimplified DEF Argument, Instrs
    <3>2. d # Argument
      BY <2>3, <3>1
    <3>3. CASE f.kind[i] = "phi"
      <4>1. o \in Blocks
        BY <3>3 DEF WellKnown
      <4>2. place[o] \in Seq(Instrs)
        BY <4>1 DEF Placement
      <4>3. Len(place[o]) \in 0 .. Len(place[o])
        BY <4>2
      <4>4. BlockOf(place, d) = o => IndexOf(place, d) <= Len(place[o])
        BY <4>2, PlaceIs
      <4>5. BlockOf(place, d) = o => Dominates(BlockOf(place, d), o)
        BY <4>1, DominatesItself
      <4>6. QED
        BY <3>1, <3>2, <3>3, <4>1, <4>3, <4>4, <4>5, AvailableIs DEF OperandComesFirst
    <3>4. CASE f.kind[i] # "phi"
      <4>1. k - 1 \in 0 .. Len(place[b])
        BY <2>1
      <4>2. PICK m \in Nat : m = IndexOf(place, d)
        <5>1. BlockOf(place, d) \in Blocks /\ IndexOf(place, d) \in DOMAIN place[BlockOf(place, d)]
          BY PlaceIs
        <5>2. place[BlockOf(place, d)] \in Seq(Instrs)
          BY <5>1 DEF Placement
        <5>3. QED
          BY <5>1, <5>2
      <4>3. m <= k - 1 <=> m < k
        BY <2>1
      <4>4. QED
        BY <2>1, <3>1, <3>2, <3>4, <4>1, <4>2, <4>3, AvailableIs DEF OperandComesFirst, Before
    <3>5. QED
      BY <3>3, <3>4
  <2>4. QED
    BY <2>2, <2>3
<1>2. ASSUME Dominated(f, place), NEW i \in Instrs, NEW o \in DOMAIN f.operands[i]
      PROVE  OperandComesFirst(f, place, i, o)
  <2>1. PICK b \in Blocks : b = BlockOf(place, i)
    BY PlaceIs
  <2>2. PICK k \in DOMAIN place[b] : place[b][k] = i
    BY <2>1, PlaceIs
  <2>3. QED
    BY <1>1, <1>2, <2>2 DEF Dominated
<1>3. ASSUME \A i \in Instrs : \A o \in DOMAIN f.operands[i] : OperandComesFirst(f, place, i, o)
      PROVE  Dominated(f, place)
  <2>1. SUFFICES ASSUME NEW b \in Blocks, NEW k \in DOMAIN place[b],
                        NEW o \in DOMAIN f.operands[place[b][k]]
                 PROVE  f.operands[place[b][k]][o] # Argument =>
                          IF f.kind[place[b][k]] = "phi"
                            THEN Available(place, f.operands[place[b][k]][o], o, Len(place[o]))
                            ELSE Available(place, f.operands[place[b][k]][o], b, k - 1)
    BY DEF Dominated
  <2>2. PICK i \in Instrs : i = place[b][k]
    BY PlaceUnique
  <2>3. o \in DOMAIN f.operands[i]
    BY <2>1, <2>2
  <2>4. QED
    BY <1>1, <1>3, <2>2, <2>3
<1>4. QED
  BY <1>2, <1>3


(* Taking one element out of a sequence.                                   *)
LEMMA RemoveAtIs ==
  ASSUME NEW S, NEW s \in Seq(S), NEW k \in 1 .. Len(s)
  PROVE  /\ RemoveAt(s, k) \in Seq(S)
         /\ Len(RemoveAt(s, k)) = Len(s) - 1
         /\ \A n \in 1 .. Len(s) - 1 :
              RemoveAt(s, k)[n] = IF n < k THEN s[n] ELSE s[n + 1]
<1> DEFINE left == SubSeq(s, 1, k - 1)
           right == SubSeq(s, k + 1, Len(s))
<1>1. left \in Seq(S) /\ Len(left) = k - 1 /\ \A n \in 1 .. k - 1 : left[n] = s[n]
  OBVIOUS
<1>2. right \in Seq(S) /\ Len(right) = Len(s) - k
      /\ \A n \in 1 .. Len(s) - k : right[n] = s[n + k]
  OBVIOUS
<1>3. RemoveAt(s, k) = left \o right
  BY DEF RemoveAt
<1> HIDE DEF left, right
<1>4. Len(left \o right) = Len(s) - 1 /\ left \o right \in Seq(S)
  <2>0. left \in Seq(S) /\ right \in Seq(S)
    BY <1>1, <1>2
  <2>1. Len(left \o right) = Len(left) + Len(right) /\ left \o right \in Seq(S)
    BY <2>0
  <2>2. (k - 1) + (Len(s) - k) = Len(s) - 1
    OBVIOUS
  <2>3. QED
    BY <1>1, <1>2, <2>1, <2>2
<1>5. ASSUME NEW n \in 1 .. Len(s) - 1
      PROVE  (left \o right)[n] = IF n < k THEN s[n] ELSE s[n + 1]
  <2>1. CASE n < k
    BY <1>1, <1>2, <2>1
  <2>2. CASE ~ (n < k)
    <3>1. n - (k - 1) \in 1 .. Len(s) - k /\ (n - (k - 1)) + k = n + 1
      BY <2>2
    <3>2. (left \o right)[n] = right[n - (k - 1)]
      BY <1>1, <1>2, <2>2
    <3>3. QED
      BY <1>2, <2>2, <3>1, <3>2
  <2>3. QED
    BY <2>1, <2>2
<1>6. QED
  BY <1>3, <1>4, <1>5

\* Instruction i at the end of block to.
Moved(place, i, to) ==
  [place EXCEPT ![BlockOf(place, i)] = RemoveAt(@, IndexOf(place, i)),
                ![to] = Append(@, i)]

LEMMA MovedIs ==
  ASSUME NEW place, Placement(place), NEW i \in Instrs, NEW to \in Blocks,
         to # BlockOf(place, i)
  PROVE  LET moved == Moved(place, i, to)
             from == BlockOf(place, i)
             k == IndexOf(place, i)
         IN /\ moved[from] = RemoveAt(place[from], k)
            /\ moved[to] = Append(place[to], i)
            /\ \A b \in Blocks \ {from, to} : moved[b] = place[b]
            /\ Placement(moved)
            /\ BlockOf(moved, i) = to
            /\ \A j \in Instrs \ {i} :
                 /\ BlockOf(moved, j) = BlockOf(place, j)
                 /\ IndexOf(moved, j) =
                      IF BlockOf(place, j) = from /\ IndexOf(place, j) > k
                        THEN IndexOf(place, j) - 1 ELSE IndexOf(place, j)
<1>1. PICK moved : moved = Moved(place, i, to)
  OBVIOUS
<1>2. PICK from \in Blocks : from = BlockOf(place, i)
  BY PlaceIs
<1>3. PICK k \in 1 .. Len(place[from]) : k = IndexOf(place, i) /\ place[from][k] = i
  <2>1. place[from] \in Seq(Instrs)
    BY DEF Placement
  <2>2. QED
    BY <1>2, <2>1, PlaceIs
<1>4. \A b \in Blocks : place[b] \in Seq(Instrs)
  BY DEF Placement
<1>5. /\ moved \in [Blocks -> Seq(Instrs)]
      /\ moved[from] = RemoveAt(place[from], k)
      /\ moved[to] = Append(place[to], i)
      /\ \A b \in Blocks \ {from, to} : moved[b] = place[b]
  <2>1. RemoveAt(place[from], k) \in Seq(Instrs)
    BY <1>4, RemoveAtIs
  <2>2. Append(place[to], i) \in Seq(Instrs)
    BY <1>4
  <2>3. QED
    BY <1>1, <1>2, <1>3, <2>1, <2>2 DEF Moved, Placement
\* The place of each instruction, by its place before.
<1> DEFINE Shift(b, l) == IF b = from /\ l > k THEN l - 1 ELSE l
<1>6. ASSUME NEW b \in Blocks, NEW l \in DOMAIN place[b], place[b][l] # i
      PROVE  Shift(b, l) \in DOMAIN moved[b] /\ moved[b][Shift(b, l)] = place[b][l]
  <2>0. l \in 1 .. Len(place[b])
    BY <1>4
  <2>1. CASE b = from
    <3>1. l # k
      BY <1>3, <1>6, <2>1
    <3>2. Shift(b, l) \in 1 .. Len(place[from]) - 1
      BY <1>3, <1>4, <2>0, <2>1, <3>1
    <3>3. CASE l > k
      <4>1. Shift(b, l) = l - 1 /\ ~ (l - 1 < k) /\ (l - 1) + 1 = l
        BY <2>0, <2>1, <3>3
      <4>2. moved[from] \in Seq(Instrs) /\ Len(moved[from]) = Len(place[from]) - 1
            /\ \A n \in 1 .. Len(place[from]) - 1 :
                 moved[from][n] = IF n < k THEN place[from][n] ELSE place[from][n + 1]
        <5>1. PICK s \in Seq(Instrs) : s = place[from]
          BY <1>4
        <5>2. k \in 1 .. Len(s)
          BY <1>3, <5>1
        <5>3. /\ RemoveAt(s, k) \in Seq(Instrs)
              /\ Len(RemoveAt(s, k)) = Len(s) - 1
              /\ \A n \in 1 .. Len(s) - 1 :
                   RemoveAt(s, k)[n] = IF n < k THEN s[n] ELSE s[n + 1]
          BY <5>2, RemoveAtIs
        <5>4. QED
          BY <1>5, <5>1, <5>3
      <4>3. moved[from][l - 1] = place[from][l]
        BY <3>2, <4>1, <4>2
      <4>4. QED
        BY <2>1, <3>2, <4>1, <4>2, <4>3
    <3>4. CASE ~ (l > k)
      <4>1. Shift(b, l) = l /\ l < k
        BY <2>0, <3>1, <3>4
      <4>2. moved[from] \in Seq(Instrs) /\ Len(moved[from]) = Len(place[from]) - 1
            /\ moved[from][l] = place[from][l]
        <5>1. PICK s \in Seq(Instrs) : s = place[from]
          BY <1>4
        <5>2. k \in 1 .. Len(s)
          BY <1>3, <5>1
        <5>3. /\ RemoveAt(s, k) \in Seq(Instrs)
              /\ Len(RemoveAt(s, k)) = Len(s) - 1
              /\ \A n \in 1 .. Len(s) - 1 :
                   RemoveAt(s, k)[n] = IF n < k THEN s[n] ELSE s[n + 1]
          BY <5>2, RemoveAtIs
        <5>4. l \in 1 .. Len(s) - 1
          BY <3>2, <4>1, <5>1
        <5>5. RemoveAt(s, k)[l] = s[l]
          BY <4>1, <5>3, <5>4
        <5>6. QED
          BY <1>5, <5>1, <5>3, <5>5
      <4>3. QED
        BY <2>1, <3>2, <4>1, <4>2
    <3>5. QED
      BY <3>3, <3>4
  <2>2. CASE b = to
    <3>1. Shift(b, l) = l
      BY <1>2, <2>2
    <3>2. l \in DOMAIN Append(place[to], i) /\ Append(place[to], i)[l] = place[to][l]
      BY <1>4, <2>0, <2>2
    <3>3. QED
      BY <1>5, <2>2, <3>1, <3>2
  <2>3. CASE b # from /\ b # to
    BY <1>5, <2>3
  <2>4. QED
    BY <2>1, <2>2, <2>3
\* Nothing else is anywhere.
<1>7. ASSUME NEW b \in Blocks, NEW m \in DOMAIN moved[b]
      PROVE  \/ b = to /\ m = Len(place[to]) + 1 /\ moved[b][m] = i
             \/ \E l \in DOMAIN place[b] : place[b][l] # i /\ m = Shift(b, l)
  <2>1. CASE b = from
    <3>1. moved[from] \in Seq(Instrs) /\ Len(moved[from]) = Len(place[from]) - 1
      BY <1>4, <1>5, RemoveAtIs
    <3>2. m \in 1 .. Len(place[from]) - 1
      BY <2>1, <3>1
    <3> DEFINE l == IF m < k THEN m ELSE m + 1
    <3>3. l \in 1 .. Len(place[from]) /\ l # k /\ m = Shift(b, l)
      BY <1>3, <1>4, <2>1, <3>2
    <3>4. l \in DOMAIN place[from]
      BY <1>4, <3>3
    <3>5. place[from][l] # i
      BY <1>2, <1>3, <3>3, <3>4, PlaceUnique
    <3> HIDE DEF l
    <3>6. QED
      BY <2>1, <3>3, <3>4, <3>5
  <2>2. CASE b = to
    <3>1. m \in 1 .. Len(place[to]) + 1
      BY <1>4, <1>5, <2>2
    <3>2. CASE m = Len(place[to]) + 1
      BY <1>4, <1>5, <2>2, <3>2
    <3>3. CASE m # Len(place[to]) + 1
      <4>1. m \in DOMAIN place[to]
        BY <1>4, <3>1, <3>3
      <4>2. place[to][m] # i
        BY <1>2, <4>1, PlaceUnique
      <4>3. m = Shift(b, m)
        BY <1>2, <2>2
      <4>4. QED
        BY <2>2, <4>1, <4>2, <4>3
    <3>4. QED
      BY <3>2, <3>3
  <2>3. CASE b # from /\ b # to
    <3>1. m \in DOMAIN place[b] /\ m = Shift(b, m)
      BY <1>5, <2>3
    <3>2. place[b][m] # i
      BY <1>2, <2>3, <3>1, PlaceUnique
    <3>3. QED
      BY <3>1, <3>2
  <2>4. QED
    BY <2>1, <2>2, <2>3
<1>8. Len(place[to]) + 1 \in DOMAIN moved[to] /\ moved[to][Len(place[to]) + 1] = i
  BY <1>4, <1>5
<1>9. \A c \in Blocks : \A m \in DOMAIN moved[c] :
        moved[c][m] = i <=> c = to /\ m = Len(place[to]) + 1
  <2>1. SUFFICES ASSUME NEW c \in Blocks, NEW m \in DOMAIN moved[c], moved[c][m] = i
                 PROVE  c = to /\ m = Len(place[to]) + 1
    BY <1>8
  <2> HIDE DEF Shift
  <2>2. QED
    BY <1>6, <1>7, <2>1
<1>10. ASSUME NEW j \in Instrs \ {i}
       PROVE  LET b == BlockOf(place, j)  l == IndexOf(place, j) IN
              /\ b \in Blocks /\ Shift(b, l) \in DOMAIN moved[b]
              /\ \A c \in Blocks : \A m \in DOMAIN moved[c] :
                   moved[c][m] = j <=> c = b /\ m = Shift(b, l)
  <2>1. PICK b \in Blocks : b = BlockOf(place, j)
    BY PlaceIs
  <2>2. PICK l \in DOMAIN place[b] : l = IndexOf(place, j) /\ place[b][l] = j
    BY <2>1, PlaceIs
  <2>3. Shift(b, l) \in DOMAIN moved[b] /\ moved[b][Shift(b, l)] = j
    BY <1>6, <2>2
  <2>4. ASSUME NEW c \in Blocks, NEW m \in DOMAIN moved[c], moved[c][m] = j
        PROVE  c = b /\ m = Shift(b, l)
    <3> HIDE DEF Shift
    <3>1. PICK l2 \in DOMAIN place[c] : place[c][l2] # i /\ m = Shift(c, l2)
      BY <1>7, <2>4
    <3>2. place[c][l2] = j
      BY <1>6, <2>4, <3>1
    <3>3. c = b /\ l2 = l
      BY <2>1, <2>2, <3>2, PlaceUnique
    <3>4. QED
      BY <3>1, <3>3
  <2> HIDE DEF Shift
  <2>5. QED
    BY <2>1, <2>2, <2>3, <2>4
<1>11. EachOnce(moved)
  <2>1. SUFFICES ASSUME NEW j \in Instrs
                 PROVE  \E b \in Blocks : \E m \in DOMAIN moved[b] :
                          \A c \in Blocks : \A l \in DOMAIN moved[c] :
                            moved[c][l] = j <=> c = b /\ l = m
    BY DEF EachOnce
  <2>2. CASE j = i
    BY <1>8, <1>9, <2>2
  <2>3. CASE j # i
    <3> HIDE DEF Shift
    <3>1. QED
      BY <1>10, <2>3
  <2>4. QED
    BY <2>2, <2>3
<1>12. Placement(moved)
  BY <1>5, <1>11 DEF Placement
<1>13. BlockOf(moved, i) = to
  BY <1>8, <1>12, PlaceUnique
<1>14. ASSUME NEW j \in Instrs \ {i}
       PROVE  /\ BlockOf(moved, j) = BlockOf(place, j)
              /\ IndexOf(moved, j) = Shift(BlockOf(place, j), IndexOf(place, j))
  <2> HIDE DEF Shift
  <2>1. PICK b \in Blocks : b = BlockOf(place, j)
    BY PlaceIs
  <2>2. PICK m \in DOMAIN moved[b] : m = Shift(b, IndexOf(place, j)) /\ moved[b][m] = j
    BY <1>10, <2>1
  <2>3. QED
    BY <1>12, <2>1, <2>2, PlaceUnique
<1>15. QED
  BY <1>1, <1>2, <1>3, <1>5, <1>12, <1>13, <1>14


----------------------------------------------------------------------------
(* Definitions dominate their uses                                         *)

LEMMA BeforeIs ==
  ASSUME NEW place, Placement(place), NEW d \in Instrs, NEW i \in Instrs, Before(place, d, i)
  PROVE  Dominates(BlockOf(place, d), BlockOf(place, i))
BY PlaceIs, DominatesItself DEF Before

(* Moving an instruction whose operands are computed outside of a loop from *)
(* the loop to its preheader keeps definitions before uses.                *)
LEMMA MoveKeepsOrder ==
  ASSUME NEW place, Placement(place), NEW f, WellKnown(f), Dominated(f, place),
         NEW h \in Headers, NEW i \in Instrs, f.kind[i] # "phi",
         BlockOf(place, i) \in Loop(h),
         \A o \in DOMAIN f.operands[i] :
           f.operands[i][o] # Argument => BlockOf(place, f.operands[i][o]) \notin Loop(h)
  PROVE  LET moved == Moved(place, i, getLoopPreheader(h)) IN
         Placement(moved) /\ Dominated(f, moved)
<1>1. PICK to \in Blocks : /\ to = getLoopPreheader(h) /\ to \notin Loop(h)
                           /\ Dominates(to, h)
  BY PreheaderIs, PreheaderDominates
<1>2. PICK from \in Blocks : from = BlockOf(place, i) /\ from \in Loop(h)
  BY HeaderDominates
<1>3. PICK moved : moved = Moved(place, i, to)
  OBVIOUS
<1>4. /\ Placement(moved)
      /\ BlockOf(moved, i) = to
      /\ \A j \in Instrs \ {i} :
           /\ BlockOf(moved, j) = BlockOf(place, j)
           /\ IndexOf(moved, j) =
                IF BlockOf(place, j) = from /\ IndexOf(place, j) > IndexOf(place, i)
                  THEN IndexOf(place, j) - 1 ELSE IndexOf(place, j)
  BY <1>1, <1>2, <1>3, MovedIs
<1>5. \A j \in Instrs : IndexOf(place, j) \in Nat /\ IndexOf(moved, j) \in Nat
  <2>1. ASSUME NEW pl, Placement(pl), NEW j \in Instrs
        PROVE  IndexOf(pl, j) \in Nat
    <3>1. PICK b \in Blocks : b = BlockOf(pl, j)
      BY <2>1, PlaceIs
    <3>2. pl[b] \in Seq(Instrs)
      BY <2>1 DEF Placement
    <3>3. IndexOf(pl, j) \in DOMAIN pl[b]
      BY <2>1, <3>1, PlaceIs
    <3>4. QED
      BY <3>2, <3>3
  <2>2. QED
    BY <1>4, <2>1
<1>6. Dominates(to, from)
  BY <1>1, <1>2, HeaderDominates, HeadersAre, DominatesTransitive
<1>7. to # from
  BY <1>1, <1>2
<1>8. \A b \in Blocks : Dominates(from, b) => Dominates(to, b) /\ b # to
  <2>1. TAKE b \in Blocks
  <2>2. SUFFICES ASSUME Dominates(from, b)
                 PROVE  Dominates(to, b) /\ b # to
    OBVIOUS
  <2>3. Dominates(to, b)
    BY <1>6, <2>2, DominatesTransitive
  <2>4. b # to
    BY <1>6, <1>7, <2>2, DominatesAntisymmetric
  <2>5. QED
    BY <2>3, <2>4
<1>9. ASSUME NEW d \in Instrs \ {i}, NEW j \in Instrs \ {i}, Before(place, d, j)
      PROVE  Before(moved, d, j)
  <2>1. BlockOf(moved, d) = BlockOf(place, d) /\ BlockOf(moved, j) = BlockOf(place, j)
    BY <1>4
  <2>2. CASE BlockOf(place, d) = BlockOf(place, j)
    <3>1. PICK a \in Nat, b \in Nat, c \in Nat :
            a = IndexOf(place, d) /\ b = IndexOf(place, j) /\ c = IndexOf(place, i)
      BY <1>5
    <3>2. d # j => a # b
      BY <2>2, <3>1, PlaceIs
    <3>3. a < b
      BY <1>9, <2>2, <3>1 DEF Before
    <3>4. /\ IndexOf(moved, d) = IF BlockOf(place, d) = from /\ a > c THEN a - 1 ELSE a
          /\ IndexOf(moved, j) = IF BlockOf(place, d) = from /\ b > c THEN b - 1 ELSE b
      BY <1>4, <2>2, <3>1
    <3>5. BlockOf(place, d) = from => a # c
      <4>1. SUFFICES ASSUME BlockOf(place, d) = from, a = c
                     PROVE  d = i
        OBVIOUS
      <4>2. place[from][a] = d /\ place[from][c] = i
        BY <1>2, <3>1, <4>1, PlaceIs
      <4>3. QED
        BY <4>1, <4>2
    <3>6. BlockOf(place, d) = from => b # c
      <4>1. SUFFICES ASSUME BlockOf(place, d) = from, b = c
                     PROVE  j = i
        OBVIOUS
      <4>2. BlockOf(place, j) = from
        BY <2>2, <4>1
      <4>3. place[from][b] = j
        BY <3>1, <4>2, PlaceIs
      <4>4. place[from][c] = i
        BY <1>2, <3>1, PlaceIs
      <4>5. QED
        BY <4>1, <4>3, <4>4
    <3>7. IndexOf(moved, d) < IndexOf(moved, j)
      BY <3>3, <3>4, <3>5, <3>6
    <3>8. QED
      BY <2>1, <2>2, <3>7 DEF Before
  <2>3. CASE BlockOf(place, d) # BlockOf(place, j)
    BY <1>9, <2>1, <2>3 DEF Before
  <2>4. QED
    BY <2>2, <2>3
<1>10. ASSUME NEW j \in Instrs, NEW o \in DOMAIN f.operands[j]
       PROVE  OperandComesFirst(f, moved, j, o)
  <2>1. OperandComesFirst(f, place, j, o)
    BY DominatedIs
  <2>2. SUFFICES ASSUME f.operands[j][o] # Argument
                 PROVE  OperandComesFirst(f, moved, j, o)
    BY DEF OperandComesFirst
  <2>3. PICK d \in Instrs : d = f.operands[j][o]
    <3>1. f.operands[j][o] \in 0 .. N
      BY OperandType
    <3>2. QED
      BY <2>2, <3>1, LoopSimplified DEF Argument, Instrs
  <2>4. PICK db \in Blocks : db = BlockOf(place, d)
    BY PlaceIs
  <2>5. CASE f.kind[j] = "phi"
    <3>1. o \in Blocks
      BY <2>5 DEF WellKnown
    <3>2. Dominates(db, o)
      BY <2>1, <2>2, <2>3, <2>4, <2>5 DEF OperandComesFirst
    <3>3. BlockOf(moved, d) \in {db, to} /\ (d = i => db = from)
      BY <1>2, <1>4, <2>4
    <3>4. Dominates(BlockOf(moved, d), o)
      BY <1>2, <1>4, <1>8, <2>4, <3>1, <3>2
    <3>5. QED
      BY <2>3, <2>5, <3>4 DEF OperandComesFirst
  <2>6. CASE f.kind[j] # "phi"
    <3>1. Before(place, d, j)
      BY <2>1, <2>2, <2>3, <2>6 DEF OperandComesFirst
    <3>2. SUFFICES Before(moved, d, j)
      BY <2>3, <2>6 DEF OperandComesFirst
    <3>3. CASE d # i /\ j # i
      BY <1>9, <3>1, <3>3
    <3>4. CASE j = i
      <4>1. db \notin Loop(h)
        BY <2>2, <2>3, <2>4, <3>4
      <4>2. d # i
        BY <1>2, <2>4, <4>1
      <4>3. Dominates(db, from)
        BY <1>2, <2>4, <3>1, <3>4, BeforeIs
      <4>4. Dominates(db, to)
        BY <1>1, <1>2, <4>1, <4>3, OutsideDominators
      <4>5. BlockOf(moved, d) = db /\ BlockOf(moved, j) = to
        BY <1>4, <2>4, <3>4, <4>2
      <4>6. CASE db # to
        BY <4>4, <4>5, <4>6 DEF Before
      <4>7. CASE db = to
        <5>1. moved[to] = Append(place[to], i) /\ place[to] \in Seq(Instrs)
          <6>1. moved[to] = Append(place[to], i)
            BY <1>1, <1>2, <1>3, MovedIs
          <6>2. QED
            BY <1>1, <1>2, <6>1 DEF Placement
        <5>2. IndexOf(moved, d) = IndexOf(place, d) /\ IndexOf(place, d) \in DOMAIN place[to]
          BY <1>4, <1>7, <2>4, <4>2, <4>7, PlaceIs
        <5>3. Len(place[to]) + 1 \in DOMAIN moved[to] /\ moved[to][Len(place[to]) + 1] = i
          BY <5>1
        <5>4. IndexOf(moved, i) = Len(place[to]) + 1
          BY <1>4, <5>3, PlaceUnique
        <5>5. IndexOf(moved, d) < IndexOf(moved, i)
          BY <5>1, <5>2, <5>4
        <5>6. QED
          BY <3>4, <4>5, <4>7, <5>5 DEF Before
      <4>8. QED
        BY <4>6, <4>7
    <3>5. CASE d = i /\ j # i
      <4>1. Dominates(from, BlockOf(place, j)) /\ BlockOf(place, j) \in Blocks
        BY <1>2, <2>4, <3>1, <3>5, BeforeIs, PlaceIs
      <4>2. Dominates(to, BlockOf(place, j)) /\ BlockOf(place, j) # to
        BY <1>8, <4>1
      <4>3. BlockOf(moved, d) = to /\ BlockOf(moved, j) = BlockOf(place, j)
        BY <1>4, <3>5
      <4>4. QED
        BY <4>2, <4>3 DEF Before
    <3>6. QED
      BY <3>3, <3>4, <3>5
  <2>7. QED
    BY <2>5, <2>6
<1>11. Dominated(f, moved)
  BY <1>4, <1>10, DominatedIs
<1>12. QED
  BY <1>1, <1>3, <1>4, <1>11


----------------------------------------------------------------------------
(* The walk over the loops                                                 *)

\* s is the end of t.
Ends(s, t) ==
  Len(s) <= Len(t) /\ \A k \in 1 .. Len(s) : s[k] = t[Len(t) - Len(s) + k]

\* Block b is the one whose instructions are looked at, the last so far.
IterIn(b) ==
  /\ b \in Loop(L) \ blocks /\ getLoopFor(b) = L
  /\ \A c \in Loop(L) \ blocks : c <= b
  /\ Ends(iter, at[b])

(* Blocks are looked at in order, in a loop that is innermost among those  *)
(* still to run on; the loops around one of these are still to run on.     *)
WalkInv ==
  /\ L = NoLoop => blocks = {} /\ iter = <<>>
  /\ L # NoLoop => /\ L \in Innermost(loops) /\ blocks \subseteq Loop(L)
                   /\ \A b \in Loop(L) \ blocks : \A c \in blocks : b < c
  /\ iter # <<>> => L # NoLoop /\ \E b \in Blocks : IterIn(b)
  /\ \A h \in loops : \A g \in Headers : h \in Loop(g) => g \in loops

OrderInv ==
  /\ TypeOK /\ WellKnown(function) /\ Dominated(function, at)
  /\ WalkInv

\* The pass has looked at i, in a block whose innermost loop is g.
Settled(i, g) ==
  LET b == BlockOf(at, i) IN
  /\ LoopsOf(b) # {} /\ g = getLoopFor(b)
  /\ \/ g \notin loops
     \/ g = L /\ b \notin blocks /\ \A k \in DOMAIN iter : iter[k] # i

(* What the pass has looked at uses an argument or what its loop computes. *)
SettledInv ==
  \A i \in Instrs : \A g \in Headers :
    Settled(i, g) /\ function.kind[i] \in Hoistable =>
      \E o \in Operands(function, i) : o = Argument \/ BlockOf(at, o) \in Loop(g)


LEMMA WellFormedIs ==
  ASSUME NEW f, WellFormed(f)
  PROVE  WellKnown(f) /\ Placement(f.at) /\ Dominated(f, f.at)
<1>1. ASSUME NEW i \in Instrs, f.kind[i] = "phi"
      PROVE  \A o \in DOMAIN f.operands[i] : o \in Blocks /\ f.operands[i][o] \in 0 .. N
  <2>1. f.operands[i] \in [Predecessors(BlockOf(f.at, i)) -> 0 .. N]
    BY <1>1 DEF WellFormed
  <2>2. QED
    BY <2>1, GraphIs
<1>2. QED
  BY <1>1 DEF WellFormed, WellKnown, Placement

LEMMA InnermostIs ==
  ASSUME NEW hs \in SUBSET Headers, NEW h \in Innermost(hs)
  PROVE  h \in hs /\ h \in Headers /\ h \in Blocks /\ h # NoLoop
         /\ \A g \in hs : Loop(g) \subseteq Loop(h) => g = h
BY HeadersAre, GraphIs DEF Innermost, NoLoop

LEMMA InitOrder ==
  ASSUME Init
  PROVE  OrderInv /\ SettledInv
<1>1. PICK f \in Functions : /\ function = [kind |-> f.kind, operands |-> f.operands,
                                            original |-> f.at]
                             /\ at = f.at
  BY DEF Init
<1>2. WellKnown(f) /\ Placement(f.at) /\ Dominated(f, f.at)
  BY FunctionsAssumption, WellFormedIs
<1>3. function.kind = f.kind /\ function.operands = f.operands
  BY <1>1
<1>4. WellKnown(function) /\ Dominated(function, at)
  BY <1>1, <1>2, <1>3 DEF WellKnown, Dominated
<1>5. loops = Headers /\ L = NoLoop /\ blocks = {} /\ iter = <<>>
  BY DEF Init
<1>6. TypeOK
  BY <1>1, <1>2, <1>5 DEF TypeOK, Placement
<1>7. WalkInv
  BY <1>5 DEF WalkInv
<1>8. SettledInv
  <2>1. \A g \in Headers : g \in loops /\ g # L
    BY <1>5, HeadersAre, GraphIs DEF NoLoop
  <2>2. QED
    BY <2>1 DEF SettledInv, Settled
<1>9. QED
  BY <1>4, <1>6, <1>7, <1>8 DEF OrderInv

LEMMA BeginLoopOrder ==
  ASSUME OrderInv, BeginLoop
  PROVE  OrderInv'
<1> USE DEF OrderInv
<1>1. /\ L = NoLoop /\ L' \in Innermost(loops) /\ blocks' = Loop(L')
      /\ function' = function /\ at' = at /\ loops' = loops /\ iter' = iter
  BY DEF BeginLoop
<1>2. loops \in SUBSET Headers /\ iter = <<>>
  BY <1>1 DEF TypeOK, WalkInv
<1>3. L' \in loops /\ L' \in Headers /\ L' # NoLoop
  BY <1>1, <1>2, InnermostIs
<1>4. blocks' \subseteq Blocks
  BY <1>1, <1>3, HeaderDominates
<1>5. TypeOK'
  BY <1>1, <1>3, <1>4 DEF TypeOK, EachOnce
<1>6. WalkInv'
  <2>1. Innermost(loops)' = Innermost(loops)
    BY <1>1 DEF Innermost
  <2>2. Loop(L)' = Loop(L')
    BY DEF Loop
  <2>3. QED
    BY <1>1, <1>2, <1>3, <2>1, <2>2 DEF WalkInv, Loop
<1>7. Dominated(function, at)' /\ WellKnown(function)'
  BY <1>1
<1>8. QED
  BY <1>5, <1>6, <1>7

LEMMA BeginBlockOrder ==
  ASSUME OrderInv, BeginBlock
  PROVE  OrderInv'
<1> USE DEF OrderInv
<1>0. /\ L # NoLoop /\ iter = <<>> /\ blocks # {} /\ blocks \in SUBSET Blocks
      /\ function' = function /\ at' = at /\ loops' = loops /\ L' = L
  BY DEF BeginBlock, TypeOK
<1>1. PICK b : b = FirstBlock(blocks)
  OBVIOUS
<1>2. b \in blocks /\ b \in Blocks /\ \A c \in blocks : b <= c
  BY <1>0, <1>1, FirstBlockIs
<1>3. /\ iter' = IF Dominates(L, b) /\ getLoopFor(b) = L THEN at[b] ELSE <<>>
      /\ blocks' = blocks \ {b}
  BY <1>1 DEF BeginBlock
<1>4. /\ L \in loops /\ L \in Headers
      /\ L \in Innermost(loops) /\ blocks \subseteq Loop(L)
      /\ \A d \in Loop(L) \ blocks : \A c \in blocks : d < c
  BY <1>0, InnermostIs DEF WalkInv, TypeOK
<1>5. at[b] \in Seq(Instrs)
  BY <1>2 DEF TypeOK
<1>6. TypeOK'
  <2>1. iter' \in Seq(Instrs)
    BY <1>3, <1>5
  <2>2. QED
    BY <1>0, <1>3, <2>1 DEF TypeOK, EachOnce
<1>7. \A c \in Blocks : c \in Nat
  BY GraphIs
<1>8. \A d \in Loop(L) \ blocks' : \A c \in blocks' : d < c
  <2>1. TAKE d \in Loop(L) \ blocks'
  <2> TAKE c \in blocks'
  <2>2. CASE d = b
    BY <1>0, <1>2, <1>3, <1>7, <2>1, <2>2
  <2>3. CASE d # b
    BY <1>3, <1>4, <2>1, <2>3
  <2>4. QED
    BY <2>2, <2>3
<1>9. ASSUME iter' # <<>>
      PROVE  IterIn(b)'
  <2>1. getLoopFor(b) = L /\ iter' = at[b]
    BY <1>3, <1>9
  <2>2. b \in Loop(L) \ blocks'
    BY <1>2, <1>3, <1>4
  <2>3. \A c \in Loop(L) \ blocks' : c <= b
    <3>1. TAKE c \in Loop(L) \ blocks'
    <3>2. c \in Nat /\ b \in Nat
      BY <1>2, <1>4, <1>7, HeaderDominates
    <3>3. c = b \/ c < b
      BY <1>2, <1>3, <1>4, <3>1
    <3>4. QED
      BY <3>2, <3>3
  <2>4. Ends(iter', at[b])
    BY <1>5, <2>1 DEF Ends
  <2>5. QED
    BY <1>0, <2>1, <2>2, <2>3, <2>4 DEF IterIn, Ends, Loop, getLoopFor, LoopsOf
<1>10. WalkInv'
  <2>1. Innermost(loops)' = Innermost(loops)
    BY <1>0 DEF Innermost
  <2>2. Loop(L)' = Loop(L)
    BY <1>0 DEF Loop
  <2>3. QED
    BY <1>0, <1>2, <1>3, <1>4, <1>8, <1>9, <2>1, <2>2 DEF WalkInv
<1>11. Dominated(function, at)' /\ WellKnown(function)'
  BY <1>0
<1>12. QED
  BY <1>6, <1>10, <1>11

LEMMA EndLoopOrder ==
  ASSUME OrderInv, EndLoop
  PROVE  OrderInv'
<1> USE DEF OrderInv
<1>1. /\ L # NoLoop /\ iter = <<>> /\ blocks = {} /\ loops' = loops \ {L} /\ L' = NoLoop
      /\ function' = function /\ at' = at /\ blocks' = blocks /\ iter' = iter
  BY DEF EndLoop
<1>2. L \in loops /\ L \in Headers /\ \A g \in loops : Loop(g) \subseteq Loop(L) => g = L
  BY <1>1, InnermostIs DEF WalkInv, TypeOK
<1>3. TypeOK'
  BY <1>1 DEF TypeOK, EachOnce
<1>4. ASSUME NEW h \in loops', NEW g \in Headers, h \in Loop(g)
      PROVE  g \in loops'
  <2>1. h \in loops /\ h # L /\ g \in loops /\ h \in Headers
    BY <1>1, <1>4 DEF WalkInv, TypeOK
  <2>2. g # L
    BY <1>2, <1>4, <2>1, LoopsNest
  <2>3. QED
    BY <1>1, <2>1, <2>2
<1>5. WalkInv'
  BY <1>1, <1>4 DEF WalkInv, Loop
<1>6. Dominated(function, at)' /\ WellKnown(function)'
  BY <1>1
<1>7. QED
  BY <1>3, <1>5, <1>6


(* The instruction looked at, and its place.                               *)
LEMMA HeadIs ==
  ASSUME OrderInv, L # NoLoop, iter # <<>>,
         NEW b \in Blocks, IterIn(b), NEW i, i = Head(iter)
  PROVE  /\ i \in Instrs /\ BlockOf(at, i) = b
         /\ IndexOf(at, i) = Len(at[b]) - Len(iter) + 1
         /\ iter \in Seq(Instrs) /\ Len(iter) \in 1 .. Len(at[b]) /\ at[b] \in Seq(Instrs)
         /\ Placement(at) /\ L \in Headers /\ b \in Loop(L)
         /\ \A k \in 1 .. Len(iter) : iter[k] = at[b][Len(at[b]) - Len(iter) + k]
<1>1. iter \in Seq(Instrs) /\ at[b] \in Seq(Instrs) /\ Placement(at)
  BY DEF OrderInv, TypeOK, Placement
<1>2. /\ Len(iter) <= Len(at[b])
      /\ \A k \in 1 .. Len(iter) : iter[k] = at[b][Len(at[b]) - Len(iter) + k]
  BY DEF IterIn, Ends
<1>3. Len(iter) \in 1 .. Len(at[b])
  BY <1>1, <1>2
<1>4. i = iter[1] /\ iter[1] = at[b][Len(at[b]) - Len(iter) + 1]
  BY <1>1, <1>2, <1>3
<1>5. Len(at[b]) - Len(iter) + 1 \in DOMAIN at[b]
  BY <1>1, <1>3
<1>6. i \in Instrs /\ BlockOf(at, i) = b /\ IndexOf(at, i) = Len(at[b]) - Len(iter) + 1
  BY <1>1, <1>4, <1>5, PlaceUnique
<1>7. L \in Headers /\ b \in Loop(L)
  BY DEF OrderInv, TypeOK, IterIn
<1>8. QED
  BY <1>1, <1>2, <1>3, <1>6, <1>7

\* r is what follows the first element of s.
IsTail(r, s) == Len(r) = Len(s) - 1 /\ \A k \in 1 .. Len(s) - 1 : r[k] = s[k + 1]

LEMMA TailIs ==
  ASSUME NEW S, NEW s \in Seq(S), s # <<>>
  PROVE  Tail(s) \in Seq(S) /\ IsTail(Tail(s), s)
BY DEF IsTail

LEMMA TailEnds ==
  ASSUME NEW S, NEW s \in Seq(S), NEW t \in Seq(S), NEW r \in Seq(S),
         s # <<>>, Ends(s, t), IsTail(r, s)
  PROVE  Ends(r, t)
<1>1. PICK m \in Nat, n \in Nat : m = Len(s) /\ n = Len(t) /\ Len(r) \in Nat
  OBVIOUS
<1>2. m <= n /\ Len(r) = m - 1 /\ m # 0
  BY <1>1 DEF Ends, IsTail
<1>3. ASSUME NEW k \in 1 .. Len(r)
      PROVE  r[k] = t[Len(t) - Len(r) + k]
  <2>1. k \in 1 .. m - 1 /\ k + 1 \in 1 .. m /\ n - m + (k + 1) = n - (m - 1) + k
    BY <1>1, <1>2
  <2>2. r[k] = s[k + 1] /\ s[k + 1] = t[n - m + (k + 1)]
    BY <1>1, <2>1 DEF Ends, IsTail
  <2>3. QED
    BY <1>1, <1>2, <2>1, <2>2
<1>4. QED
  BY <1>1, <1>2, <1>3 DEF Ends

LEMMA RemoveEnds ==
  ASSUME NEW S, NEW s \in Seq(S), NEW t \in Seq(S), NEW r \in Seq(S),
         s # <<>>, Ends(s, t), IsTail(r, s)
  PROVE  Ends(r, RemoveAt(t, Len(t) - Len(s) + 1))
<1>1. PICK m \in Nat, n \in Nat : m = Len(s) /\ n = Len(t) /\ Len(r) \in Nat
  OBVIOUS
<1>2. m <= n /\ Len(r) = m - 1 /\ m # 0
  BY <1>1 DEF Ends, IsTail
<1>3. PICK p \in 1 .. Len(t) : p = n - m + 1
  <2>1. n - m + 1 \in 1 .. n
    BY <1>2
  <2>2. QED
    BY <1>1, <2>1
<1>4. PICK u : u = RemoveAt(t, p)
  OBVIOUS
<1>5. Len(u) = n - 1 /\ \A k \in 1 .. n - 1 : u[k] = IF k < p THEN t[k] ELSE t[k + 1]
  BY <1>1, <1>4, RemoveAtIs
<1>6. ASSUME NEW k \in 1 .. Len(r)
      PROVE  r[k] = u[Len(u) - Len(r) + k]
  <2>1. k \in 1 .. m - 1 /\ k + 1 \in 1 .. m
    BY <1>1, <1>2
  <2>2. PICK l \in 1 .. n - 1 : l = (n - 1) - (m - 1) + k /\ ~ (l < p) /\ l + 1 = n - m + (k + 1)
    BY <1>2, <1>3, <2>1
  <2>3. r[k] = s[k + 1] /\ s[k + 1] = t[n - m + (k + 1)]
    BY <1>1, <2>1 DEF Ends, IsTail
  <2>4. u[l] = t[l + 1]
    BY <1>5, <2>2
  <2>5. QED
    BY <1>2, <1>5, <2>2, <2>3, <2>4
<1>7. Len(r) <= Len(u)
  BY <1>2, <1>5
<1>8. QED
  BY <1>1, <1>3, <1>4, <1>6, <1>7 DEF Ends

LEMMA KeepOrder ==
  ASSUME OrderInv, Keep
  PROVE  OrderInv'
<1>1. /\ L # NoLoop /\ iter # <<>> /\ iter' = Tail(iter)
      /\ function' = function /\ at' = at /\ loops' = loops /\ L' = L /\ blocks' = blocks
  BY DEF Keep
<1>2. PICK b \in Blocks : IterIn(b)
  BY <1>1 DEF OrderInv, WalkInv
<1>3. iter \in Seq(Instrs) /\ Len(iter) \in 1 .. Len(at[b]) /\ at[b] \in Seq(Instrs)
      /\ \A k \in 1 .. Len(iter) : iter[k] = at[b][Len(at[b]) - Len(iter) + k]
  BY <1>1, <1>2, HeadIs
<1>4. iter' \in Seq(Instrs) /\ IsTail(iter', iter)
  BY <1>1, <1>3, TailIs
<1>5. Ends(iter', at[b])
  BY <1>1, <1>2, <1>3, <1>4, TailEnds DEF IterIn
<1>6. IterIn(b)'
  BY <1>1, <1>2, <1>5 DEF IterIn, Loop, getLoopFor, LoopsOf
<1>7. TypeOK'
  BY <1>1, <1>4 DEF OrderInv, TypeOK, EachOnce
<1>8. WalkInv'
  <2>1. Innermost(loops)' = Innermost(loops)
    BY <1>1 DEF Innermost
  <2>2. Loop(L)' = Loop(L)
    BY <1>1 DEF Loop
  <2>3. QED
    BY <1>1, <1>6, <2>1, <2>2 DEF OrderInv, WalkInv
<1>9. Dominated(function, at)' /\ WellKnown(function)'
  BY <1>1 DEF OrderInv
<1>10. QED
  BY <1>7, <1>8, <1>9 DEF OrderInv

\* What Hoist does, about the instruction i in block b.
Hoists(i, b) ==
  /\ L # NoLoop /\ L \in Headers /\ b \in Blocks /\ IterIn(b)
  /\ i \in Instrs /\ BlockOf(at, i) = b
  /\ IndexOf(at, i) = Len(at[b]) - Len(iter) + 1
  /\ iter \in Seq(Instrs) /\ Len(iter) \in 1 .. Len(at[b]) /\ at[b] \in Seq(Instrs)
  /\ i = iter[1]
  /\ \A k \in 1 .. Len(iter) : iter[k] = at[b][Len(at[b]) - Len(iter) + k]
  /\ iter # <<>> /\ iter' \in Seq(Instrs) /\ IsTail(iter', iter)
  /\ function.kind[i] \in Hoistable
  /\ \A o \in DOMAIN function.operands[i] :
       LET d == function.operands[i][o] IN d # Argument /\ BlockOf(at, d) \notin Loop(L)
  /\ at' = Moved(at, i, getLoopPreheader(L))
  /\ function' = function /\ loops' = loops /\ L' = L /\ blocks' = blocks

LEMMA HoistIs ==
  ASSUME OrderInv, Hoist
  PROVE  \E i \in Instrs, b \in Blocks : Hoists(i, b)
<1>1. /\ L # NoLoop /\ iter # <<>> /\ iter' = Tail(iter)
      /\ isInvariant(Head(iter)) /\ MoveToPreheader(Head(iter))
      /\ function' = function /\ loops' = loops /\ L' = L /\ blocks' = blocks
  BY DEF Hoist
<1>2. PICK b \in Blocks : IterIn(b)
  BY <1>1 DEF OrderInv, WalkInv
<1>3. PICK i : i = Head(iter)
  OBVIOUS
<1>4. /\ i \in Instrs /\ BlockOf(at, i) = b
      /\ IndexOf(at, i) = Len(at[b]) - Len(iter) + 1
      /\ iter \in Seq(Instrs) /\ Len(iter) \in 1 .. Len(at[b]) /\ at[b] \in Seq(Instrs)
      /\ L \in Headers
      /\ \A k \in 1 .. Len(iter) : iter[k] = at[b][Len(at[b]) - Len(iter) + k]
  BY <1>1, <1>2, <1>3, HeadIs
<1>5. i = iter[1]
  BY <1>3, <1>4
<1>6. iter' \in Seq(Instrs) /\ IsTail(iter', iter)
  BY <1>1, <1>4, TailIs
<1>7. at' = Moved(at, i, getLoopPreheader(L))
  BY <1>1, <1>3 DEF MoveToPreheader, Moved
<1>8. function.kind[i] \in Hoistable
      /\ \A o \in DOMAIN function.operands[i] :
           LET d == function.operands[i][o] IN d # Argument /\ BlockOf(at, d) \notin Loop(L)
  BY <1>1, <1>3 DEF isInvariant, Operands, isComputedOutsideLoop
<1>9. Hoists(i, b)
  BY <1>1, <1>2, <1>4, <1>5, <1>6, <1>7, <1>8 DEF Hoists
<1>10. QED
  BY <1>4, <1>9

LEMMA HoistOrder ==
  ASSUME OrderInv, Hoist
  PROVE  OrderInv'
<1>1. PICK i \in Instrs, b \in Blocks : Hoists(i, b)
  BY HoistIs
<1> USE <1>1 DEF Hoists
<1>2. PICK to \in Blocks : to = getLoopPreheader(L) /\ to \notin Loop(L)
  BY PreheaderIs
<1>3. Placement(at) /\ WellKnown(function) /\ Dominated(function, at)
  BY DEF OrderInv, TypeOK, Placement
<1>4. b \in Loop(L) /\ b # to
  BY <1>2 DEF IterIn
<1>5. function.kind[i] # "phi"
  BY DEF Hoistable
<1>6. Placement(at') /\ Dominated(function, at')
  BY <1>3, <1>4, <1>5, MoveKeepsOrder
<1>7. at'[b] = RemoveAt(at[b], IndexOf(at, i))
  BY <1>2, <1>3, <1>4, MovedIs
<1>8. TypeOK'
  BY <1>6 DEF OrderInv, TypeOK, Placement
<1>9. Ends(iter', at'[b])
  BY <1>7, RemoveEnds DEF IterIn
<1>10. IterIn(b)'
  BY <1>9 DEF IterIn, Loop, getLoopFor, LoopsOf
<1>11. WalkInv'
  <2>1. Innermost(loops)' = Innermost(loops)
    BY DEF Innermost
  <2>2. Loop(L)' = Loop(L)
    BY DEF Loop
  <2>3. QED
    BY <1>10, <2>1, <2>2 DEF OrderInv, WalkInv
<1>12. QED
  BY <1>3, <1>6, <1>8, <1>11 DEF OrderInv

LEMMA OrderInvariant ==
  Spec => []OrderInv
<1>1. Init => OrderInv
  BY InitOrder
<1>2. OrderInv /\ [Next]_vars => OrderInv'
  <2> SUFFICES ASSUME OrderInv, [Next]_vars
               PROVE  OrderInv'
    OBVIOUS
  <2>1. CASE BeginLoop
    BY <2>1, BeginLoopOrder
  <2>2. CASE BeginBlock
    BY <2>2, BeginBlockOrder
  <2>3. CASE Hoist
    BY <2>3, HoistOrder
  <2>4. CASE Keep
    BY <2>4, KeepOrder
  <2>5. CASE EndLoop
    BY <2>5, EndLoopOrder
  <2>6. CASE Finished \/ UNCHANGED vars
    <3>1. UNCHANGED vars
      BY <2>6 DEF Finished
    <3>2. QED
      BY <3>1 DEF vars, OrderInv, TypeOK, EachOnce, WalkInv, IterIn, Innermost
  <2>7. QED
    BY <2>1, <2>2, <2>3, <2>4, <2>5, <2>6 DEF Next
<1>3. QED
  BY <1>1, <1>2, PTL DEF Spec

(* After each move definitions dominate their uses: the instruction moved  *)
(* is dominated by its operands where it goes, and dominates its users     *)
(* from there (LICM.cpp:108).                                              *)
THEOREM DefinitionsDominate ==
  Spec => []DefsDominateUses
<1>1. OrderInv => DefsDominateUses
  BY DEF OrderInv, DefsDominateUses
<1>2. QED
  BY <1>1, OrderInvariant, PTL


----------------------------------------------------------------------------
(* Nothing is left to hoist                                                *)

LEMMA KindsApart ==
  ASSUME NEW i \in Instrs, function.kind[i] \in Hoistable
  PROVE  function.kind[i] # "phi" /\ isSafeToHoist(i)
BY DEF Hoistable, isSafeToHoist, mayHaveSideEffects

LEMMA SettledLoop ==
  ASSUME OrderInv, NEW i \in Instrs, NEW g \in Headers, Settled(i, g)
  PROVE  /\ BlockOf(at, i) \in Blocks /\ BlockOf(at, i) \in Loop(g)
         /\ \A h \in Headers : BlockOf(at, i) \in Loop(h) => Loop(g) \subseteq Loop(h)
<1>1. PICK b \in Blocks : b = BlockOf(at, i)
  BY PlaceIs DEF OrderInv, TypeOK, Placement
<1>2. g = getLoopFor(b) /\ LoopsOf(b) # {}
  BY <1>1 DEF Settled
<1>3. PICK h \in Headers : b \in Loop(h)
  BY <1>2, LoopsOfIs
<1>4. QED
  BY <1>1, <1>2, <1>3, LoopForIs

(* What is not hoisted has an operand that keeps it.                       *)
LEMMA KeepSettled ==
  ASSUME OrderInv, SettledInv, Keep
  PROVE  SettledInv'
<1>1. /\ L # NoLoop /\ iter # <<>> /\ iter' = Tail(iter)
      /\ ~ (isInvariant(Head(iter)) /\ isSafeToHoist(Head(iter)))
      /\ function' = function /\ at' = at /\ loops' = loops /\ L' = L /\ blocks' = blocks
  BY DEF Keep
<1>2. PICK b \in Blocks : IterIn(b)
  BY <1>1 DEF OrderInv, WalkInv
<1>3. PICK h : h = Head(iter)
  OBVIOUS
<1>4. h \in Instrs /\ BlockOf(at, h) = b /\ iter \in Seq(Instrs)
  BY <1>1, <1>2, <1>3, HeadIs
<1>5. iter' \in Seq(Instrs) /\ IsTail(iter', iter) /\ h = iter[1]
  BY <1>1, <1>3, <1>4, TailIs
<1>6. ASSUME NEW i, i # h, \A k \in DOMAIN iter' : iter'[k] # i
      PROVE  \A k \in DOMAIN iter : iter[k] # i
  <2>1. TAKE k \in DOMAIN iter
  <2>2. CASE k = 1
    BY <1>5, <1>6, <2>2
  <2>3. CASE k # 1
    <3>1. k - 1 \in 1 .. Len(iter) - 1 /\ (k - 1) + 1 = k /\ k - 1 \in DOMAIN iter'
      BY <1>4, <1>5, <2>3 DEF IsTail
    <3>2. iter'[k - 1] = iter[k]
      BY <1>5, <3>1 DEF IsTail
    <3>3. QED
      BY <1>6, <3>1, <3>2
  <2>4. QED
    BY <2>2, <2>3
<1>7. SUFFICES ASSUME NEW i \in Instrs, NEW g \in Headers, Settled(i, g)',
                      function.kind[i] \in Hoistable
               PROVE  \E o \in Operands(function, i) : o = Argument \/ BlockOf(at, o) \in Loop(g)
  BY <1>1 DEF SettledInv, Loop
<1>8. CASE Settled(i, g)
  BY <1>7, <1>8 DEF SettledInv
<1>9. CASE ~ Settled(i, g)
  <2>1. i = h /\ g = L
    BY <1>1, <1>6, <1>7, <1>9 DEF Settled, LoopsOf, getLoopFor, Loop
  <2>2. ~ isInvariant(i)
    BY <1>1, <1>3, <1>7, <2>1, KindsApart
  <2>3. QED
    BY <1>7, <2>1, <2>2 DEF isInvariant, isComputedOutsideLoop
<1>10. QED
  BY <1>8, <1>9


LEMMA BeginLoopSettled ==
  ASSUME OrderInv, SettledInv, BeginLoop
  PROVE  SettledInv'
<1>1. /\ L = NoLoop /\ L' \in Innermost(loops) /\ blocks' = Loop(L')
      /\ function' = function /\ at' = at /\ loops' = loops /\ iter' = iter
  BY DEF BeginLoop
<1>2. SUFFICES ASSUME NEW i \in Instrs, NEW g \in Headers, Settled(i, g)',
                      function.kind[i] \in Hoistable
               PROVE  \E o \in Operands(function, i) : o = Argument \/ BlockOf(at, o) \in Loop(g)
  BY <1>1 DEF SettledInv, Loop
<1>3. PICK b \in Blocks : b = BlockOf(at, i)
  BY PlaceIs DEF OrderInv, TypeOK, Placement
<1>4. /\ LoopsOf(b) # {} /\ g = getLoopFor(b)
      /\ g \notin loops \/ (g = L' /\ b \notin Loop(L'))
  <2>1. LoopsOf(b) # {} /\ g = getLoopFor(b)
    BY <1>1, <1>2, <1>3 DEF Settled, LoopsOf, getLoopFor, Loop
  <2>2. g \notin loops' \/ (g = L' /\ BlockOf(at, i) \notin blocks')
    <3>1. BlockOf(at, i)' = BlockOf(at, i)
      BY <1>1 DEF BlockOf
    <3>2. g \notin loops' \/ (g = L' /\ BlockOf(at, i)' \notin blocks')
      BY <1>2 DEF Settled
    <3>3. QED
      BY <3>1, <3>2
  <2>3. QED
    BY <1>1, <1>3, <2>1, <2>2
<1>5. b \in Loop(g)
  BY <1>4, LoopsOfIs, LoopForIs
<1>6. g \notin loops
  BY <1>4, <1>5
<1>7. Settled(i, g)
  BY <1>3, <1>4, <1>6 DEF Settled
<1>8. QED
  BY <1>2, <1>7 DEF SettledInv

LEMMA BeginBlockSettled ==
  ASSUME OrderInv, SettledInv, BeginBlock
  PROVE  SettledInv'
<1>1. /\ L # NoLoop /\ iter = <<>> /\ blocks # {} /\ blocks \in SUBSET Blocks
      /\ function' = function /\ at' = at /\ loops' = loops /\ L' = L
  BY DEF BeginBlock, OrderInv, TypeOK
<1>2. PICK c : c = FirstBlock(blocks)
  OBVIOUS
<1>3. c \in blocks /\ c \in Loop(L) /\ L \in Headers
  BY <1>1, <1>2, FirstBlockIs, InnermostIs DEF OrderInv, WalkInv, TypeOK
<1>4. /\ iter' = IF Dominates(L, c) /\ getLoopFor(c) = L THEN at[c] ELSE <<>>
      /\ blocks' = blocks \ {c}
  BY <1>2 DEF BeginBlock
<1>5. Dominates(L, c) /\ c \in Blocks
  BY <1>3, HeaderDominates
<1>6. SUFFICES ASSUME NEW i \in Instrs, NEW g \in Headers, Settled(i, g)',
                      function.kind[i] \in Hoistable
               PROVE  \E o \in Operands(function, i) : o = Argument \/ BlockOf(at, o) \in Loop(g)
  BY <1>1 DEF SettledInv, Loop
<1>7. PICK b \in Blocks : b = BlockOf(at, i) /\ \E k \in DOMAIN at[b] : at[b][k] = i
  BY PlaceIs DEF OrderInv, TypeOK, Placement
<1>8. /\ LoopsOf(b) # {} /\ g = getLoopFor(b)
      /\ \/ g \notin loops
         \/ g = L /\ b \notin blocks' /\ \A k \in DOMAIN iter' : iter'[k] # i
  BY <1>1, <1>6, <1>7 DEF Settled, LoopsOf, getLoopFor, Loop
<1>9. CASE g \notin loops
  <2>1. Settled(i, g)
    BY <1>7, <1>8, <1>9 DEF Settled
  <2>2. QED
    BY <1>6, <2>1 DEF SettledInv
<1>10. CASE g = L /\ b \notin blocks' /\ \A k \in DOMAIN iter' : iter'[k] # i
  <2>1. b # c
    BY <1>4, <1>5, <1>7, <1>8, <1>10
  <2>2. b \notin blocks
    BY <1>4, <1>10, <2>1
  <2>3. Settled(i, g)
    BY <1>1, <1>7, <1>8, <1>10, <2>2 DEF Settled
  <2>4. QED
    BY <1>6, <2>3 DEF SettledInv
<1>11. QED
  BY <1>8, <1>9, <1>10

LEMMA EndLoopSettled ==
  ASSUME OrderInv, SettledInv, EndLoop
  PROVE  SettledInv'
<1>1. /\ L # NoLoop /\ iter = <<>> /\ blocks = {} /\ loops' = loops \ {L} /\ L' = NoLoop
      /\ function' = function /\ at' = at /\ blocks' = blocks /\ iter' = iter
  BY DEF EndLoop
<1>2. SUFFICES ASSUME NEW i \in Instrs, NEW g \in Headers, Settled(i, g)',
                      function.kind[i] \in Hoistable
               PROVE  \E o \in Operands(function, i) : o = Argument \/ BlockOf(at, o) \in Loop(g)
  BY <1>1 DEF SettledInv, Loop
<1>3. LET b == BlockOf(at, i) IN LoopsOf(b) # {} /\ g = getLoopFor(b)
  BY <1>1, <1>2 DEF Settled, LoopsOf, getLoopFor, Loop
<1>4. g # L' /\ g \notin loops'
  BY <1>1, <1>2, HeadersAre, GraphIs DEF Settled, NoLoop
<1>5. \/ g \notin loops
      \/ g = L /\ BlockOf(at, i) \notin blocks /\ \A k \in DOMAIN iter : iter[k] # i
  BY <1>1, <1>4
<1>6. Settled(i, g)
  BY <1>3, <1>5 DEF Settled
<1>7. QED
  BY <1>2, <1>6 DEF SettledInv

(* A move takes no operand from what was settled: who uses an instruction  *)
(* of this loop in this loop comes after it, and the loops around this one *)
(* are still to come.                                                      *)
LEMMA HoistSettled ==
  ASSUME OrderInv, SettledInv, Hoist
  PROVE  SettledInv'
<1>1. PICK i \in Instrs, c \in Blocks : Hoists(i, c)
  BY HoistIs
<1>2. /\ L # NoLoop /\ L \in Headers /\ IterIn(c) /\ BlockOf(at, i) = c
      /\ IndexOf(at, i) = Len(at[c]) - Len(iter) + 1
      /\ iter \in Seq(Instrs) /\ Len(iter) \in 1 .. Len(at[c]) /\ at[c] \in Seq(Instrs)
      /\ i = iter[1]
      /\ \A k \in 1 .. Len(iter) : iter[k] = at[c][Len(at[c]) - Len(iter) + k]
      /\ iter' \in Seq(Instrs) /\ IsTail(iter', iter)
      /\ at' = Moved(at, i, getLoopPreheader(L))
      /\ function' = function /\ loops' = loops /\ L' = L /\ blocks' = blocks
  BY <1>1 DEF Hoists
<1>3. PICK p \in Blocks : p = getLoopPreheader(L) /\ p \notin Loop(L)
  BY <1>2, PreheaderIs
<1>4. /\ c \in Loop(L) \ blocks /\ getLoopFor(c) = L
      /\ \A d \in Loop(L) \ blocks : d <= c
  BY <1>2 DEF IterIn
<1>5. Placement(at) /\ WellKnown(function) /\ Dominated(function, at)
  BY DEF OrderInv, TypeOK, Placement
<1>6. BlockOf(at', i) = p /\ \A j \in Instrs \ {i} : BlockOf(at', j) = BlockOf(at, j)
  BY <1>2, <1>3, <1>4, <1>5, MovedIs
<1>7. L \in loops /\ \A h \in loops : \A g \in Headers : h \in Loop(g) => g \in loops
  BY <1>2 DEF OrderInv, WalkInv, TypeOK
<1>8. SUFFICES ASSUME NEW j \in Instrs, NEW g \in Headers, Settled(j, g)',
                      function.kind[j] \in Hoistable
               PROVE  \E o \in Operands(function, j) : o = Argument \/ BlockOf(at', o) \in Loop(g)
  BY <1>2 DEF SettledInv, Loop
<1>9. PICK b \in Blocks : b = BlockOf(at', j)
  BY <1>3, <1>5, <1>6, PlaceIs
<1>10. /\ LoopsOf(b) # {} /\ g = getLoopFor(b)
       /\ \/ g \notin loops
          \/ g = L /\ b \notin blocks /\ \A k \in DOMAIN iter' : iter'[k] # j
  BY <1>2, <1>8, <1>9 DEF Settled, LoopsOf, getLoopFor, Loop
<1>11. b \in Loop(g)
  BY <1>10, LoopsOfIs, LoopForIs
<1>12. j # i
  <2>1. SUFFICES ASSUME j = i
                 PROVE  FALSE
    OBVIOUS
  <2>2. L \in Loop(g) /\ L # g
    BY <1>2, <1>3, <1>6, <1>9, <1>11, <2>1, LoopOfPreheader
  <2>3. QED
    BY <1>7, <1>10, <2>2
<1>13. b = BlockOf(at, j)
  BY <1>6, <1>9, <1>12
<1>14. g = L => b \notin blocks /\ (g \notin loops \/ \A k \in DOMAIN iter : iter[k] # j)
  <2>1. SUFFICES ASSUME g = L
                 PROVE  b \notin blocks /\ \A k \in DOMAIN iter : iter[k] # j
    OBVIOUS
  <2>2. b \notin blocks /\ \A k \in DOMAIN iter' : iter'[k] # j
    BY <1>7, <1>10, <2>1
  <2>3. ASSUME NEW k \in DOMAIN iter
        PROVE  iter[k] # j
    <3>1. CASE k = 1
      BY <1>2, <1>12, <3>1
    <3>2. CASE k # 1
      <4>1. k \in 1 .. Len(iter)
        BY <1>2
      <4>2. k - 1 \in 1 .. Len(iter) - 1 /\ (k - 1) + 1 = k
        BY <3>2, <4>1
      <4>3. Len(iter') = Len(iter) - 1 /\ iter'[k - 1] = iter[k]
        BY <1>2, <4>2 DEF IsTail
      <4>4. k - 1 \in DOMAIN iter'
        BY <1>2, <4>2, <4>3
      <4>5. QED
        BY <2>2, <4>3, <4>4
    <3>3. QED
      BY <3>1, <3>2
  <2>4. QED
    BY <2>2, <2>3
<1>15. Settled(j, g)
  BY <1>10, <1>13, <1>14 DEF Settled
<1>16. PICK o \in Operands(function, j) : o = Argument \/ BlockOf(at, o) \in Loop(g)
  BY <1>8, <1>15 DEF SettledInv
<1>17. PICK k \in DOMAIN function.operands[j] : function.operands[j][k] = o
  BY <1>16 DEF Operands
<1>18. o = Argument \/ o \in Instrs
  <2>1. o \in 0 .. N
    BY <1>5, <1>17, OperandType
  <2>2. QED
    BY <2>1, LoopSimplified DEF Argument, Instrs
<1>19. o # i \/ o = Argument
  <2>1. SUFFICES ASSUME o = i, o # Argument
                 PROVE  FALSE
    OBVIOUS
  <2>2. c \in Loop(g)
    BY <1>2, <1>16, <2>1
  <2>3. L \in Loop(g)
    <3>1. Loop(getLoopFor(c)) \subseteq Loop(g)
      BY <2>2, LoopForIs
    <3>2. QED
      BY <1>2, <1>4, <3>1, LoopIs
  <2>4. g \in loops
    BY <1>7, <2>3
  <2>5. g = L /\ b \in Loop(L) \ blocks /\ \A m \in DOMAIN iter : iter[m] # j
    BY <1>10, <1>11, <1>14, <2>4
  <2>6. Before(at, i, j)
    <3>1. OperandComesFirst(function, at, j, k)
      BY <1>5, <1>17, DominatedIs
    <3>2. function.kind[j] # "phi"
      BY <1>8, KindsApart
    <3>3. QED
      BY <1>17, <2>1, <3>1, <3>2 DEF OperandComesFirst
  <2>7. b = c
    <3>1. Dominates(c, b)
      BY <1>2, <1>5, <1>13, <2>6, BeforeIs
    <3>2. c <= b /\ b <= c
      BY <1>4, <2>5, <3>1, DominatesInOrder
    <3>3. QED
      BY <3>2, GraphIs
  <2>8. PICK n \in DOMAIN at[c] : n = IndexOf(at, j) /\ at[c][n] = j
    <3>1. BlockOf(at, j) = c
      BY <1>13, <2>7
    <3>2. /\ IndexOf(at, j) \in DOMAIN at[BlockOf(at, j)]
          /\ at[BlockOf(at, j)][IndexOf(at, j)] = j
      BY <1>5, PlaceIs
    <3>3. QED
      BY <3>1, <3>2
  <2>9. n > Len(at[c]) - Len(iter) + 1
    BY <1>2, <1>13, <2>6, <2>7, <2>8 DEF Before
  <2>10. PICK m \in 1 .. Len(iter) : m = n - (Len(at[c]) - Len(iter))
    <3>1. DOMAIN at[c] = 1 .. Len(at[c]) /\ Len(at[c]) \in Nat /\ Len(iter) \in Nat
      BY <1>2
    <3>2. PICK l \in Nat, s \in Nat : l = Len(iter) /\ s = Len(at[c])
      BY <3>1
    <3>3. n \in 1 .. s /\ n > s - l + 1
      BY <2>9, <3>1, <3>2
    <3>4. n - (s - l) \in 1 .. l
      BY <3>2, <3>3
    <3>5. QED
      BY <3>2, <3>4
  <2>11. Len(at[c]) - Len(iter) + m = n
    BY <1>2, <2>10
  <2>12. iter[m] = j
    BY <1>2, <2>8, <2>11
  <2>13. QED
    BY <1>2, <2>5, <2>12
<1>20. QED
  BY <1>6, <1>16, <1>18, <1>19

LEMMA SettledInvariant ==
  Spec => [](OrderInv /\ SettledInv)
<1>1. Init => OrderInv /\ SettledInv
  BY InitOrder
<1>2. OrderInv /\ SettledInv /\ [Next]_vars => SettledInv'
  <2> SUFFICES ASSUME OrderInv, SettledInv, [Next]_vars
               PROVE  SettledInv'
    OBVIOUS
  <2>1. CASE BeginLoop
    BY <2>1, BeginLoopSettled
  <2>2. CASE BeginBlock
    BY <2>2, BeginBlockSettled
  <2>3. CASE Hoist
    BY <2>3, HoistSettled
  <2>4. CASE Keep
    BY <2>4, KeepSettled
  <2>5. CASE EndLoop
    BY <2>5, EndLoopSettled
  <2>6. CASE Finished \/ UNCHANGED vars
    <3>1. UNCHANGED vars
      BY <2>6 DEF Finished
    <3>2. QED
      BY <3>1 DEF vars, SettledInv, Settled, Loop, LoopsOf, getLoopFor
  <2>7. QED
    BY <2>1, <2>2, <2>3, <2>4, <2>5, <2>6 DEF Next
<1>3. QED
  BY <1>1, <1>2, OrderInvariant, PTL DEF Spec

(* When the pass is done no instruction of any loop is invariant there:    *)
(* one visit of each block is enough, because operands are looked at       *)
(* before their users and inner loops before the loops around them.        *)
THEOREM HoistsEverything ==
  Spec => []NothingLeftToHoist
<1>1. OrderInv /\ SettledInv => NothingLeftToHoist
  <2>1. SUFFICES ASSUME OrderInv, SettledInv, loops = {}, NEW i \in Instrs,
                        LoopsOf(BlockOf(at, i)) # {}, function.kind[i] \in Hoistable
                 PROVE  \E o \in Operands(function, i) :
                          o = Argument \/ BlockOf(at, o) \in Loop(getLoopFor(BlockOf(at, i)))
    BY DEF NothingLeftToHoist, Done
  <2>2. PICK b \in Blocks : b = BlockOf(at, i)
    BY <2>1, PlaceIs DEF OrderInv, TypeOK, Placement
  <2>3. PICK g \in Headers : g = getLoopFor(b)
    BY <2>1, <2>2, LoopsOfIs, LoopForIs
  <2>4. Settled(i, g)
    BY <2>1, <2>2, <2>3 DEF Settled
  <2>5. QED
    BY <2>1, <2>2, <2>3, <2>4 DEF SettledInv
<1>2. QED
  BY <1>1, SettledInvariant, PTL

----------------------------------------------------------------------------
(* Executions                                                              *)

\* g holds the runs of a block, from "run" on, after each of its instructions.
BlockRuns(g, f, place, from, run, b) ==
  /\ g[0] = run
  /\ \A k \in 1 .. Len(place[b]) :
       g[k] = ExecuteInstr(f, run.env, from, g[k - 1], place[b][k])
  /\ ExecuteBlock(f, place, from, run, b) = g[Len(place[b])]

\* g holds the runs of a path after each of its blocks.
PathRuns(g, f, place, path) ==
  /\ g[0] = NothingRun
  /\ \A n \in 1 .. Len(path) :
       g[n] = ExecuteBlock(f, place, CameFrom(path, n), g[n - 1], path[n])
  /\ Execute(f, place, path) = g[Len(path)]

(* The recursive function of ExecuteBlock is there.                        *)
LEMMA BlockRunsExist ==
  ASSUME NEW f, NEW place, NEW from, NEW run, NEW b, Len(place[b]) \in Nat
  PROVE  \E g : BlockRuns(g, f, place, from, run, b)
<1> DEFINE size == Len(place[b])
           Step(k, r) == ExecuteInstr(f, run.env, from, r, place[b][k])
           UpTo(g, m) == g[0] = run /\ \A k \in 1 .. m : g[k] = Step(k, g[k - 1])
           Equation(g) == g = [k \in 0 .. size |-> IF k = 0 THEN run ELSE Step(k, g[k - 1])]
           after[k \in 0 .. size] == IF k = 0 THEN run ELSE Step(k, after[k - 1])
           S == {m \in 0 .. size : \E g : UpTo(g, m)}
<1>1. 0 \in S
  <2>1. UpTo([k \in 0 .. 0 |-> run], 0)
    OBVIOUS
  <2> HIDE DEF UpTo
  <2>2. QED
    BY <2>1
<1>2. ASSUME NEW m \in 0 .. size - 1, m \in S
      PROVE  m + 1 \in S
  <2>1. PICK g : UpTo(g, m)
    BY <1>2
  <2> DEFINE h == [k \in 0 .. m + 1 |-> IF k = m + 1 THEN Step(m + 1, g[m]) ELSE g[k]]
  <2>2. h[0] = run
    BY <2>1
  <2>3. ASSUME NEW k \in 1 .. m + 1
        PROVE  h[k] = Step(k, h[k - 1])
    <3> HIDE DEF Step
    <3>1. CASE k = m + 1
      <4>1. h[k] = Step(m + 1, g[m]) /\ h[m] = g[m] /\ k - 1 = m
        BY <3>1
      <4> HIDE DEF h
      <4>2. QED
        BY <3>1, <4>1
    <3>2. CASE k # m + 1
      <4>1. k \in 1 .. m /\ k - 1 \in 0 .. m + 1 /\ k - 1 # m + 1 /\ k \in 0 .. m + 1
        BY <3>2
      <4>2. h[k] = g[k] /\ h[k - 1] = g[k - 1]
        BY <4>1
      <4> HIDE DEF h
      <4>3. QED
        BY <2>1, <4>1, <4>2
    <3>3. QED
      BY <3>1, <3>2
  <2>4. UpTo(h, m + 1)
    <3> HIDE DEF h, Step
    <3>1. QED
      BY <2>2, <2>3
  <2> HIDE DEF h, UpTo
  <2>5. QED
    BY <2>4
<1>3. size \in S
  <2> HIDE DEF S, size
  <2>1. size \in Nat
    BY DEF size
  <2>2. 0 .. size \subseteq S
    BY <1>1, <1>2, <2>1, SetIntervalInduction
  <2>3. QED
    BY <2>1, <2>2
<1>4. PICK g : UpTo(g, size)
  BY <1>3
<1>5. \E h : Equation(h)
  <2> DEFINE h == [k \in 0 .. size |-> g[k]]
  <2>1. \A k \in 0 .. size : k # 0 => k \in 1 .. size /\ k - 1 \in 0 .. size
    OBVIOUS
  <2>2. \A k \in 0 .. size : g[k] = IF k = 0 THEN run ELSE Step(k, h[k - 1])
    <3> HIDE DEF Step
    <3>1. QED
      BY <1>4, <2>1
  <2>3. h = [k \in 0 .. size |-> IF k = 0 THEN run ELSE Step(k, h[k - 1])]
    <3> HIDE DEF Step, size
    <3>1. QED
      BY <2>2
  <2>4. Equation(h)
    <3> HIDE DEF Step, size, h
    <3>1. QED
      BY <2>3
  <2> HIDE DEF h, Equation
  <2>5. QED
    BY <2>4
<1>6. Equation(after)
  <2> HIDE DEF Step, size
  <2>1. QED
    BY <1>5
<1>7. ExecuteBlock(f, place, from, run, b) = after[size]
  BY DEF ExecuteBlock
<1>8. PICK h : Equation(h) /\ ExecuteBlock(f, place, from, run, b) = h[size]
  <2> HIDE DEF after, Equation
  <2>1. QED
    BY <1>6, <1>7
<1>9. h[0] = run /\ \A k \in 1 .. size : h[k] = Step(k, h[k - 1])
  <2>1. 0 \in 0 .. size /\ \A k \in 1 .. size : k \in 0 .. size /\ k # 0
    OBVIOUS
  <2> HIDE DEF Step, size
  <2>2. QED
    BY <1>8, <2>1
<1>10. QED
  BY <1>8, <1>9 DEF BlockRuns

(* The recursive function of Execute is there.                             *)
LEMMA PathRunsExist ==
  ASSUME NEW f, NEW place, NEW path, Len(path) \in Nat
  PROVE  \E g : PathRuns(g, f, place, path)
<1> DEFINE size == Len(path)
           Step(n, r) == ExecuteBlock(f, place, CameFrom(path, n), r, path[n])
           UpTo(g, m) == g[0] = NothingRun /\ \A k \in 1 .. m : g[k] = Step(k, g[k - 1])
           Equation(g) == g = [k \in 0 .. size |-> IF k = 0 THEN NothingRun ELSE Step(k, g[k - 1])]
           after[k \in 0 .. size] == IF k = 0 THEN NothingRun ELSE Step(k, after[k - 1])
           S == {m \in 0 .. size : \E g : UpTo(g, m)}
<1>1. 0 \in S
  <2>1. UpTo([k \in 0 .. 0 |-> NothingRun], 0)
    OBVIOUS
  <2> HIDE DEF UpTo
  <2>2. QED
    BY <2>1
<1>2. ASSUME NEW m \in 0 .. size - 1, m \in S
      PROVE  m + 1 \in S
  <2>1. PICK g : UpTo(g, m)
    BY <1>2
  <2> DEFINE h == [k \in 0 .. m + 1 |-> IF k = m + 1 THEN Step(m + 1, g[m]) ELSE g[k]]
  <2>2. h[0] = NothingRun
    BY <2>1
  <2>3. ASSUME NEW k \in 1 .. m + 1
        PROVE  h[k] = Step(k, h[k - 1])
    <3> HIDE DEF Step
    <3>1. CASE k = m + 1
      <4>1. h[k] = Step(m + 1, g[m]) /\ h[m] = g[m] /\ k - 1 = m
        BY <3>1
      <4> HIDE DEF h
      <4>2. QED
        BY <3>1, <4>1
    <3>2. CASE k # m + 1
      <4>1. k \in 1 .. m /\ k - 1 \in 0 .. m + 1 /\ k - 1 # m + 1 /\ k \in 0 .. m + 1
        BY <3>2
      <4>2. h[k] = g[k] /\ h[k - 1] = g[k - 1]
        BY <4>1
      <4> HIDE DEF h
      <4>3. QED
        BY <2>1, <4>1, <4>2
    <3>3. QED
      BY <3>1, <3>2
  <2>4. UpTo(h, m + 1)
    <3> HIDE DEF h, Step
    <3>1. QED
      BY <2>2, <2>3
  <2> HIDE DEF h, UpTo
  <2>5. QED
    BY <2>4
<1>3. size \in S
  <2> HIDE DEF S, size
  <2>1. size \in Nat
    BY DEF size
  <2>2. 0 .. size \subseteq S
    BY <1>1, <1>2, <2>1, SetIntervalInduction
  <2>3. QED
    BY <2>1, <2>2
<1>4. PICK g : UpTo(g, size)
  BY <1>3
<1>5. \E h : Equation(h)
  <2> DEFINE h == [k \in 0 .. size |-> g[k]]
  <2>1. \A k \in 0 .. size : k # 0 => k \in 1 .. size /\ k - 1 \in 0 .. size
    OBVIOUS
  <2>2. \A k \in 0 .. size : g[k] = IF k = 0 THEN NothingRun ELSE Step(k, h[k - 1])
    <3> HIDE DEF Step
    <3>1. QED
      BY <1>4, <2>1
  <2>3. h = [k \in 0 .. size |-> IF k = 0 THEN NothingRun ELSE Step(k, h[k - 1])]
    <3> HIDE DEF Step, size
    <3>1. QED
      BY <2>2
  <2>4. Equation(h)
    <3> HIDE DEF Step, size, h
    <3>1. QED
      BY <2>3
  <2> HIDE DEF h, Equation
  <2>5. QED
    BY <2>4
<1>6. Equation(after)
  <2> HIDE DEF Step, size
  <2>1. QED
    BY <1>5
<1>7. Execute(f, place, path) = after[size]
  BY DEF Execute
<1>8. PICK h : Equation(h) /\ Execute(f, place, path) = h[size]
  <2> HIDE DEF after, Equation
  <2>1. QED
    BY <1>6, <1>7
<1>9. h[0] = NothingRun /\ \A k \in 1 .. size : h[k] = Step(k, h[k - 1])
  <2>1. 0 \in 0 .. size /\ \A k \in 1 .. size : k \in 0 .. size /\ k # 0
    OBVIOUS
  <2> HIDE DEF Step, size
  <2>2. QED
    BY <1>8, <2>1
<1>10. QED
  BY <1>8, <1>9 DEF PathRuns

\* Two runs agree on the effects and on the values of the instructions in T.
Agree(r, s, T) ==
  /\ DOMAIN r.env = Instrs /\ DOMAIN s.env = Instrs
  /\ r.effects = s.effects
  /\ \A j \in T : r.env[j] = s.env[j]

(* A term depends on the values of the operands.                           *)
LEMMA TermsAgree ==
  ASSUME NEW f, NEW i, NEW d, NEW e,
         \A o \in DOMAIN f.operands[i] :
           f.operands[i][o] # Argument => d[f.operands[i][o]] = e[f.operands[i][o]]
  PROVE  Term(f, d, i) = Term(f, e, i)
<1>1. \A o \in DOMAIN f.operands[i] :
        ValueOf(d, f.operands[i][o]) = ValueOf(e, f.operands[i][o])
  BY DEF ValueOf
<1>2. [k \in DOMAIN f.operands[i] |-> ValueOf(d, f.operands[i][k])]
        = [k \in DOMAIN f.operands[i] |-> ValueOf(e, f.operands[i][k])]
  BY <1>1
<1>3. QED
  BY <1>2 DEF Term

(* What executing one instruction does.                                    *)
LEMMA InstrIs ==
  ASSUME NEW f, WellKnown(f), NEW i \in Instrs, NEW entry, NEW from, NEW run,
         DOMAIN run.env = Instrs
  PROVE  LET r == ExecuteInstr(f, entry, from, run, i) IN
         /\ DOMAIN r.env = Instrs
         /\ \A j \in Instrs \ {i} : r.env[j] = run.env[j]
         /\ r.effects = IF f.kind[i] = "other" THEN Append(run.effects, Term(f, run.env, i))
                                               ELSE run.effects
         /\ f.kind[i] \in Hoistable => r.env[i] = Term(f, run.env, i)
         /\ f.kind[i] = "other" => r.env[i] = <<i, <<<<Len(run.effects), <<>>>>>>>>
         /\ f.kind[i] = "phi" => r.env[i] = ValueOf(entry, f.operands[i][from])
         /\ f.kind[i] \in Hoistable \/ f.kind[i] = "other" \/ f.kind[i] = "phi"
<1>1. /\ f.kind[i] \in Hoistable \/ f.kind[i] = "other" \/ f.kind[i] = "phi"
      /\ f.kind[i] \in Hoistable => f.kind[i] # "other" /\ f.kind[i] # "phi"
  BY DEF WellKnown, Kinds, Hoistable
<1>2. PICK term : term = Term(f, run.env, i)
  OBVIOUS
<1>3. PICK label : label = <<i, <<<<Len(run.effects), <<>>>>>>>>
  OBVIOUS
<1>4. PICK read : read = ValueOf(entry, f.operands[i][from])
  OBVIOUS
<1>5. PICK value : value = CASE f.kind[i] \in Hoistable -> term
                             [] f.kind[i] = "other" -> label
                             [] f.kind[i] = "phi" -> read
  OBVIOUS
<1>6. /\ f.kind[i] \in Hoistable => value = term
      /\ f.kind[i] = "other" => value = label
      /\ f.kind[i] = "phi" => value = read
  BY <1>1, <1>5
<1>7. PICK r : r = ExecuteInstr(f, entry, from, run, i)
  OBVIOUS
<1>8. r.env = [run.env EXCEPT ![i] = value]
  BY <1>2, <1>3, <1>4, <1>5, <1>7 DEF ExecuteInstr
<1>9. r.effects = IF f.kind[i] = "other" THEN Append(run.effects, term) ELSE run.effects
  BY <1>2, <1>7 DEF ExecuteInstr
<1>10. /\ DOMAIN r.env = Instrs /\ r.env[i] = value
       /\ \A j \in Instrs \ {i} : r.env[j] = run.env[j]
  BY <1>8
<1>11. QED
  BY <1>1, <1>2, <1>3, <1>4, <1>6, <1>7, <1>9, <1>10

\* What i reads is in T; a phi reads the same in the environments d and e.
ReadsIn(f, i, from, d, e, T) ==
  /\ f.kind[i] # "phi" => \A o \in DOMAIN f.operands[i] :
                            f.operands[i][o] # Argument => f.operands[i][o] \in T
  /\ f.kind[i] = "phi" => ValueOf(d, f.operands[i][from]) = ValueOf(e, f.operands[i][from])

\* m instructions of a list, after the first a, are executed in two runs.
Together(f, from, d, e, T, list, g, h, m, a, c) ==
  \A n \in 1 .. m :
    /\ list[a + n] \in Instrs
    /\ g[a + n] = ExecuteInstr(f, d, from, g[a + n - 1], list[a + n])
    /\ h[c + n] = ExecuteInstr(f, e, from, h[c + n - 1], list[a + n])
    /\ ReadsIn(f, list[a + n], from, d, e, T)

\* The m instructions of a list are executed; neither i nor an operand of i
\* is one of them.
Passes(f, from, entry, i, list, h, m) ==
  \A n \in 1 .. m :
    /\ list[n] \in Instrs \ {i}
    /\ h[n] = ExecuteInstr(f, entry, from, h[n - 1], list[n])
    /\ \A o \in DOMAIN f.operands[i] : f.operands[i][o] # list[n]

(* An instruction does the same in two runs that agree on its operands.    *)
LEMMA InstrAgrees ==
  ASSUME NEW f, WellKnown(f), NEW T \in SUBSET Instrs, NEW i \in Instrs,
         NEW from, NEW d, NEW e, NEW r, NEW s, Agree(r, s, T), ReadsIn(f, i, from, d, e, T)
  PROVE  Agree(ExecuteInstr(f, d, from, r, i), ExecuteInstr(f, e, from, s, i), T \cup {i})
<1>1. PICK x : x = ExecuteInstr(f, d, from, r, i)
  OBVIOUS
<1>2. PICK y : y = ExecuteInstr(f, e, from, s, i)
  OBVIOUS
<1>3. /\ DOMAIN r.env = Instrs /\ DOMAIN s.env = Instrs /\ r.effects = s.effects
      /\ \A j \in T : r.env[j] = s.env[j]
  BY DEF Agree
<1>4. f.kind[i] # "phi" => Term(f, r.env, i) = Term(f, s.env, i)
  BY <1>3, TermsAgree DEF ReadsIn
<1>5. /\ DOMAIN x.env = Instrs
      /\ \A j \in Instrs \ {i} : x.env[j] = r.env[j]
      /\ x.effects = IF f.kind[i] = "other" THEN Append(r.effects, Term(f, r.env, i)) ELSE r.effects
      /\ f.kind[i] \in Hoistable => x.env[i] = Term(f, r.env, i)
      /\ f.kind[i] = "other" => x.env[i] = <<i, <<<<Len(r.effects), <<>>>>>>>>
      /\ f.kind[i] = "phi" => x.env[i] = ValueOf(d, f.operands[i][from])
      /\ f.kind[i] \in Hoistable \/ f.kind[i] = "other" \/ f.kind[i] = "phi"
  BY <1>1, <1>3, InstrIs
<1>6. /\ DOMAIN y.env = Instrs
      /\ \A j \in Instrs \ {i} : y.env[j] = s.env[j]
      /\ y.effects = IF f.kind[i] = "other" THEN Append(s.effects, Term(f, s.env, i)) ELSE s.effects
      /\ f.kind[i] \in Hoistable => y.env[i] = Term(f, s.env, i)
      /\ f.kind[i] = "other" => y.env[i] = <<i, <<<<Len(s.effects), <<>>>>>>>>
      /\ f.kind[i] = "phi" => y.env[i] = ValueOf(e, f.operands[i][from])
  BY <1>2, <1>3, InstrIs
<1>7. f.kind[i] = "other" \/ f.kind[i] \in Hoistable => f.kind[i] # "phi"
  BY DEF Hoistable
<1>8. x.env[i] = y.env[i]
  BY <1>3, <1>4, <1>5, <1>6, <1>7 DEF ReadsIn
<1>9. x.effects = y.effects
  BY <1>3, <1>4, <1>5, <1>6, <1>7
<1>10. \A j \in T \cup {i} : x.env[j] = y.env[j]
  BY <1>3, <1>5, <1>6, <1>8
<1>11. QED
  BY <1>1, <1>2, <1>5, <1>6, <1>9, <1>10 DEF Agree

(* What stands in no relation to a term leaves it as it is.                *)
LEMMA InstrKeepsTerm ==
  ASSUME NEW f, WellKnown(f), NEW i \in Instrs, NEW j \in Instrs, j # i,
         \A o \in DOMAIN f.operands[i] : f.operands[i][o] \in Instrs \ {j},
         NEW entry, NEW from, NEW s, DOMAIN s.env = Instrs, s.env[i] = Term(f, s.env, i)
  PROVE  LET t == ExecuteInstr(f, entry, from, s, j) IN
         DOMAIN t.env = Instrs /\ t.env[i] = Term(f, t.env, i)
<1>1. PICK t : t = ExecuteInstr(f, entry, from, s, j)
  OBVIOUS
<1>2. DOMAIN t.env = Instrs /\ \A k \in Instrs \ {j} : t.env[k] = s.env[k]
  BY <1>1, InstrIs
<1>3. Term(f, t.env, i) = Term(f, s.env, i)
  BY <1>2, TermsAgree
<1>4. QED
  BY <1>1, <1>2, <1>3

(* So does a list of instructions, if it is executed in two runs.          *)
LEMMA ListAgrees ==
  ASSUME NEW f, WellKnown(f), NEW T \in SUBSET Instrs, NEW from, NEW d, NEW e,
         NEW list, NEW g, NEW h, NEW m \in Nat, NEW a \in Nat, NEW c \in Nat,
         Together(f, from, d, e, T, list, g, h, m, a, c), Agree(g[a], h[c], T)
  PROVE  Agree(g[a + m], h[c + m], T)
<1> DEFINE S == {n \in 0 .. m : Agree(g[a + n], h[c + n], T)}
<1>1. 0 \in S
  <2>1. a + 0 = a /\ c + 0 = c
    OBVIOUS
  <2>2. QED
    BY <2>1
<1>2. ASSUME NEW n \in 0 .. m - 1, n \in S
      PROVE  n + 1 \in S
  <2>1. /\ n + 1 \in 1 .. m /\ a + (n + 1) - 1 = a + n /\ c + (n + 1) - 1 = c + n
    OBVIOUS
  <2>2. PICK i : i = list[a + (n + 1)]
    OBVIOUS
  <2>3. /\ i \in Instrs
        /\ g[a + (n + 1)] = ExecuteInstr(f, d, from, g[a + n], i)
        /\ h[c + (n + 1)] = ExecuteInstr(f, e, from, h[c + n], i)
    BY <2>1, <2>2 DEF Together
  <2>4. ReadsIn(f, i, from, d, e, T)
    BY <2>1, <2>2 DEF Together
  <2>5. Agree(g[a + n], h[c + n], T)
    BY <1>2
  <2>6. Agree(ExecuteInstr(f, d, from, g[a + n], i), ExecuteInstr(f, e, from, h[c + n], i), T \cup {i})
    BY <2>3, <2>4, <2>5, InstrAgrees
  <2>7. Agree(g[a + (n + 1)], h[c + (n + 1)], T)
    BY <2>3, <2>6 DEF Agree
  <2>8. QED
    BY <2>1, <2>7
<1>3. 0 .. m \subseteq S
  <2> HIDE DEF S
  <2>1. QED
    BY <1>1, <1>2, SetIntervalInduction
<1>4. QED
  BY <1>3

(* A list of instructions that are not the term's leaves it as it is.      *)
LEMMA ListKeepsTerm ==
  ASSUME NEW f, WellKnown(f), NEW i \in Instrs, NEW from, NEW entry,
         \A o \in DOMAIN f.operands[i] : f.operands[i][o] \in Instrs,
         NEW list, NEW h, NEW m \in Nat, Passes(f, from, entry, i, list, h, m),
         DOMAIN h[0].env = Instrs, h[0].env[i] = Term(f, h[0].env, i)
  PROVE  \A n \in 0 .. m : DOMAIN h[n].env = Instrs /\ h[n].env[i] = Term(f, h[n].env, i)
<1> DEFINE S == {n \in 0 .. m : DOMAIN h[n].env = Instrs /\ h[n].env[i] = Term(f, h[n].env, i)}
<1>1. 0 \in S
  OBVIOUS
<1>2. ASSUME NEW n \in 0 .. m - 1, n \in S
      PROVE  n + 1 \in S
  <2>1. n + 1 \in 1 .. m /\ n + 1 - 1 = n /\ n + 1 \in 0 .. m
    OBVIOUS
  <2>2. PICK j : j = list[n + 1]
    OBVIOUS
  <2>3. /\ j \in Instrs \ {i} /\ h[n + 1] = ExecuteInstr(f, entry, from, h[n], j)
        /\ \A o \in DOMAIN f.operands[i] : f.operands[i][o] \in Instrs \ {j}
    BY <2>1, <2>2 DEF Passes
  <2>4. DOMAIN h[n].env = Instrs /\ h[n].env[i] = Term(f, h[n].env, i)
    BY <1>2
  <2>5. DOMAIN h[n + 1].env = Instrs /\ h[n + 1].env[i] = Term(f, h[n + 1].env, i)
    BY <2>3, <2>4, InstrKeepsTerm
  <2>6. QED
    BY <2>1, <2>5
<1>3. 0 .. m \subseteq S
  <2> HIDE DEF S
  <2>1. QED
    BY <1>1, <1>2, SetIntervalInduction
<1>4. QED
  BY <1>3

\* Instruction i may be moved out of the loop of header h.
Movable(f, place, h, i) ==
  /\ Placement(place) /\ WellKnown(f) /\ Dominated(f, place)
  /\ h \in Headers /\ i \in Instrs /\ f.kind[i] \in Hoistable
  /\ BlockOf(place, i) \in Loop(h)
  /\ \A o \in DOMAIN f.operands[i] :
       /\ f.operands[i][o] \in Instrs
       /\ BlockOf(place, f.operands[i][o]) \notin Loop(h)

\* Runs r before and s after the move, at the end of block b.
AgreeAfter(f, place, h, i, b, r, s) ==
  /\ Agree(r, s, Instrs \ {i})
  /\ Dominates(BlockOf(place, i), b) => r.env[i] = s.env[i]
  /\ b \in Loop(h) \/ b = getLoopPreheader(h) => s.env[i] = Term(f, s.env, i)

\* Runs r before and s after the move, when block b is entered.
AgreeBefore(f, place, h, i, b, from, r, s) ==
  /\ Agree(r, s, Instrs \ {i})
  /\ Dominates(BlockOf(place, i), b) /\ BlockOf(place, i) # b => r.env[i] = s.env[i]
  /\ \A j \in Instrs :
       BlockOf(place, j) = b /\ f.kind[j] = "phi" =>
         ValueOf(r.env, f.operands[j][from]) = ValueOf(s.env, f.operands[j][from])
  /\ b \in Loop(h) => s.env[i] = Term(f, s.env, i)

LEMMA OperandIs ==
  ASSUME NEW f, WellKnown(f), NEW j \in Instrs, NEW o \in DOMAIN f.operands[j],
         f.operands[j][o] # Argument
  PROVE  f.operands[j][o] \in Instrs
<1>1. f.operands[j][o] \in 0 .. N
  BY OperandType
<1>2. QED
  BY <1>1, LoopSimplified DEF Argument, Instrs

(* Where the instruction comes from and goes to.                           *)
LEMMA MovableIs ==
  ASSUME NEW f, NEW place, NEW h, NEW i, Movable(f, place, h, i)
  PROVE  /\ BlockOf(place, i) \in Blocks /\ getLoopPreheader(h) \in Blocks \ Loop(h)
         /\ ~ Dominates(BlockOf(place, i), getLoopPreheader(h))
         /\ getLoopPreheader(h) # BlockOf(place, i)
         /\ f.kind[i] # "phi" /\ f.kind[i] # "other"
<1> USE DEF Movable
<1>1. PICK c : c = BlockOf(place, i)
  OBVIOUS
<1>2. PICK p : p = getLoopPreheader(h)
  OBVIOUS
<1>3. c \in Blocks /\ c \in Loop(h) /\ Dominates(h, c) /\ h \in Blocks
  BY <1>1, HeaderDominates, HeadersAre
<1>4. p \in Blocks \ Loop(h) /\ Dominates(p, h)
  BY <1>2, PreheaderIs, PreheaderDominates
<1>5. Dominates(p, c)
  BY <1>3, <1>4, DominatesTransitive
<1>6. ~ Dominates(c, p)
  BY <1>3, <1>4, <1>5, DominatesAntisymmetric
<1>7. f.kind[i] # "phi" /\ f.kind[i] # "other"
  BY DEF Hoistable
<1>8. QED
  BY <1>1, <1>2, <1>3, <1>4, <1>6, <1>7

(* What uses the instruction comes after it.                               *)
LEMMA UseComesAfter ==
  ASSUME NEW f, NEW place, NEW h, NEW i, Movable(f, place, h, i),
         NEW j \in Instrs, f.kind[j] # "phi",
         NEW o \in DOMAIN f.operands[j], f.operands[j][o] = i
  PROVE  /\ Dominates(BlockOf(place, i), BlockOf(place, j))
         /\ BlockOf(place, i) = BlockOf(place, j) => IndexOf(place, i) < IndexOf(place, j)
<1>1. i \in Instrs /\ i # Argument
  BY DEF Movable, Instrs, Argument
<1>2. OperandComesFirst(f, place, j, o)
  BY DominatedIs DEF Movable
<1>3. Before(place, i, j)
  BY <1>1, <1>2 DEF OperandComesFirst
<1>4. QED
  BY <1>1, <1>3, BeforeIs DEF Movable, Before

(* Until the instruction's old place, instructions do not read it.         *)
LEMMA ReadsOthers ==
  ASSUME NEW f, NEW place, NEW h, NEW i, Movable(f, place, h, i), NEW b \in Blocks,
         NEW n \in 1 .. Len(place[b]), NEW j, j = place[b][n],
         \/ ~ Dominates(BlockOf(place, i), b)
         \/ BlockOf(place, i) = b /\ n <= IndexOf(place, i)
  PROVE  j \in Instrs /\ (f.kind[j] # "phi" =>
           \A o \in DOMAIN f.operands[j] :
             f.operands[j][o] # Argument => f.operands[j][o] \in Instrs \ {i})
<1>1. place[b] \in Seq(Instrs)
  BY DEF Movable, Placement
<1>2. n \in DOMAIN place[b]
  BY <1>1
<1>3. j \in Instrs /\ BlockOf(place, j) = b /\ IndexOf(place, j) = n
  BY <1>2, PlaceUnique DEF Movable
<1>4. ASSUME f.kind[j] # "phi", NEW o \in DOMAIN f.operands[j], f.operands[j][o] = i
      PROVE  FALSE
  <2>1. /\ Dominates(BlockOf(place, i), b)
        /\ BlockOf(place, i) = b => IndexOf(place, i) < n
    BY <1>3, <1>4, UseComesAfter
  <2>2. IndexOf(place, i) \in Int
    <3>1. PICK c \in Blocks : c = BlockOf(place, i)
      BY PlaceIs DEF Movable
    <3>2. place[c] \in Seq(Instrs) /\ IndexOf(place, i) \in DOMAIN place[c]
      BY <3>1, PlaceIs DEF Movable, Placement
    <3>3. QED
      BY <3>2
  <2>3. QED
    BY <2>1, <2>2
<1>5. QED
  BY <1>3, <1>4, OperandIs DEF Movable

(* In a block that the move does not touch.                                *)
LEMMA OtherBlockAgrees ==
  ASSUME NEW f, NEW place, NEW h, NEW i, Movable(f, place, h, i), NEW b \in Blocks, NEW from,
         NEW r, NEW s, AgreeBefore(f, place, h, i, b, from, r, s),
         b # BlockOf(place, i), b # getLoopPreheader(h)
  PROVE  AgreeAfter(f, place, h, i, b, ExecuteBlock(f, place, from, r, b),
                    ExecuteBlock(f, Moved(place, i, getLoopPreheader(h)), from, s, b))
<1> DEFINE moved == Moved(place, i, getLoopPreheader(h))
<1>1. PICK c \in Blocks : c = BlockOf(place, i) /\ c # b /\ c \in Loop(h)
  BY MovableIs DEF Movable
<1>2. WellKnown(f) /\ Placement(place) /\ i \in Instrs
  BY DEF Movable
<1>3. PICK list : list = place[b]
  OBVIOUS
<1>4. moved[b] = list
  BY <1>2, <1>3, MovableIs, MovedIs
<1>5. PICK m \in Nat : m = Len(list) /\ DOMAIN list = 1 .. m
  BY <1>2, <1>3 DEF Placement
<1>6. PICK g : BlockRuns(g, f, place, from, r, b)
  BY <1>3, <1>5, BlockRunsExist
<1>7. PICK k : BlockRuns(k, f, moved, from, s, b)
  <2> HIDE DEF moved
  <2>1. QED
    BY <1>4, <1>5, BlockRunsExist
<1>8. /\ g[0] = r /\ ExecuteBlock(f, place, from, r, b) = g[m]
      /\ \A n \in 1 .. m : g[n] = ExecuteInstr(f, r.env, from, g[n - 1], list[n])
  BY <1>3, <1>5, <1>6 DEF BlockRuns
<1>9. /\ k[0] = s /\ ExecuteBlock(f, moved, from, s, b) = k[m]
      /\ \A n \in 1 .. m : k[n] = ExecuteInstr(f, s.env, from, k[n - 1], list[n])
  <2> HIDE DEF moved
  <2>1. QED
    BY <1>4, <1>5, <1>7 DEF BlockRuns
<1>10. PICK T \in SUBSET Instrs : T = IF Dominates(c, b) THEN Instrs ELSE Instrs \ {i}
  OBVIOUS
<1>11. Agree(r, s, T)
  BY <1>1, <1>10 DEF AgreeBefore, Agree
<1>12. ASSUME NEW n \in 1 .. m
       PROVE  /\ list[n] \in Instrs /\ BlockOf(place, list[n]) = b
              /\ ReadsIn(f, list[n], from, r.env, s.env, T)
  <2>1. PICK j : j = list[n]
    OBVIOUS
  <2>2. j \in Instrs /\ BlockOf(place, j) = b
    BY <1>2, <1>3, <1>5, <2>1, PlaceUnique
  <2>3. f.kind[j] = "phi" =>
          ValueOf(r.env, f.operands[j][from]) = ValueOf(s.env, f.operands[j][from])
    BY <2>2 DEF AgreeBefore
  <2>4. f.kind[j] # "phi" =>
          \A o \in DOMAIN f.operands[j] :
            f.operands[j][o] # Argument => f.operands[j][o] \in T
    <3>1. CASE Dominates(c, b)
      BY <1>2, <1>10, <2>2, <3>1, OperandIs
    <3>2. CASE ~ Dominates(c, b)
      BY <1>1, <1>3, <1>5, <1>10, <2>1, <3>2, ReadsOthers
    <3>3. QED
      BY <3>1, <3>2
  <2>5. QED
    BY <2>1, <2>2, <2>3, <2>4 DEF ReadsIn
<1>13. Agree(g[m], k[m], T)
  <2>1. PICK z \in Nat : z = 0
    OBVIOUS
  <2>2. Together(f, from, r.env, s.env, T, list, g, k, m, z, z)
    <3>1. \A n \in 1 .. m : z + n = n /\ z + n - 1 = n - 1
      BY <2>1
    <3>2. QED
      BY <1>8, <1>9, <1>12, <3>1 DEF Together
  <2>3. Agree(g[z], k[z], T)
    BY <2>1, <1>8, <1>9, <1>11
  <2>4. Agree(g[z + m], k[z + m], T)
    BY <1>2, <2>2, <2>3, ListAgrees
  <2>5. QED
    BY <2>1, <2>4
<1>14. b \in Loop(h) => k[m].env[i] = Term(f, k[m].env, i)
  <2>1. SUFFICES ASSUME b \in Loop(h)
                 PROVE  k[m].env[i] = Term(f, k[m].env, i)
    OBVIOUS
  <2>2. k[0].env[i] = Term(f, k[0].env, i) /\ DOMAIN k[0].env = Instrs
    BY <1>9, <2>1 DEF AgreeBefore, Agree
  <2>3. ASSUME NEW n \in 1 .. m
        PROVE  /\ list[n] \in Instrs \ {i}
               /\ \A o \in DOMAIN f.operands[i] : f.operands[i][o] # list[n]
    BY <1>1, <1>12, <2>1 DEF Movable
  <2>4. \A o \in DOMAIN f.operands[i] : f.operands[i][o] \in Instrs
    BY DEF Movable
  <2>5. Passes(f, from, s.env, i, list, k, m)
    BY <1>9, <2>3 DEF Passes
  <2>6. \A n \in 0 .. m : DOMAIN k[n].env = Instrs /\ k[n].env[i] = Term(f, k[n].env, i)
    BY <1>2, <2>2, <2>4, <2>5, ListKeepsTerm
  <2>7. QED
    BY <2>6
<1>15. AgreeAfter(f, place, h, i, b, g[m], k[m])
  BY <1>1, <1>2, <1>10, <1>13, <1>14 DEF AgreeAfter, Agree
<1>16. QED
  BY <1>8, <1>9, <1>15

(* In the preheader, where the instruction is executed last.               *)
LEMMA PreheaderAgrees ==
  ASSUME NEW f, NEW place, NEW h, NEW i, Movable(f, place, h, i), NEW b \in Blocks, NEW from,
         NEW r, NEW s, AgreeBefore(f, place, h, i, b, from, r, s),
         b = getLoopPreheader(h)
  PROVE  AgreeAfter(f, place, h, i, b, ExecuteBlock(f, place, from, r, b),
                    ExecuteBlock(f, Moved(place, i, b), from, s, b))
<1> DEFINE moved == Moved(place, i, b)
<1>1. PICK c \in Blocks : c = BlockOf(place, i) /\ c # b /\ c \in Loop(h) /\ ~ Dominates(c, b)
  BY MovableIs DEF Movable
<1>2. WellKnown(f) /\ Placement(place) /\ i \in Instrs
  BY DEF Movable
<1>3. PICK list \in Seq(Instrs) : list = place[b]
  BY <1>2 DEF Placement
<1>4. moved[b] = Append(list, i)
  BY <1>1, <1>2, <1>3, MovedIs
<1>5. PICK m \in Nat : m = Len(list) /\ DOMAIN list = 1 .. m
  BY <1>3
<1>6. /\ Len(moved[b]) = m + 1 /\ moved[b][m + 1] = i
      /\ \A n \in 1 .. m : moved[b][n] = list[n]
  BY <1>2, <1>4, <1>5
<1>7. PICK g : BlockRuns(g, f, place, from, r, b)
  BY <1>3, <1>5, BlockRunsExist
<1>8. PICK k : BlockRuns(k, f, moved, from, s, b)
  <2> HIDE DEF moved
  <2>1. Len(moved[b]) \in Nat
    BY <1>6
  <2>2. QED
    BY <2>1, BlockRunsExist
<1>9. /\ g[0] = r /\ ExecuteBlock(f, place, from, r, b) = g[m]
      /\ \A n \in 1 .. m : g[n] = ExecuteInstr(f, r.env, from, g[n - 1], list[n])
  BY <1>3, <1>5, <1>7 DEF BlockRuns
<1>10. /\ k[0] = s /\ ExecuteBlock(f, moved, from, s, b) = k[m + 1]
       /\ \A n \in 1 .. m : k[n] = ExecuteInstr(f, s.env, from, k[n - 1], list[n])
       /\ k[m + 1] = ExecuteInstr(f, s.env, from, k[m], i)
  <2> HIDE DEF moved
  <2>1. /\ k[0] = s /\ ExecuteBlock(f, moved, from, s, b) = k[m + 1]
        /\ \A n \in 1 .. m + 1 : k[n] = ExecuteInstr(f, s.env, from, k[n - 1], moved[b][n])
    BY <1>6, <1>8 DEF BlockRuns
  <2>2. m + 1 \in 1 .. m + 1 /\ (m + 1) - 1 = m /\ \A n \in 1 .. m : n \in 1 .. m + 1
    OBVIOUS
  <2>3. QED
    BY <1>6, <2>1, <2>2
<1>11. Agree(r, s, Instrs \ {i})
  BY DEF AgreeBefore
<1>12. ASSUME NEW n \in 1 .. m
       PROVE  /\ list[n] \in Instrs
              /\ ReadsIn(f, list[n], from, r.env, s.env, Instrs \ {i})
  <2>1. PICK j : j = list[n]
    OBVIOUS
  <2>2. j \in Instrs /\ BlockOf(place, j) = b
    BY <1>2, <1>3, <1>5, <2>1, PlaceUnique
  <2>3. f.kind[j] = "phi" =>
          ValueOf(r.env, f.operands[j][from]) = ValueOf(s.env, f.operands[j][from])
    BY <2>2 DEF AgreeBefore
  <2>4. f.kind[j] # "phi" =>
          \A o \in DOMAIN f.operands[j] :
            f.operands[j][o] # Argument => f.operands[j][o] \in Instrs \ {i}
    BY <1>1, <1>3, <1>5, <2>1, ReadsOthers
  <2>5. QED
    BY <2>1, <2>2, <2>3, <2>4 DEF ReadsIn
<1>13. Agree(g[m], k[m], Instrs \ {i})
  <2>1. PICK z \in Nat : z = 0
    OBVIOUS
  <2>2. Together(f, from, r.env, s.env, Instrs \ {i}, list, g, k, m, z, z)
    <3>1. \A n \in 1 .. m : z + n = n /\ z + n - 1 = n - 1
      BY <2>1
    <3>2. QED
      BY <1>9, <1>10, <1>12, <3>1 DEF Together
  <2>3. Agree(g[z], k[z], Instrs \ {i})
    BY <2>1, <1>9, <1>10, <1>11
  <2>4. Agree(g[z + m], k[z + m], Instrs \ {i})
    BY <1>2, <2>2, <2>3, ListAgrees
  <2>5. QED
    BY <2>1, <2>4
<1>14. /\ DOMAIN k[m + 1].env = Instrs
       /\ \A j \in Instrs \ {i} : k[m + 1].env[j] = k[m].env[j]
       /\ k[m + 1].effects = k[m].effects
       /\ k[m + 1].env[i] = Term(f, k[m].env, i)
  <2>1. DOMAIN k[m].env = Instrs
    BY <1>13 DEF Agree
  <2>2. f.kind[i] \in Hoistable /\ f.kind[i] # "other"
    BY MovableIs DEF Movable
  <2>3. QED
    BY <1>2, <1>10, <2>1, <2>2, InstrIs
<1>15. Term(f, k[m].env, i) = Term(f, k[m + 1].env, i)
  <2>1. \A o \in DOMAIN f.operands[i] : f.operands[i][o] \in Instrs \ {i}
    BY DEF Movable
  <2>2. QED
    BY <1>14, <2>1, TermsAgree
<1>16. AgreeAfter(f, place, h, i, b, g[m], k[m + 1])
  BY <1>1, <1>13, <1>14, <1>15 DEF AgreeAfter, Agree
<1>17. QED
  BY <1>9, <1>10, <1>16

(* In the block that the instruction leaves: up to its old place all else  *)
(* agrees and its value is already there; after it, it is the same value.  *)
LEMMA OldBlockAgrees ==
  ASSUME NEW f, NEW place, NEW h, NEW i, Movable(f, place, h, i), NEW b \in Blocks, NEW from,
         NEW r, NEW s, AgreeBefore(f, place, h, i, b, from, r, s),
         b = BlockOf(place, i)
  PROVE  AgreeAfter(f, place, h, i, b, ExecuteBlock(f, place, from, r, b),
                    ExecuteBlock(f, Moved(place, i, getLoopPreheader(h)), from, s, b))
<1> DEFINE moved == Moved(place, i, getLoopPreheader(h))
<1>1. b \in Loop(h) /\ b # getLoopPreheader(h)
  BY MovableIs DEF Movable
<1>2. WellKnown(f) /\ Placement(place) /\ i \in Instrs /\ f.kind[i] \in Hoistable
  BY DEF Movable
<1>3. PICK list \in Seq(Instrs) : list = place[b]
  BY <1>2 DEF Placement
<1>4. PICK q \in 1 .. Len(list) : q = IndexOf(place, i) /\ list[q] = i
  BY <1>2, <1>3, PlaceIs
<1>5. PICK m \in Nat : m = Len(list) /\ DOMAIN list = 1 .. m /\ q \in 1 .. m
  BY <1>3, <1>4
<1>6. PICK rest \in Seq(Instrs) :
        /\ rest = moved[b] /\ Len(rest) = m - 1
        /\ \A n \in 1 .. m - 1 : rest[n] = IF n < q THEN list[n] ELSE list[n + 1]
  <2>1. moved[b] = RemoveAt(list, q)
    BY <1>1, <1>2, <1>3, <1>4, MovableIs, MovedIs
  <2>2. PICK x : x = RemoveAt(list, q)
    OBVIOUS
  <2>3. list \in Seq(Instrs) /\ q \in 1 .. Len(list)
    BY <1>3, <1>4
  <2>4. /\ RemoveAt(list, q) \in Seq(Instrs)
        /\ Len(RemoveAt(list, q)) = Len(list) - 1
        /\ \A n \in 1 .. Len(list) - 1 :
             RemoveAt(list, q)[n] = IF n < q THEN list[n] ELSE list[n + 1]
    BY <2>3, RemoveAtIs
  <2> HIDE DEF moved
  <2>5. QED
    BY <1>5, <2>1, <2>2, <2>4
<1>7. PICK g : BlockRuns(g, f, place, from, r, b)
  BY <1>3, <1>5, BlockRunsExist
<1>8. PICK k : BlockRuns(k, f, moved, from, s, b)
  <2> HIDE DEF moved
  <2>1. Len(moved[b]) \in Nat
    BY <1>6
  <2>2. QED
    BY <2>1, BlockRunsExist
<1>9. /\ g[0] = r /\ ExecuteBlock(f, place, from, r, b) = g[m]
      /\ \A n \in 1 .. m : g[n] = ExecuteInstr(f, r.env, from, g[n - 1], list[n])
  BY <1>3, <1>5, <1>7 DEF BlockRuns
<1>10. /\ k[0] = s /\ ExecuteBlock(f, moved, from, s, b) = k[m - 1]
       /\ \A n \in 1 .. m - 1 : k[n] = ExecuteInstr(f, s.env, from, k[n - 1], rest[n])
  <2> HIDE DEF moved
  <2>1. QED
    BY <1>6, <1>8 DEF BlockRuns
<1>11. Agree(r, s, Instrs \ {i}) /\ s.env[i] = Term(f, s.env, i) /\ DOMAIN s.env = Instrs
  BY <1>1 DEF AgreeBefore, Agree
<1>12. ASSUME NEW n \in 1 .. m
       PROVE  /\ list[n] \in Instrs /\ BlockOf(place, list[n]) = b
              /\ n # q => list[n] # i
              /\ ReadsIn(f, list[n], from, r.env, s.env, Instrs)
              /\ n <= q => ReadsIn(f, list[n], from, r.env, s.env, Instrs \ {i})
  <2>1. PICK j : j = list[n]
    OBVIOUS
  <2>2. j \in Instrs /\ BlockOf(place, j) = b /\ (n # q => j # i)
    BY <1>2, <1>3, <1>4, <1>5, <2>1, PlaceUnique
  <2>3. f.kind[j] = "phi" =>
          ValueOf(r.env, f.operands[j][from]) = ValueOf(s.env, f.operands[j][from])
    BY <2>2 DEF AgreeBefore
  <2>4. \A o \in DOMAIN f.operands[j] :
          f.operands[j][o] # Argument => f.operands[j][o] \in Instrs
    BY <1>2, <2>2, OperandIs
  <2>5. n <= q /\ f.kind[j] # "phi" =>
          \A o \in DOMAIN f.operands[j] :
            f.operands[j][o] # Argument => f.operands[j][o] \in Instrs \ {i}
    BY <1>3, <1>4, <1>5, <2>1, ReadsOthers
  <2>6. QED
    BY <2>1, <2>2, <2>3, <2>4, <2>5 DEF ReadsIn
<1>13. Agree(g[q - 1], k[q - 1], Instrs \ {i})
  <2>1. PICK z \in Nat : z = 0
    OBVIOUS
  <2>2. PICK l \in Nat : l = q - 1
    BY <1>5
  <2>3. Together(f, from, r.env, s.env, Instrs \ {i}, list, g, k, l, z, z)
    <3>1. \A n \in 1 .. l : /\ z + n = n /\ z + n - 1 = n - 1
                            /\ n \in 1 .. m /\ n \in 1 .. m - 1 /\ n < q /\ n <= q
      BY <1>5, <2>1, <2>2
    <3>2. \A n \in 1 .. l : rest[n] = list[n]
      BY <1>6, <3>1
    <3>3. QED
      BY <1>9, <1>10, <1>12, <3>1, <3>2 DEF Together
  <2>4. Agree(g[z], k[z], Instrs \ {i})
    BY <1>9, <1>10, <1>11, <2>1
  <2>5. Agree(g[z + l], k[z + l], Instrs \ {i})
    BY <1>2, <2>3, <2>4, ListAgrees
  <2>6. QED
    BY <2>1, <2>2, <2>5
<1>14. \A n \in 0 .. m - 1 : DOMAIN k[n].env = Instrs /\ k[n].env[i] = Term(f, k[n].env, i)
  <2>1. PICK l \in Nat : l = m - 1
    BY <1>5
  <2>2. ASSUME NEW n \in 1 .. l
        PROVE  /\ rest[n] \in Instrs \ {i}
               /\ \A o \in DOMAIN f.operands[i] : f.operands[i][o] # rest[n]
    <3>1. PICK x \in 1 .. m : rest[n] = list[x] /\ x # q
      <4>1. CASE n < q
        BY <1>5, <1>6, <2>1, <4>1
      <4>2. CASE ~ (n < q)
        <5>1. n + 1 \in 1 .. m /\ n + 1 # q /\ n \in 1 .. m - 1
          BY <1>5, <2>1, <4>2
        <5>2. QED
          BY <1>6, <4>2, <5>1
      <4>3. QED
        BY <4>1, <4>2
    <3>2. QED
      BY <1>1, <1>12, <3>1 DEF Movable
  <2>3. Passes(f, from, s.env, i, rest, k, l)
    BY <1>10, <2>1, <2>2 DEF Passes
  <2>4. \A o \in DOMAIN f.operands[i] : f.operands[i][o] \in Instrs
    BY DEF Movable
  <2>5. DOMAIN k[0].env = Instrs /\ k[0].env[i] = Term(f, k[0].env, i)
    BY <1>10, <1>11
  <2>6. QED
    BY <1>2, <2>1, <2>3, <2>4, <2>5, ListKeepsTerm
<1>15. Agree(g[q], k[q - 1], Instrs)
  <2>1. PICK x : x = g[q - 1]
    OBVIOUS
  <2>2. PICK y : y = k[q - 1]
    OBVIOUS
  <2>3. PICK w : w = g[q]
    OBVIOUS
  <2>4. /\ DOMAIN x.env = Instrs /\ DOMAIN y.env = Instrs /\ x.effects = y.effects
        /\ \A j \in Instrs \ {i} : x.env[j] = y.env[j]
    BY <1>13, <2>1, <2>2 DEF Agree
  <2>5. y.env[i] = Term(f, y.env, i)
    <3>1. q - 1 \in 0 .. m - 1
      BY <1>5
    <3>2. QED
      BY <1>14, <2>2, <3>1
  <2>6. w = ExecuteInstr(f, r.env, from, x, i)
    BY <1>4, <1>5, <1>9, <2>1, <2>3
  <2>7. f.kind[i] # "other"
    BY MovableIs
  <2>8. /\ DOMAIN w.env = Instrs /\ w.effects = x.effects
        /\ \A j \in Instrs \ {i} : w.env[j] = x.env[j]
        /\ w.env[i] = Term(f, x.env, i)
    BY <1>2, <2>4, <2>6, <2>7, InstrIs
  <2>9. \A o \in DOMAIN f.operands[i] : f.operands[i][o] \in Instrs \ {i}
    BY DEF Movable
  <2>10. Term(f, x.env, i) = Term(f, y.env, i)
    BY <2>4, <2>9, TermsAgree
  <2>11. \A j \in Instrs : w.env[j] = y.env[j]
    BY <2>4, <2>5, <2>8, <2>10
  <2>12. QED
    BY <2>2, <2>3, <2>4, <2>8, <2>11 DEF Agree
<1>16. Agree(g[m], k[m - 1], Instrs)
  <2>1. PICK l \in Nat : l = m - q
    <3>1. m - q \in Nat
      BY <1>5
    <3>2. QED
      BY <3>1
  <2>2. PICK c \in Nat : c = q - 1
    BY <1>5
  <2>3. Together(f, from, r.env, s.env, Instrs, list, g, k, l, q, c)
    <3>1. \A n \in 1 .. l : /\ q + n \in 1 .. m /\ c + n \in 1 .. m - 1
                            /\ c + n + 1 = q + n /\ ~ (c + n < q)
      BY <1>5, <2>1, <2>2
    <3>2. \A n \in 1 .. l : rest[c + n] = list[q + n]
      BY <1>6, <3>1
    <3>3. ASSUME NEW n \in 1 .. l
          PROVE  /\ list[q + n] \in Instrs
                 /\ g[q + n] = ExecuteInstr(f, r.env, from, g[q + n - 1], list[q + n])
                 /\ k[c + n] = ExecuteInstr(f, s.env, from, k[c + n - 1], list[q + n])
                 /\ ReadsIn(f, list[q + n], from, r.env, s.env, Instrs)
      <4>1. PICK x \in 1 .. m, y \in 1 .. m - 1 : x = q + n /\ y = c + n
        BY <3>1
      <4>2. rest[y] = list[x]
        BY <3>2, <4>1
      <4>3. /\ list[x] \in Instrs /\ ReadsIn(f, list[x], from, r.env, s.env, Instrs)
            /\ g[x] = ExecuteInstr(f, r.env, from, g[x - 1], list[x])
            /\ k[y] = ExecuteInstr(f, s.env, from, k[y - 1], list[x])
        BY <1>9, <1>10, <1>12, <4>2
      <4>4. QED
        BY <4>1, <4>3
    <3>4. QED
      BY <3>3 DEF Together
  <2>4. Agree(g[q], k[c], Instrs)
    BY <1>15, <2>2
  <2>5. q \in Nat
    BY <1>5
  <2>6. Agree(g[q + l], k[c + l], Instrs)
    BY <1>2, <2>3, <2>4, <2>5, ListAgrees
  <2>7. q + l = m /\ c + l = m - 1
    BY <1>5, <2>1, <2>2
  <2>8. QED
    BY <2>6, <2>7
<1>17. k[m - 1].env[i] = Term(f, k[m - 1].env, i)
  <2>1. m - 1 \in 0 .. m - 1
    BY <1>5
  <2>2. QED
    BY <1>14, <2>1
<1>18. AgreeAfter(f, place, h, i, b, g[m], k[m - 1])
  BY <1>2, <1>16, <1>17 DEF AgreeAfter, Agree
<1>19. QED
  BY <1>9, <1>10, <1>18

(* Whatever the block.                                                     *)
LEMMA BlockAgrees ==
  ASSUME NEW f, NEW place, NEW h, NEW i, Movable(f, place, h, i), NEW b \in Blocks, NEW from,
         NEW r, NEW s, AgreeBefore(f, place, h, i, b, from, r, s)
  PROVE  AgreeAfter(f, place, h, i, b, ExecuteBlock(f, place, from, r, b),
                    ExecuteBlock(f, Moved(place, i, getLoopPreheader(h)), from, s, b))
<1>1. CASE b = BlockOf(place, i)
  BY <1>1, OldBlockAgrees
<1>2. CASE b = getLoopPreheader(h)
  BY <1>2, PreheaderAgrees
<1>3. CASE b # BlockOf(place, i) /\ b # getLoopPreheader(h)
  BY <1>3, OtherBlockAgrees
<1>4. QED
  BY <1>1, <1>2, <1>3

\* From the entry along edges.
IsPath(path) ==
  /\ path \in Seq(Blocks) /\ Len(path) \in Nat \ {0} /\ path[1] = 1
  /\ \A n \in 1 .. Len(path) - 1 : <<path[n], path[n + 1]>> \in Edges

\* Phis have a value for each predecessor.
PhisIn(f, place) ==
  \A j \in Instrs : f.kind[j] = "phi" =>
    DOMAIN f.operands[j] = Predecessors(BlockOf(place, j))

(* Nothing differs when the function is entered.                           *)
LEMMA EntryAgrees ==
  ASSUME NEW f, NEW place, NEW h, NEW i, Movable(f, place, h, i), NEW from
  PROVE  AgreeBefore(f, place, h, i, 1, from, NothingRun, NothingRun)
<1>1. 1 \notin Loop(h)
  <2>1. SUFFICES ASSUME 1 \in Loop(h)
                 PROVE  FALSE
    OBVIOUS
  <2>2. h \in Blocks /\ h # 1 /\ h <= 1
    BY <2>1, HeaderDominates, DominatesInOrder, HeaderNotEntry, HeadersAre DEF Movable
  <2>3. QED
    BY <2>2, GraphIs
<1>2. DOMAIN NothingRun.env = Instrs
  BY DEF NothingRun
<1>3. QED
  BY <1>1, <1>2 DEF AgreeBefore, Agree

(* What agrees after a block agrees before the next one.                   *)
LEMMA EdgeAgrees ==
  ASSUME NEW f, NEW place, NEW h, NEW i, Movable(f, place, h, i), PhisIn(f, place),
         NEW b \in Blocks, NEW a \in Predecessors(b), NEW r, NEW s,
         AgreeAfter(f, place, h, i, a, r, s)
  PROVE  AgreeBefore(f, place, h, i, b, a, r, s)
<1>1. PICK c \in Blocks : c = BlockOf(place, i)
  BY MovableIs
<1>2. WellKnown(f) /\ Placement(place) /\ Dominated(f, place) /\ h \in Headers /\ i \in Instrs
  BY DEF Movable
<1>3. /\ Agree(r, s, Instrs \ {i})
      /\ Dominates(c, a) => r.env[i] = s.env[i]
      /\ a \in Loop(h) \/ a = getLoopPreheader(h) => s.env[i] = Term(f, s.env, i)
  BY <1>1 DEF AgreeAfter
<1>4. Dominates(c, b) /\ c # b => r.env[i] = s.env[i]
  BY <1>3, DominatesPredecessors
<1>5. ASSUME NEW j \in Instrs, BlockOf(place, j) = b, f.kind[j] = "phi"
      PROVE  ValueOf(r.env, f.operands[j][a]) = ValueOf(s.env, f.operands[j][a])
  <2>1. a \in DOMAIN f.operands[j]
    BY <1>5 DEF PhisIn
  <2>2. PICK o : o = f.operands[j][a]
    OBVIOUS
  <2>3. CASE o = Argument
    BY <2>2, <2>3 DEF ValueOf
  <2>4. CASE o = i /\ o # Argument
    <3>1. OperandComesFirst(f, place, j, a)
      BY <1>2, <2>1, DominatedIs
    <3>2. Dominates(c, a)
      BY <1>1, <1>5, <2>2, <2>4, <3>1 DEF OperandComesFirst
    <3>3. QED
      BY <1>3, <2>2, <2>4, <3>2 DEF ValueOf
  <2>5. CASE o # i /\ o # Argument
    <3>1. o \in Instrs \ {i}
      BY <1>2, <2>1, <2>2, <2>5, OperandIs
    <3>2. QED
      BY <1>3, <2>2, <2>5, <3>1 DEF ValueOf, Agree
  <2>6. QED
    BY <2>3, <2>4, <2>5
<1>6. b \in Loop(h) => s.env[i] = Term(f, s.env, i)
  <2>1. SUFFICES ASSUME b \in Loop(h)
                 PROVE  a \in Loop(h) \/ a = getLoopPreheader(h)
    BY <1>3
  <2>2. CASE b = h
    <3>1. Predecessors(h) \ Loop(h) = {getLoopPreheader(h)}
      BY <1>2, PreheaderIs
    <3>2. a \in Predecessors(h)
      BY <2>2
    <3>3. QED
      BY <3>1, <3>2
  <2>3. CASE b # h
    BY <1>2, <2>1, <2>3, PredecessorsInside
  <2>4. QED
    BY <2>2, <2>3
<1>7. QED
  BY <1>1, <1>3, <1>4, <1>5, <1>6 DEF AgreeBefore

(* A move changes no effect, and no value but its own.                     *)
LEMMA PathAgrees ==
  ASSUME NEW f, NEW place, NEW h, NEW i, Movable(f, place, h, i), PhisIn(f, place),
         NEW path, IsPath(path)
  PROVE  Agree(Execute(f, place, path),
               Execute(f, Moved(place, i, getLoopPreheader(h)), path), Instrs \ {i})
<1>1. PICK moved : moved = Moved(place, i, getLoopPreheader(h))
  OBVIOUS
<1>2. PICK m \in Nat : m = Len(path) /\ m # 0
  BY DEF IsPath
<1>3. PICK g : PathRuns(g, f, place, path)
  BY <1>2, PathRunsExist
<1>4. PICK k : PathRuns(k, f, moved, path)
  BY <1>2, PathRunsExist
<1>5. /\ g[0] = NothingRun /\ Execute(f, place, path) = g[m]
      /\ k[0] = NothingRun /\ Execute(f, moved, path) = k[m]
      /\ \A n \in 1 .. m :
           /\ g[n] = ExecuteBlock(f, place, CameFrom(path, n), g[n - 1], path[n])
           /\ k[n] = ExecuteBlock(f, moved, CameFrom(path, n), k[n - 1], path[n])
  BY <1>2, <1>3, <1>4 DEF PathRuns
<1>6. /\ path[1] = 1 /\ \A n \in 1 .. m : path[n] \in Blocks
      /\ \A n \in 1 .. m - 1 : <<path[n], path[n + 1]>> \in Edges
  <2>1. path \in Seq(Blocks) /\ DOMAIN path = 1 .. m
    BY <1>2 DEF IsPath
  <2>2. QED
    BY <1>2, <2>1, ElementType DEF IsPath
<1> DEFINE After(n) == AgreeAfter(f, place, h, i, path[n], g[n], k[n])
           S == {n \in 0 .. m : n = 0 \/ After(n)}
<1>7. ASSUME NEW n \in 1 .. m,
             AgreeBefore(f, place, h, i, path[n], CameFrom(path, n), g[n - 1], k[n - 1])
      PROVE  After(n)
  BY <1>1, <1>5, <1>6, <1>7, BlockAgrees
<1>8. 0 \in S
  OBVIOUS
<1>9. ASSUME NEW n \in 0 .. m - 1, n \in S
      PROVE  n + 1 \in S
  <2>1. n + 1 \in 1 .. m /\ n + 1 \in 0 .. m /\ (n + 1) - 1 = n
    OBVIOUS
  <2>2. AgreeBefore(f, place, h, i, path[n + 1], CameFrom(path, n + 1), g[n], k[n])
    <3>1. CASE n = 0
      <4>1. AgreeBefore(f, place, h, i, 1, CameFrom(path, n + 1), NothingRun, NothingRun)
        BY EntryAgrees
      <4>2. n + 1 = 1
        BY <3>1
      <4>3. QED
        BY <1>5, <1>6, <3>1, <4>1, <4>2
    <3>2. CASE n # 0
      <4>1. n \in 1 .. m /\ n \in 1 .. m - 1 /\ n + 1 # 1
        BY <3>2
      <4>2. CameFrom(path, n + 1) = path[n]
        BY <2>1, <4>1 DEF CameFrom
      <4>3. path[n] \in Predecessors(path[n + 1]) /\ path[n + 1] \in Blocks
        BY <1>6, <2>1, <4>1 DEF Predecessors
      <4>4. After(n)
        BY <1>9, <3>2
      <4>5. AgreeBefore(f, place, h, i, path[n + 1], path[n], g[n], k[n])
        BY <4>3, <4>4, EdgeAgrees
      <4>6. QED
        BY <4>2, <4>5
    <3>3. QED
      BY <3>1, <3>2
  <2>3. After(n + 1)
    <3> HIDE DEF After
    <3>1. QED
      BY <1>7, <2>1, <2>2
  <2> HIDE DEF After
  <2>4. QED
    BY <2>1, <2>3
<1>10. 0 .. m \subseteq S
  <2> HIDE DEF S
  <2>1. QED
    BY <1>8, <1>9, SetIntervalInduction
<1>11. After(m)
  <2> HIDE DEF After
  <2>1. QED
    BY <1>2, <1>10
<1>12. QED
  BY <1>1, <1>5, <1>11 DEF AgreeAfter

(* Paths, a recursive function too, are paths.                             *)
LEMMA PathsAre ==
  ASSUME NEW n \in Nat \ {0}, NEW path \in Paths(n)
  PROVE  IsPath(path)
<1> DEFINE Longer(W) == UNION {{Append(p, e[2]) : e \in {d \in Edges : d[1] = Last(p)}} : p \in W}
           Equation(w) == w = [k \in 1 .. n |-> IF k = 1 THEN {<<1>>} ELSE Longer(w[k - 1])]
           walks[k \in 1 .. n] == IF k = 1 THEN {<<1>>} ELSE Longer(walks[k - 1])
           step == [W \in SUBSET Seq(Blocks) |-> Longer(W)]
<1>1. \A e \in Edges : e[1] \in Blocks /\ e[2] \in Blocks /\ e = <<e[1], e[2]>>
  BY GraphAssumption
<1>2. step \in [SUBSET Seq(Blocks) -> SUBSET Seq(Blocks)]
  <2>1. ASSUME NEW W \in SUBSET Seq(Blocks), NEW q \in Longer(W)
        PROVE  q \in Seq(Blocks)
    <3>1. PICK p \in W, e \in Edges : q = Append(p, e[2])
      BY <2>1
    <3>2. p \in Seq(Blocks) /\ e[2] \in Blocks
      BY <1>1
    <3>3. QED
      BY <3>1, <3>2
  <2> HIDE DEF Longer
  <2>2. QED
    BY <2>1
<1>3. PICK f : IsIteration(f, n - 1, SUBSET Seq(Blocks), {<<1>>}, step)
  <2>1. {<<1>>} \in SUBSET Seq(Blocks) /\ n - 1 \in Nat
    BY GraphIs
  <2> HIDE DEF step
  <2>2. QED
    BY <1>2, <2>1, Iteration
<1>4. \E w : Equation(w)
  <2> DEFINE w == [k \in 1 .. n |-> f[k - 1]]
  <2>1. f \in [0 .. n - 1 -> SUBSET Seq(Blocks)] /\ f[0] = {<<1>>}
        /\ \A m \in 1 .. n - 1 : f[m] = step[f[m - 1]]
    BY <1>3 DEF IsIteration
  <2>2. ASSUME NEW k \in 1 .. n
        PROVE  f[k - 1] = IF k = 1 THEN {<<1>>} ELSE Longer(w[k - 1])
    <3> HIDE DEF Longer
    <3>1. CASE k = 1
      BY <2>1, <3>1
    <3>2. CASE k # 1
      <4>1. k - 1 \in 1 .. n - 1 /\ k - 1 \in 1 .. n /\ (k - 1) - 1 \in 0 .. n - 1
        BY <3>2
      <4>2. w[k - 1] = f[(k - 1) - 1] /\ f[(k - 1) - 1] \in SUBSET Seq(Blocks)
        BY <2>1, <4>1
      <4>3. f[k - 1] = Longer(f[(k - 1) - 1])
        BY <2>1, <4>1, <4>2
      <4>4. QED
        BY <3>2, <4>2, <4>3
    <3>3. QED
      BY <3>1, <3>2
  <2>3. Equation(w)
    <3> HIDE DEF Longer
    <3>1. w = [k \in 1 .. n |-> IF k = 1 THEN {<<1>>} ELSE Longer(w[k - 1])]
      BY <2>2
    <3>2. QED
      BY <3>1
  <2> HIDE DEF w, Equation
  <2>4. QED
    BY <2>3
<1>5. Equation(walks)
  <2> HIDE DEF Longer
  <2>1. QED
    BY <1>4
<1>6. Paths(n) = UNION {walks[k] : k \in 1 .. n}
  BY DEF Paths
<1>7. PICK w : Equation(w) /\ Paths(n) = UNION {w[k] : k \in 1 .. n}
  <2> HIDE DEF walks, Equation
  <2>1. QED
    BY <1>5, <1>6
<1>8. w[1] = {<<1>>} /\ \A k \in 2 .. n : w[k] = Longer(w[k - 1])
  <2>1. 1 \in 1 .. n /\ \A k \in 2 .. n : k \in 1 .. n /\ k # 1
    OBVIOUS
  <2>2. w = [k \in 1 .. n |-> IF k = 1 THEN {<<1>>} ELSE Longer(w[k - 1])]
    BY <1>7
  <2> HIDE DEF Longer, Equation
  <2>3. QED
    BY <2>1, <2>2
<1> HIDE DEF Equation, walks, step
<1> DEFINE S == {m \in 0 .. n - 1 : \A p \in w[m + 1] : IsPath(p)}
<1>9. 0 \in S
  <2>1. IsPath(<<1>>)
    BY GraphIs DEF IsPath
  <2>2. QED
    BY <1>8, <2>1
<1>10. ASSUME NEW m \in 0 .. (n - 1) - 1, m \in S
       PROVE  m + 1 \in S
  <2>1. m + 2 \in 2 .. n /\ (m + 2) - 1 = m + 1 /\ (m + 1) + 1 = m + 2 /\ m + 1 \in 0 .. n - 1
    OBVIOUS
  <2>2. ASSUME NEW q \in w[m + 2]
        PROVE  IsPath(q)
    <3>1. q \in Longer(w[m + 1])
      BY <1>8, <2>1
    <3>2. PICK p \in w[m + 1], e \in Edges : q = Append(p, e[2]) /\ e[1] = Last(p)
      BY <3>1
    <3>3. IsPath(p)
      BY <1>10
    <3>4. PICK l \in Nat \ {0} : l = Len(p)
      BY <3>3 DEF IsPath
    <3>5. /\ p \in Seq(Blocks) /\ p[1] = 1 /\ e[2] \in Blocks /\ <<p[l], e[2]>> \in Edges
          /\ \A k \in 1 .. l - 1 : <<p[k], p[k + 1]>> \in Edges
      BY <1>1, <3>2, <3>3, <3>4 DEF IsPath, Last
    <3>6. /\ q \in Seq(Blocks) /\ Len(q) = l + 1 /\ q[l + 1] = e[2]
          /\ \A k \in 1 .. l : q[k] = p[k]
      BY <3>2, <3>4, <3>5
    <3>7. ASSUME NEW k \in 1 .. Len(q) - 1
          PROVE  <<q[k], q[k + 1]>> \in Edges
      <4>1. CASE k = l
        <5>1. l \in 1 .. l /\ q[l] = p[l] /\ q[l + 1] = e[2]
          BY <3>4, <3>6
        <5>2. QED
          BY <3>5, <4>1, <5>1
      <4>2. CASE k # l
        <5>1. k \in 1 .. l - 1 /\ k \in 1 .. l /\ k + 1 \in 1 .. l
          BY <3>4, <3>6, <4>2
        <5>2. QED
          BY <3>5, <3>6, <5>1
      <4>3. QED
        BY <4>1, <4>2
    <3>8. Len(q) \in Nat \ {0} /\ q[1] = 1
      BY <3>4, <3>5, <3>6
    <3>9. QED
      BY <3>6, <3>7, <3>8 DEF IsPath
  <2> HIDE DEF Longer
  <2>3. QED
    BY <2>1, <2>2
<1>11. 0 .. n - 1 \subseteq S
  <2>1. n - 1 \in Nat
    OBVIOUS
  <2> HIDE DEF S
  <2>2. QED
    BY <1>9, <1>10, <2>1, SetIntervalInduction
<1>12. PICK k \in 1 .. n : path \in w[k]
  BY <1>7
<1>13. k - 1 \in 0 .. n - 1 /\ (k - 1) + 1 = k
  OBVIOUS
<1>14. QED
  BY <1>11, <1>12, <1>13

\* The function does on a path what it did before the pass.
SameRun(path) ==
  LET before == Execute(function, function.original, path)
      after == Execute(function, at, path)
  IN /\ after.effects = before.effects
     /\ \A i \in Instrs :
          function.kind[i] \notin Hoistable => after.env[i] = before.env[i]

(* After each move, on every path of any length.                           *)
EffectsInv ==
  /\ PhisIn(function, at)
  /\ \A path \in Seq(Blocks) : IsPath(path) => SameRun(path)

LEMMA InitEffects ==
  ASSUME Init
  PROVE  EffectsInv
<1>1. PICK f \in Functions : /\ function = [kind |-> f.kind, operands |-> f.operands,
                                            original |-> f.at]
                             /\ at = f.at
  BY DEF Init
<1>2. function.original = at /\ function.kind = f.kind /\ function.operands = f.operands
  BY <1>1
<1>3. WellFormed(f)
  BY FunctionsAssumption
<1>4. PhisIn(function, at)
  <2>1. ASSUME NEW j \in Instrs, f.kind[j] = "phi"
        PROVE  DOMAIN f.operands[j] = Predecessors(BlockOf(f.at, j))
    <3>1. f.operands[j] \in [Predecessors(BlockOf(f.at, j)) -> 0 .. N]
      BY <1>3, <2>1 DEF WellFormed
    <3>2. QED
      BY <3>1
  <2>2. QED
    BY <1>1, <1>2, <2>1 DEF PhisIn
<1>5. QED
  BY <1>2, <1>4 DEF EffectsInv, SameRun

LEMMA HoistEffects ==
  ASSUME OrderInv, EffectsInv, Hoist
  PROVE  EffectsInv'
<1>1. PICK i \in Instrs, c \in Blocks : Hoists(i, c)
  BY HoistIs
<1>2. /\ function' = function /\ at' = Moved(at, i, getLoopPreheader(L))
      /\ L \in Headers /\ BlockOf(at, i) = c /\ c \in Loop(L)
      /\ function.kind[i] \in Hoistable
      /\ \A o \in DOMAIN function.operands[i] :
           function.operands[i][o] # Argument /\ BlockOf(at, function.operands[i][o]) \notin Loop(L)
  BY <1>1 DEF Hoists, IterIn
<1>3. Placement(at) /\ WellKnown(function) /\ Dominated(function, at)
  BY DEF OrderInv, TypeOK, Placement
<1>4. Movable(function, at, L, i)
  BY <1>2, <1>3, OperandIs DEF Movable
<1>5. PICK p \in Blocks : p = getLoopPreheader(L) /\ p # BlockOf(at, i)
  BY <1>4, MovableIs
<1>6. PhisIn(function, at)'
  <2>1. \A j \in Instrs \ {i} : BlockOf(at', j) = BlockOf(at, j)
    BY <1>2, <1>3, <1>5, MovedIs
  <2>2. function.kind[i] # "phi"
    BY <1>4, MovableIs
  <2>3. \A j \in Instrs : function.kind[j] = "phi" =>
          DOMAIN function.operands[j] = Predecessors(BlockOf(at', j))
    BY <2>1, <2>2 DEF EffectsInv, PhisIn
  <2>4. QED
    BY <1>2, <2>3 DEF PhisIn
<1>7. ASSUME NEW path \in Seq(Blocks), IsPath(path)
      PROVE  SameRun(path)'
  <2>1. PICK x : x = Execute(function, function.original, path)
    OBVIOUS
  <2>2. PICK y : y = Execute(function, at, path)
    OBVIOUS
  <2>3. PICK z : z = Execute(function, at', path)
    OBVIOUS
  <2>4. y.effects = x.effects
        /\ \A j \in Instrs : function.kind[j] \notin Hoistable => y.env[j] = x.env[j]
    BY <1>7, <2>1, <2>2 DEF EffectsInv, SameRun
  <2>5. Agree(y, z, Instrs \ {i})
    BY <1>2, <1>4, <1>7, <2>2, <2>3, PathAgrees DEF EffectsInv
  <2>6. z.effects = x.effects
        /\ \A j \in Instrs : function.kind[j] \notin Hoistable => z.env[j] = x.env[j]
    BY <1>2, <2>4, <2>5 DEF Agree
  <2>7. QED
    BY <1>2, <2>1, <2>3, <2>6 DEF SameRun
<1>8. QED
  BY <1>6, <1>7 DEF EffectsInv

LEMMA EffectsInvariant ==
  Spec => []EffectsInv
<1>1. Init => EffectsInv
  BY InitEffects
<1>2. OrderInv /\ EffectsInv /\ [Next]_vars => EffectsInv'
  <2> SUFFICES ASSUME OrderInv, EffectsInv, [Next]_vars
               PROVE  EffectsInv'
    OBVIOUS
  <2>1. CASE Hoist
    BY <2>1, HoistEffects
  <2>2. CASE BeginLoop \/ BeginBlock \/ Keep \/ EndLoop \/ Finished \/ UNCHANGED vars
    <3>1. function' = function /\ at' = at
      BY <2>2 DEF BeginLoop, BeginBlock, Keep, EndLoop, Finished, vars
    <3>2. PhisIn(function, at)'
      BY <3>1 DEF EffectsInv, PhisIn
    <3>3. ASSUME NEW path \in Seq(Blocks), IsPath(path)
          PROVE  SameRun(path)'
      BY <3>1, <3>3 DEF EffectsInv, SameRun
    <3>4. QED
      BY <3>2, <3>3 DEF EffectsInv
  <2>3. QED
    BY <2>1, <2>2 DEF Next
<1>3. QED
  BY <1>1, <1>2, OrderInvariant, PTL DEF Spec

(* The pass preserves what a function does: on every path from the entry   *)
(* the same effects with the same operands in the same order, and the same *)
(* values in all that is not hoisted.                                      *)
THEOREM EffectsPreserved ==
  Spec => []SameEffects
<1>1. EffectsInv => SameEffects
  <2>1. SUFFICES ASSUME EffectsInv, NEW path \in CompletePaths
                 PROVE  SameRun(path)
    BY DEF SameEffects, SameRun
  <2>2. PathLength \in Nat \ {0}
    BY GraphIs DEF PathLength
  <2>3. IsPath(path) /\ path \in Seq(Blocks)
    BY <2>2, PathsAre DEF CompletePaths, IsPath
  <2>4. QED
    BY <2>1, <2>3 DEF EffectsInv
<1>2. QED
  BY <1>1, EffectsInvariant, PTL
============================================================================
