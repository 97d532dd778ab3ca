-------------------------- MODULE ConstProp_proofs --------------------------
(***************************************************************************)
(* Proofs about the constant propagation pass, for every width of the      *)
(* integers and every function.                                            *)
(***************************************************************************)
EXTENDS ConstProp, FiniteSets, FiniteSetTheorems, WellFoundedInduction, TLAPS

----------------------------------------------------------------------------
(* Induction, stated over sets instead of predicates: a set that holds the *)
(* first number and the successor of each of its members holds them all.   *)

(* Induction over the natural numbers.                                     *)
LEMMA SetNatInduction ==
  ASSUME NEW S, 0 \in S, \A n \in Nat : n \in S => n + 1 \in S
  PROVE  Nat \subseteq S
<1> DEFINE T == {n \in Nat : n \notin S}
           R == {ss \in Nat \X Nat : ss[1] < ss[2]}
<1>1. SUFFICES ASSUME T # {} PROVE FALSE
  OBVIOUS
<1>2. IsWellFoundedOn(R, Nat)
  BY NatLessThanWellFounded DEF OpToRel
<1>3. PICK x \in T : \A y \in T : <<y, x>> \notin R
  <2> HIDE DEF R
  <2> QED BY <1>1, <1>2, WFMin
<1>4. x # 0 /\ x \in Nat
  OBVIOUS
<1>5. x - 1 \in Nat /\ x - 1 < x /\ (x - 1) + 1 = x
  BY <1>4
<1>6. x - 1 \in S
  BY <1>3, <1>5
<1>7. QED
  BY <1>5, <1>6

(* Induction up to a bound.                                                *)
LEMMA SetIntervalInduction ==
  ASSUME NEW Top \in Nat, NEW S, 0 \in S,
         \A n \in 0 .. Top - 1 : n \in S => n + 1 \in S
  PROVE  0 .. Top \subseteq S
<1> DEFINE T == {n \in Nat : n <= Top => n \in S}
<1>1. 0 \in T /\ \A n \in Nat : n \in T => n + 1 \in T
  OBVIOUS
<1>2. Nat \subseteq T
  <2> HIDE DEF T
  <2> QED BY <1>1, SetNatInduction
<1>3. QED
  BY <1>2

(* A function whose value at each number up to Top comes from the number and *)
(* the value before it.                                                    *)
IsRecursion(f, Top, D, a, step) ==
  f \in [0 .. Top -> D] /\ f[0] = a /\ \A n \in 1 .. Top : f[n] = step[<<n, f[n - 1]>>]

(* There is such a function.                                               *)
LEMMA Recursion ==
  ASSUME NEW Top \in Nat, NEW D, NEW a \in D, NEW step \in [(1 .. Top) \X D -> D]
  PROVE  \E f : IsRecursion(f, Top, D, a, step)
<1> DEFINE Recurs(f, m) == f[0] = a /\ \A n \in 1 .. m : f[n] = step[<<n, f[n - 1]>>]
           S == {m \in 0 .. Top : \E f \in [0 .. m -> D] : Recurs(f, m)}
<1>1. 0 \in S
  <2> DEFINE f == [k \in 0 .. 0 |-> a]
  <2>1. f \in [0 .. 0 -> D] /\ Recurs(f, 0)
    OBVIOUS
  <2>2. 0 \in 0 .. Top
    OBVIOUS
  <2> HIDE DEF f, Recurs
  <2>3. QED
    BY <2>1, <2>2
<1>2. ASSUME NEW n \in 0 .. Top - 1, n \in S
      PROVE  n + 1 \in S
  <2> PICK f \in [0 .. n -> D] : Recurs(f, n)
    BY <1>2
  <2> DEFINE g == [k \in 0 .. n + 1 |-> IF k = n + 1 THEN step[<<n + 1, f[n]>>] ELSE f[k]]
  <2>1. g \in [0 .. n + 1 -> D]
    <3>1. n + 1 \in 1 .. Top /\ n \in 0 .. n
      OBVIOUS
    <3>2. step[<<n + 1, f[n]>>] \in D
      BY <3>1
    <3>3. \A k \in 0 .. n + 1 : k # n + 1 => k \in 0 .. n
      OBVIOUS
    <3>4. QED
      BY <3>2, <3>3
  <2>2. g[0] = a
    OBVIOUS
  <2>3. ASSUME NEW k \in 1 .. n + 1
        PROVE  g[k] = step[<<k, g[k - 1]>>]
    <3>1. CASE k = n + 1
      <4>1. k - 1 = n /\ n # n + 1 /\ n \in 0 .. n + 1
        BY <3>1
      <4>2. g[k - 1] = f[n]
        BY <4>1
      <4>3. g[n + 1] = step[<<n + 1, f[n]>>]
        BY <4>1
      <4> HIDE DEF g
      <4>4. QED
        BY <3>1, <4>2, <4>3
    <3>2. CASE k # n + 1
      <4>1. k \in 1 .. n /\ k - 1 \in 0 .. n /\ k - 1 # n + 1
        BY <3>2
      <4>2. QED
        BY <4>1
    <3>3. QED
      BY <3>1, <3>2
  <2>4. Recurs(g, n + 1)
    BY <2>2, <2>3
  <2>5. n + 1 \in 0 .. Top
    OBVIOUS
  <2> HIDE DEF g, Recurs
  <2>6. QED
    BY <2>1, <2>4, <2>5
<1>3. Top \in S
  <2> HIDE DEF S
  <2>1. QED
    BY <1>1, <1>2, SetIntervalInduction
<1>4. QED
  BY <1>3 DEF IsRecursion

----------------------------------------------------------------------------
(* Division by a positive number.                                          *)
LEMMA Division ==
  ASSUME NEW a \in Int, NEW b \in Nat, b > 0
  PROVE  /\ a \div b \in Int /\ a % b \in 0 .. b - 1
         /\ a = b * (a \div b) + (a % b)
         /\ a \in Nat => a \div b \in 0 .. a
OBVIOUS

(* Quotient and remainder are determined by what they add up to.           *)
LEMMA DivisionUnique ==
  ASSUME NEW a \in Int, NEW b \in Nat, b > 0, NEW q \in Int,
         NEW r \in 0 .. b - 1, a = b * q + r
  PROVE  a \div b = q /\ a % b = r
OBVIOUS

----------------------------------------------------------------------------
(* Arithmetic                                                              *)

(* The recursive function Power is there, and doubles from 1.              *)
LEMMA PowerDoubles ==
  /\ Power \in [0 .. Width -> Nat] /\ Power[0] = 1
  /\ \A k \in 1 .. Width : Power[k] = 2 * Power[k - 1]
<1> DEFINE Equation(f) == f = [k \in 0 .. Width |-> IF k = 0 THEN 1 ELSE 2 * f[k - 1]]
           step == [p \in (1 .. Width) \X Nat |-> 2 * p[2]]
<1>1. Width \in Nat
  BY WidthAssumption
<1>2. step \in [(1 .. Width) \X Nat -> Nat] /\ 1 \in Nat
  OBVIOUS
<1>3. PICK f : IsRecursion(f, Width, Nat, 1, step)
  <2> HIDE DEF step
  <2>1. QED
    BY <1>1, <1>2, Recursion
<1>4. Equation(f)
  <2>1. f \in [0 .. Width -> Nat] /\ f[0] = 1
    BY <1>3 DEF IsRecursion
  <2>2. ASSUME NEW k \in 1 .. Width
        PROVE  f[k] = 2 * f[k - 1]
    <3>1. k - 1 \in 0 .. Width
      BY <1>1
    <3>2. f[k - 1] \in Nat
      BY <2>1, <3>1
    <3>3. f[k] = step[<<k, f[k - 1]>>]
      BY <1>3 DEF IsRecursion
    <3>4. QED
      BY <3>2, <3>3
  <2>3. \A k \in 0 .. Width : k # 0 => k \in 1 .. Width
    BY <1>1
  <2>4. QED
    BY <2>1, <2>2, <2>3
<1>5. Equation(Power)
  BY <1>4 DEF Power
<1>6. Power \in [0 .. Width -> Nat]
  <2> DEFINE S == {k \in 0 .. Width : Power[k] \in Nat}
  <2>1. 0 \in S
    BY <1>1, <1>5
  <2>2. ASSUME NEW k \in 0 .. Width - 1, k \in S PROVE k + 1 \in S
    <3>1. k + 1 \in 0 .. Width /\ k + 1 # 0 /\ (k + 1) - 1 = k
      BY <1>1
    <3>2. Power[k + 1] = 2 * Power[k]
      BY <1>5, <3>1
    <3>3. QED
      BY <2>2, <3>1, <3>2
  <2>3. 0 .. Width \subseteq S
    <3> HIDE DEF S
    <3>1. QED
      BY <1>1, <2>1, <2>2, SetIntervalInduction
  <2>4. QED
    BY <1>5, <2>3
<1>7. QED
  BY <1>1, <1>5, <1>6

(* Powers are positive.                                                    *)
LEMMA PowerPositive ==
  \A k \in 0 .. Width : Power[k] \in Nat /\ Power[k] > 0
<1> DEFINE S == {k \in 0 .. Width : Power[k] > 0}
<1>1. Width \in Nat
  BY WidthAssumption
<1>2. 0 \in S
  BY <1>1, PowerDoubles
<1>3. ASSUME NEW k \in 0 .. Width - 1, k \in S PROVE k + 1 \in S
  <2>1. k + 1 \in 1 .. Width /\ k + 1 \in 0 .. Width /\ (k + 1) - 1 = k /\ k \in 0 .. Width
    BY <1>1
  <2>2. Power[k + 1] = 2 * Power[k] /\ Power[k] \in Nat
    BY <2>1, PowerDoubles
  <2>3. QED
    BY <1>3, <2>1, <2>2
<1>4. 0 .. Width \subseteq S
  <2> HIDE DEF S
  <2>1. QED
    BY <1>1, <1>2, <1>3, SetIntervalInduction
<1>5. QED
  BY <1>4, PowerDoubles

LEMMA ModulusType ==
  /\ Modulus \in Nat /\ Modulus >= 2
  /\ 0 \in Words /\ 1 \in Words /\ Words \subseteq Nat
<1>1. Width \in Nat /\ Width \in 1 .. Width /\ Width - 1 \in 0 .. Width
  BY WidthAssumption
<1>2. Modulus = 2 * Power[Width - 1]
  BY <1>1, PowerDoubles DEF Modulus
<1>3. Power[Width - 1] \in Nat /\ Power[Width - 1] > 0
  BY <1>1, PowerPositive
<1>4. Modulus \in Nat /\ Modulus >= 2
  BY <1>2, <1>3
<1>5. QED
  BY <1>4 DEF Words

LEMMA WordType ==
  /\ \A n \in Int : Word(n) \in Words
  /\ \A w \in Words : Word(w) = w /\ Signed(w) \in Int /\ Word(Signed(w)) = w
<1>1. Modulus \in Nat /\ Modulus > 0
  BY ModulusType
<1>2. ASSUME NEW n \in Int PROVE Word(n) \in Words
  BY <1>1 DEF Word, Words
<1>3. ASSUME NEW w \in Words
      PROVE  Word(w) = w /\ Signed(w) \in Int /\ Word(Signed(w)) = w
  <2>1. w \in Int /\ w \in 0 .. Modulus - 1
    BY <1>1 DEF Words
  <2>2. Word(w) = w
    BY <1>1, <2>1 DEF Word
  <2>3. (w - Modulus) % Modulus = w
    <3>1. w - Modulus \in Int /\ w - Modulus = Modulus * (- 1) + w
      BY <1>1, <2>1
    <3>2. QED
      BY <1>1, <2>1, <3>1, DivisionUnique
  <2>4. QED
    BY <1>1, <2>1, <2>2, <2>3 DEF Signed, Word
<1>4. QED
  BY <1>2, <1>3

(* The sums that FromBits adds up.                                         *)
BitSums(f, bits) ==
  /\ f \in [0 .. Width -> Nat] /\ f[0] = 0
  /\ \A k \in 1 .. Width : f[k] = f[k - 1] + bits[k - 1] * Power[k - 1]
  /\ FromBits(bits) = f[Width]

LEMMA FromBitsAdds ==
  ASSUME NEW bits \in [Bits -> {0, 1}]
  PROVE  \E f : BitSums(f, bits)
<1> DEFINE Equation(f) == f = [k \in 0 .. Width |->
                                 IF k = 0 THEN 0
                                 ELSE f[k - 1] + bits[k - 1] * Power[k - 1]]
           sum[k \in 0 .. Width] ==
             IF k = 0 THEN 0 ELSE sum[k - 1] + bits[k - 1] * Power[k - 1]
           step == [p \in (1 .. Width) \X Nat |->
                      p[2] + bits[p[1] - 1] * Power[p[1] - 1]]
<1>1. Width \in Nat
  BY WidthAssumption
<1>2. \A k \in 1 .. Width : /\ k - 1 \in 0 .. Width
                            /\ bits[k - 1] \in {0, 1} /\ Power[k - 1] \in Nat
                            /\ bits[k - 1] * Power[k - 1] \in Nat
  <2>1. TAKE k \in 1 .. Width
  <2>2. k - 1 \in 0 .. Width /\ k - 1 \in Bits
    BY <1>1 DEF Bits
  <2>3. bits[k - 1] \in {0, 1} /\ Power[k - 1] \in Nat
    BY <2>2, PowerPositive
  <2>4. QED
    BY <2>2, <2>3
<1>3. step \in [(1 .. Width) \X Nat -> Nat] /\ 0 \in Nat
  BY <1>2
<1>4. PICK f : IsRecursion(f, Width, Nat, 0, step)
  <2> HIDE DEF step
  <2>1. QED
    BY <1>1, <1>3, Recursion
<1>5. f \in [0 .. Width -> Nat] /\ f[0] = 0
  BY <1>4 DEF IsRecursion
<1>6. ASSUME NEW k \in 1 .. Width
      PROVE  f[k] = f[k - 1] + bits[k - 1] * Power[k - 1]
  <2>1. k - 1 \in 0 .. Width
    BY <1>1
  <2>2. f[k - 1] \in Nat
    BY <1>5, <2>1
  <2>3. f[k] = step[<<k, f[k - 1]>>]
    BY <1>4 DEF IsRecursion
  <2>4. QED
    BY <2>2, <2>3
<1>7. Equation(f)
  <2>1. \A k \in 0 .. Width : k # 0 => k \in 1 .. Width
    BY <1>1
  <2>2. QED
    BY <1>5, <1>6, <2>1
<1>8. Equation(sum)
  BY <1>7
<1>9. FromBits(bits) = sum[Width]
  BY DEF FromBits
<1>10. PICK g : Equation(g) /\ FromBits(bits) = g[Width]
  <2> HIDE DEF sum, Equation
  <2>1. QED
    BY <1>8, <1>9
<1>11. DOMAIN g = 0 .. Width /\ g[0] = 0 /\ g = [k \in 0 .. Width |-> g[k]]
  BY <1>1, <1>10
<1>12. \A k \in 1 .. Width : g[k] = g[k - 1] + bits[k - 1] * Power[k - 1]
  BY <1>1, <1>10
<1>13. \A k \in 0 .. Width : g[k] \in Nat
  <2> DEFINE S == {k \in 0 .. Width : g[k] \in Nat}
  <2>1. 0 \in S
    BY <1>1, <1>11
  <2>2. ASSUME NEW k \in 0 .. Width - 1, k \in S PROVE k + 1 \in S
    <3>1. k + 1 \in 0 .. Width /\ k + 1 \in 1 .. Width /\ (k + 1) - 1 = k
      BY <1>1
    <3>2. g[k + 1] = g[k] + bits[k] * Power[k] /\ bits[k] * Power[k] \in Nat
      BY <1>2, <1>12, <3>1
    <3>3. QED
      BY <2>2, <3>1, <3>2
  <2>3. 0 .. Width \subseteq S
    <3> HIDE DEF S
    <3>1. QED
      BY <1>1, <2>1, <2>2, SetIntervalInduction
  <2>4. QED
    BY <2>3
<1>14. g \in [0 .. Width -> Nat]
  BY <1>11, <1>13
<1>15. QED
  BY <1>10, <1>11, <1>12, <1>14 DEF BitSums

(* Bits make a number of Width bits.                                       *)
LEMMA FromBitsType ==
  ASSUME NEW bits \in [Bits -> {0, 1}]
  PROVE  FromBits(bits) \in Words
<1>1. Width \in Nat
  BY WidthAssumption
<1>2. PICK f : BitSums(f, bits)
  BY FromBitsAdds
<1> DEFINE S == {k \in 0 .. Width : f[k] < Power[k]}
<1>3. 0 \in S
  BY <1>1, <1>2, PowerDoubles DEF BitSums
<1>4. ASSUME NEW k \in 0 .. Width - 1, k \in S PROVE k + 1 \in S
  <2>1. /\ k + 1 \in 0 .. Width /\ k + 1 \in 1 .. Width /\ (k + 1) - 1 = k
        /\ k \in 0 .. Width /\ k \in Bits
    BY <1>1 DEF Bits
  <2>2. f[k + 1] = f[k] + bits[k] * Power[k] /\ f[k] \in Nat
    BY <1>2, <2>1 DEF BitSums
  <2>3. Power[k + 1] = 2 * Power[k] /\ Power[k] \in Nat
    BY <2>1, PowerDoubles, PowerPositive
  <2>4. bits[k] * Power[k] \in {0, Power[k]}
    BY <2>1, <2>3
  <2>5. f[k + 1] < Power[k + 1]
    BY <1>4, <2>2, <2>3, <2>4
  <2>6. QED
    BY <2>1, <2>5
<1>5. 0 .. Width \subseteq S
  <2> HIDE DEF S
  <2>1. QED
    BY <1>1, <1>3, <1>4, SetIntervalInduction
<1>6. f[Width] < Power[Width] /\ f[Width] \in Nat /\ FromBits(bits) = f[Width]
  BY <1>1, <1>2, <1>5 DEF BitSums
<1>7. QED
  BY <1>6, ModulusType DEF Words, Modulus

(* Taking a number apart into its bits and putting them together again.    *)
LEMMA BitsOfWord ==
  ASSUME NEW w \in Words, NEW bits, bits = [k \in Bits |-> Bit(w, k)]
  PROVE  FromBits(bits) = w
<1>1. Width \in Nat /\ w \in Nat /\ w < Modulus /\ Modulus \in Nat
  BY WidthAssumption, ModulusType DEF Words
<1>2. \A k \in Bits : bits[k] = Bit(w, k) /\ k \in 0 .. Width
  BY <1>1 DEF Bits
<1>3. ASSUME NEW k \in Bits PROVE Bit(w, k) \in {0, 1}
  <2>1. Power[k] \in Nat /\ Power[k] > 0
    BY <1>2, PowerPositive
  <2>2. w \div Power[k] \in Int
    BY <1>1, <2>1, Division
  <2>3. QED
    BY <2>2 DEF Bit
<1>4. bits \in [Bits -> {0, 1}]
  BY <1>3
<1>5. PICK f : BitSums(f, bits)
  BY <1>4, FromBitsAdds
<1> DEFINE S == {k \in 0 .. Width : f[k] = w % Power[k]}
<1>6. 0 \in S
  <2>1. w % 1 = 0
    BY <1>1
  <2>2. QED
    BY <1>1, <1>5, <2>1, PowerDoubles DEF BitSums
<1>7. ASSUME NEW k \in 0 .. Width - 1, k \in S PROVE k + 1 \in S
  <2>1. /\ k + 1 \in 0 .. Width /\ k + 1 \in 1 .. Width /\ (k + 1) - 1 = k
        /\ k \in 0 .. Width /\ k \in Bits
    BY <1>1 DEF Bits
  <2>2. f[k + 1] = f[k] + bits[k] * Power[k] /\ f[k] \in Nat
    BY <1>5, <2>1 DEF BitSums
  <2>3. PICK p : p = Power[k] /\ p \in Nat /\ p > 0 /\ Power[k + 1] = 2 * p
    BY <2>1, PowerDoubles, PowerPositive
  <2>4. PICK q, r : /\ q = w \div p /\ r = w % p /\ q \in Int /\ r \in 0 .. p - 1
                    /\ w = p * q + r
    <3>1. w \in Int /\ p \in Nat /\ p > 0
      BY <1>1, <2>3
    <3>2. w \div p \in Int /\ w % p \in 0 .. p - 1 /\ w = p * (w \div p) + (w % p)
      BY <3>1, Division
    <3>3. QED
      BY <3>2
  <2>5. PICK h, b : /\ h = q \div 2 /\ b = q % 2 /\ h \in Int /\ b \in 0 .. 1
                    /\ q = 2 * h + b
    BY <2>4, Division
  <2>6. f[k + 1] = r + b * p
    BY <1>2, <1>7, <2>1, <2>2, <2>3, <2>4, <2>5 DEF Bit
  <2>7. w = (2 * p) * h + (r + b * p) /\ r + b * p \in 0 .. 2 * p - 1
    <3>1. PICK x : x = p * h
      OBVIOUS
    <3>2. x \in Int /\ p * (2 * h) = 2 * x /\ (2 * p) * h = 2 * x
          /\ p * (2 * h + 1) = 2 * x + p
      BY <2>3, <2>5, <3>1
    <3>3. CASE b = 0
      <4>1. q = 2 * h /\ r + b * p = r
        BY <2>3, <2>4, <2>5, <3>3
      <4>2. QED
        BY <2>3, <2>4, <3>2, <4>1
    <3>4. CASE b = 1
      <4>1. q = 2 * h + 1 /\ r + b * p = r + p
        BY <2>3, <2>4, <2>5, <3>4
      <4>2. r + p \in 0 .. 2 * p - 1
        <5>1. p \in Nat /\ r \in Int /\ r >= 0 /\ r <= p - 1
          BY <2>3, <2>4
        <5>2. QED
          BY <5>1
      <4>3. w = (2 * x + p) + r
        BY <2>4, <3>2, <4>1
      <4>4. w = 2 * x + (r + p)
        BY <2>3, <2>4, <3>2, <4>3
      <4>5. QED
        BY <3>2, <4>1, <4>2, <4>4
    <3>5. QED
      BY <2>5, <3>3, <3>4
  <2>8. w % (2 * p) = r + b * p
    <3>1. PICK m, n : m = 2 * p /\ n = r + b * p
      OBVIOUS
    <3>2. w \in Int /\ m \in Nat /\ m > 0 /\ n \in 0 .. m - 1 /\ w = m * h + n
      BY <1>1, <2>3, <2>7, <3>1
    <3>3. w % m = n
      BY <2>5, <3>2, DivisionUnique
    <3>4. QED
      BY <3>1, <3>3
  <2>9. QED
    BY <2>1, <2>3, <2>6, <2>8
<1>8. 0 .. Width \subseteq S
  <2> HIDE DEF S
  <2>1. QED
    BY <1>1, <1>6, <1>7, SetIntervalInduction
<1>9. f[Width] = w % Modulus /\ FromBits(bits) = f[Width]
  BY <1>1, <1>5, <1>8 DEF BitSums, Modulus
<1>10. QED
  BY <1>1, <1>9

(* No bit, no number.                                                      *)
LEMMA NoBits ==
  ASSUME NEW bits, bits = [k \in Bits |-> 0]
  PROVE  FromBits(bits) = 0
<1>1. Width \in Nat /\ bits \in [Bits -> {0, 1}] /\ \A k \in Bits : bits[k] = 0
  BY WidthAssumption
<1>2. PICK f : BitSums(f, bits)
  BY <1>1, FromBitsAdds
<1> DEFINE S == {k \in 0 .. Width : f[k] = 0}
<1>3. 0 \in S
  BY <1>1, <1>2 DEF BitSums
<1>4. ASSUME NEW k \in 0 .. Width - 1, k \in S PROVE k + 1 \in S
  <2>1. /\ k + 1 \in 0 .. Width /\ k + 1 \in 1 .. Width /\ (k + 1) - 1 = k
        /\ k \in 0 .. Width /\ k \in Bits
    BY <1>1 DEF Bits
  <2>2. f[k + 1] = f[k] + 0 * Power[k] /\ Power[k] \in Nat
    BY <1>1, <1>2, <2>1, PowerPositive DEF BitSums
  <2>3. QED
    BY <1>4, <2>1, <2>2
<1>5. 0 .. Width \subseteq S
  <2> HIDE DEF S
  <2>1. QED
    BY <1>1, <1>3, <1>4, SetIntervalInduction
<1>6. QED
  BY <1>1, <1>2, <1>5 DEF BitSums

(* Division that rounds towards zero.                                      *)
LEMMA QuotientType ==
  ASSUME NEW a \in Int, NEW b \in Int, b # 0
  PROVE  Quotient(a, b) \in Int /\ Remainder(a, b) \in Int
<1>1. PICK m, d : m = (IF a < 0 THEN - a ELSE a) /\ d = (IF b < 0 THEN - b ELSE b)
  OBVIOUS
<1>2. m \in Int /\ d \in Nat /\ d > 0
  BY <1>1
<1>3. m \div d \in Int
  BY <1>2, Division
<1>4. Quotient(a, b) \in {m \div d, - (m \div d)}
  BY <1>1 DEF Quotient
<1>5. Quotient(a, b) \in Int
  BY <1>3, <1>4
<1>6. QED
  BY <1>5 DEF Remainder

(* The result of each operation on words.                                  *)
LEMMA APIntLinear ==
  ASSUME NEW a, NEW b
  PROVE  /\ APInt("add", a, b) = Word(a + b)
         /\ APInt("sub", a, b) = Word(a - b)
         /\ APInt("mul", a, b) = Word(a * b)
BY DEF APInt

LEMMA APIntShifts ==
  ASSUME NEW a, NEW b, NEW shift, shift = MinOf(b, Width)
  PROVE  /\ APInt("shl", a, b) = Word(a * Power[shift])
         /\ APInt("ashr", a, b) = Word(Signed(a) \div Power[shift])
         /\ APInt("lshr", a, b) = a \div Power[shift]
BY DEF APInt

LEMMA APIntDivisions ==
  ASSUME NEW a, NEW b
  PROVE  /\ APInt("udiv", a, b) = a \div b
         /\ APInt("sdiv", a, b) = Word(Quotient(Signed(a), Signed(b)))
         /\ APInt("urem", a, b) = a % b
         /\ APInt("srem", a, b) = Word(Remainder(Signed(a), Signed(b)))
BY DEF APInt

AndBits(a, b) == [k \in Bits |-> Bit(a, k) * Bit(b, k)]
OrBits(a, b) == [k \in Bits |-> IF Bit(a, k) + Bit(b, k) > 0 THEN 1 ELSE 0]
XorBits(a, b) == [k \in Bits |-> (Bit(a, k) + Bit(b, k)) % 2]

LEMMA APIntBits ==
  ASSUME NEW a, NEW b
  PROVE  /\ APInt("and", a, b) = FromBits(AndBits(a, b))
         /\ APInt("or", a, b) = FromBits(OrBits(a, b))
         /\ APInt("xor", a, b) = FromBits(XorBits(a, b))
BY DEF APInt, AndBits, OrBits, XorBits

LEMMA BitType ==
  ASSUME NEW w \in Words, NEW k \in Bits
  PROVE  Bit(w, k) \in {0, 1}
<1>1. k \in 0 .. Width /\ w \in Int
  BY WidthAssumption, ModulusType DEF Bits
<1>2. w \div Power[k] \in Int
  BY <1>1, PowerPositive, Division
<1>3. QED
  BY <1>2 DEF Bit

LEMMA SignedType ==
  ASSUME NEW w \in Words
  PROVE  Signed(w) \in Int /\ (w # 0 => Signed(w) # 0)
BY WordType, ModulusType DEF Signed, Words

(* Arithmetic on words yields words, but for a division by zero.           *)
LEMMA APIntType ==
  ASSUME NEW op \in AllOpcodes, NEW a \in Words, NEW b \in Words,
         op \in Divisions => b # 0
  PROVE  APInt(op, a, b) \in Words
<1>1. /\ a \in Nat /\ b \in Nat /\ a < Modulus /\ b < Modulus /\ Modulus \in Nat
      /\ Width \in Nat
  BY ModulusType, WidthAssumption DEF Words
<1>2. PICK shift : shift = MinOf(b, Width)
  OBVIOUS
<1>3. shift \in 0 .. Width
  BY <1>1, <1>2 DEF MinOf
<1>4. Power[shift] \in Nat /\ Power[shift] > 0
  BY <1>3, PowerPositive
<1>5. CASE op \in {"add", "sub", "mul"}
  <2>1. a + b \in Int /\ a - b \in Int /\ a * b \in Int
    BY <1>1
  <2>2. QED
    <3>1. APInt(op, a, b) \in {Word(a + b), Word(a - b), Word(a * b)}
      BY <1>5, APIntLinear
    <3>2. Word(a + b) \in Words /\ Word(a - b) \in Words /\ Word(a * b) \in Words
      BY <2>1, WordType
    <3>3. QED
      BY <3>1, <3>2
<1>6. CASE op = "shl"
  <2>1. a * Power[shift] \in Int
    BY <1>1, <1>4
  <2>2. QED
    <3>1. APInt(op, a, b) = Word(a * Power[shift])
      BY <1>2, <1>6, APIntShifts
    <3>2. Word(a * Power[shift]) \in Words
      BY <2>1, WordType
    <3>3. QED
      BY <3>1, <3>2
<1>7. CASE op = "ashr"
  <2>1. Signed(a) \div Power[shift] \in Int
    BY <1>4, SignedType, Division
  <2>2. QED
    <3>1. APInt(op, a, b) = Word(Signed(a) \div Power[shift])
      BY <1>2, <1>7, APIntShifts
    <3>2. Word(Signed(a) \div Power[shift]) \in Words
      BY <2>1, WordType
    <3>3. QED
      BY <3>1, <3>2
<1>8. CASE op = "lshr"
  <2>1. a \div Power[shift] \in 0 .. a
    BY <1>1, <1>4, Division
  <2>2. a \div Power[shift] \in Words
    BY <1>1, <2>1 DEF Words
  <2>3. QED
    BY <1>2, <1>8, <2>2, APIntShifts
<1>9. CASE op = "udiv"
  <2>1. b > 0
    BY <1>1, <1>9 DEF Divisions
  <2>2. a \div b \in 0 .. a
    BY <1>1, <2>1, Division
  <2>3. a \div b \in Words
    BY <1>1, <2>2 DEF Words
  <2>4. QED
    BY <1>9, <2>3, APIntDivisions
<1>10. CASE op = "urem"
  <2>1. b > 0
    BY <1>1, <1>10 DEF Divisions
  <2>2. a % b \in 0 .. b - 1
    BY <1>1, <2>1, Division
  <2>3. a % b \in Words
    BY <1>1, <2>2 DEF Words
  <2>4. QED
    BY <1>10, <2>3, APIntDivisions
<1>11. CASE op \in {"sdiv", "srem"}
  <2>1. b # 0
    BY <1>11 DEF Divisions
  <2>2. Signed(a) \in Int /\ Signed(b) \in Int /\ Signed(b) # 0
    BY <2>1, SignedType
  <2>3. Quotient(Signed(a), Signed(b)) \in Int /\ Remainder(Signed(a), Signed(b)) \in Int
    BY <2>2, QuotientType
  <2>4. QED
    <3>1. PICK q, r : /\ q = Quotient(Signed(a), Signed(b))
                      /\ r = Remainder(Signed(a), Signed(b))
      OBVIOUS
    <3>2. APInt(op, a, b) \in {Word(q), Word(r)}
      BY <1>11, <3>1, APIntDivisions
    <3>3. Word(q) \in Words /\ Word(r) \in Words
      BY <2>3, <3>1, WordType
    <3>4. QED
      BY <3>2, <3>3
<1>12. CASE op = "and"
  <2>1. PICK bits : bits = AndBits(a, b)
    OBVIOUS
  <2>2. bits \in [Bits -> {0, 1}]
    <3>1. ASSUME NEW k \in Bits PROVE Bit(a, k) * Bit(b, k) \in {0, 1}
      <4>1. Bit(a, k) \in {0, 1} /\ Bit(b, k) \in {0, 1}
        BY BitType
      <4>2. QED
        BY <4>1
    <3>2. QED
      BY <2>1, <3>1 DEF AndBits
  <2>3. QED
    <3>1. APInt(op, a, b) = FromBits(bits)
      BY <1>12, <2>1, APIntBits
    <3>2. QED
      BY <2>2, <3>1, FromBitsType
<1>13. CASE op = "or"
  <2>1. PICK bits : bits = OrBits(a, b)
    OBVIOUS
  <2>2. bits \in [Bits -> {0, 1}]
    BY <2>1 DEF OrBits
  <2>3. QED
    <3>1. APInt(op, a, b) = FromBits(bits)
      BY <1>13, <2>1, APIntBits
    <3>2. QED
      BY <2>2, <3>1, FromBitsType
<1>14. CASE op = "xor"
  <2>1. PICK bits : bits = XorBits(a, b)
    OBVIOUS
  <2>2. bits \in [Bits -> {0, 1}]
    <3>1. ASSUME NEW k \in Bits PROVE (Bit(a, k) + Bit(b, k)) % 2 \in {0, 1}
      <4>1. Bit(a, k) \in {0, 1} /\ Bit(b, k) \in {0, 1}
        BY BitType
      <4>2. QED
        BY <4>1
    <3>2. QED
      BY <2>1, <3>1 DEF XorBits
  <2>3. QED
    <3>1. APInt(op, a, b) = FromBits(bits)
      BY <1>14, <2>1, APIntBits
    <3>2. QED
      BY <2>2, <3>1, FromBitsType
<1>15. QED
  BY <1>5, <1>6, <1>7, <1>8, <1>9, <1>10, <1>11, <1>12, <1>13, <1>14 DEF AllOpcodes

LEMMA ZeroBits ==
  ASSUME NEW w \in Words
  PROVE  /\ AndBits(0, w) = [k \in Bits |-> 0] /\ AndBits(w, 0) = [k \in Bits |-> 0]
         /\ OrBits(0, w) = [k \in Bits |-> Bit(w, k)]
         /\ OrBits(w, 0) = [k \in Bits |-> Bit(w, k)]
         /\ XorBits(0, w) = [k \in Bits |-> Bit(w, k)]
         /\ XorBits(w, 0) = [k \in Bits |-> Bit(w, k)]
<1>1. ASSUME NEW k \in Bits PROVE Bit(0, k) = 0 /\ Bit(w, k) \in {0, 1}
  <2>1. k \in 0 .. Width
    BY WidthAssumption DEF Bits
  <2>2. Power[k] \in Nat /\ Power[k] > 0
    BY <2>1, PowerPositive
  <2>3. 0 \div Power[k] = 0
    BY <2>2
  <2>4. QED
    BY <2>3, BitType DEF Bit
<1>2. ASSUME NEW k \in Bits
      PROVE  /\ Bit(0, k) * Bit(w, k) = 0 /\ Bit(w, k) * Bit(0, k) = 0
             /\ (IF Bit(0, k) + Bit(w, k) > 0 THEN 1 ELSE 0) = Bit(w, k)
             /\ (IF Bit(w, k) + Bit(0, k) > 0 THEN 1 ELSE 0) = Bit(w, k)
             /\ (Bit(0, k) + Bit(w, k)) % 2 = Bit(w, k)
             /\ (Bit(w, k) + Bit(0, k)) % 2 = Bit(w, k)
  BY <1>1
<1>3. QED
  BY <1>2 DEF AndBits, OrBits, XorBits

(* What the rules for constants rely on.                                   *)
LEMMA BitwiseZero ==
  ASSUME NEW w \in Words
  PROVE  /\ APInt("and", 0, w) = 0 /\ APInt("and", w, 0) = 0
         /\ APInt("or", 0, w) = w /\ APInt("or", w, 0) = w
         /\ APInt("xor", 0, w) = w /\ APInt("xor", w, 0) = w
<1>1. PICK none : none = [k \in Bits |-> 0]
  OBVIOUS
<1>2. PICK all : all = [k \in Bits |-> Bit(w, k)]
  OBVIOUS
<1>3. FromBits(none) = 0 /\ FromBits(all) = w
  BY <1>1, <1>2, NoBits, BitsOfWord
<1>4. /\ AndBits(0, w) = none /\ AndBits(w, 0) = none /\ OrBits(0, w) = all
      /\ OrBits(w, 0) = all /\ XorBits(0, w) = all /\ XorBits(w, 0) = all
  BY <1>1, <1>2, ZeroBits
<1>5. QED
  BY <1>3, <1>4, APIntBits

LEMMA LinearZeroOne ==
  ASSUME NEW w \in Words
  PROVE  /\ APInt("add", 0, w) = w /\ APInt("add", w, 0) = w
         /\ APInt("sub", w, 0) = w /\ APInt("sub", w, w) = 0
         /\ APInt("mul", 0, w) = 0 /\ APInt("mul", w, 0) = 0
         /\ APInt("mul", 1, w) = w /\ APInt("mul", w, 1) = w
<1>1. w \in Nat /\ 0 \in Words
  BY ModulusType
<1>2. Word(w) = w /\ Word(0) = 0
  BY <1>1, WordType
<1>3. /\ 0 + w = w /\ w + 0 = w /\ w - 0 = w /\ w - w = 0
      /\ 0 * w = 0 /\ w * 0 = 0 /\ 1 * w = w /\ w * 1 = w
  BY <1>1
<1>4. QED
  BY <1>2, <1>3, APIntLinear

LEMMA ShiftZero ==
  ASSUME NEW w \in Words
  PROVE  /\ APInt("shl", 0, w) = 0 /\ APInt("shl", w, 0) = w
         /\ APInt("ashr", 0, w) = 0 /\ APInt("ashr", w, 0) = w
         /\ APInt("lshr", 0, w) = 0 /\ APInt("lshr", w, 0) = w
<1>1. w \in Nat /\ 0 \in Words /\ Width \in Nat /\ Word(0) = 0 /\ Word(w) = w
  BY ModulusType, WidthAssumption, WordType
<1>2. PICK shift : shift = MinOf(w, Width)
  OBVIOUS
<1>3. shift \in 0 .. Width
  BY <1>1, <1>2 DEF MinOf
<1>4. Power[shift] \in Nat /\ Power[shift] > 0
  BY <1>3, PowerPositive
<1>5. 0 * Power[shift] = 0 /\ 0 \div Power[shift] = 0
  BY <1>4
<1>6. Signed(0) = 0
  BY ModulusType DEF Signed
<1>7. APInt("shl", 0, w) = 0 /\ APInt("ashr", 0, w) = 0 /\ APInt("lshr", 0, w) = 0
  BY <1>1, <1>2, <1>5, <1>6, APIntShifts
<1>8. 0 = MinOf(0, Width) /\ Power[0] = 1
  BY <1>1, PowerDoubles DEF MinOf
<1>9. Signed(w) \in Int /\ Word(Signed(w)) = w
  BY WordType
<1>10. w * 1 = w /\ Signed(w) \div 1 = Signed(w) /\ w \div 1 = w
  BY <1>1, <1>9
<1>11. /\ APInt("shl", w, 0) = Word(w * Power[0])
       /\ APInt("ashr", w, 0) = Word(Signed(w) \div Power[0])
       /\ APInt("lshr", w, 0) = w \div Power[0]
  BY <1>8, APIntShifts
<1>12. QED
  BY <1>1, <1>7, <1>8, <1>9, <1>10, <1>11

LEMMA DivisionZeroOne ==
  ASSUME NEW w \in Words
  PROVE  /\ w # 0 => /\ APInt("udiv", 0, w) = 0 /\ APInt("urem", 0, w) = 0
                     /\ APInt("sdiv", 0, w) = 0 /\ APInt("srem", 0, w) = 0
         /\ w \notin {0, 1} => APInt("urem", 1, w) = 1
         /\ APInt("udiv", w, 1) = w /\ APInt("urem", w, 1) = 0
         /\ APInt("sdiv", w, 1) = w /\ APInt("srem", w, 1) = 0
<1>1. w \in Nat /\ 0 \in Words /\ Word(0) = 0
  BY ModulusType, WordType
<1>2. Signed(0) = 0 /\ Signed(w) \in Int /\ (w # 0 => Signed(w) # 0)
  BY ModulusType, SignedType DEF Signed
<1>3. ASSUME w # 0
      PROVE  /\ APInt("udiv", 0, w) = 0 /\ APInt("urem", 0, w) = 0
             /\ APInt("sdiv", 0, w) = 0 /\ APInt("srem", 0, w) = 0
  <2>1. 0 \div w = 0 /\ 0 % w = 0
    BY <1>1, <1>3
  <2>2. PICK d : d = Signed(w)
    OBVIOUS
  <2>3. d \in Int /\ d # 0
    BY <1>2, <1>3, <2>2
  <2>4. Quotient(0, d) = 0
    BY <2>3 DEF Quotient
  <2>5. Remainder(0, d) = 0
    BY <2>3, <2>4 DEF Remainder
  <2>6. QED
    BY <1>1, <1>2, <2>1, <2>2, <2>4, <2>5, APIntDivisions
<1>4. ASSUME w \notin {0, 1}
      PROVE  APInt("urem", 1, w) = 1
  <2>1. 1 % w = 1
    BY <1>1, <1>4
  <2>2. QED
    BY <2>1, APIntDivisions
<1>5. APInt("udiv", w, 1) = w /\ APInt("urem", w, 1) = 0
  <2>1. w \div 1 = w /\ w % 1 = 0
    BY <1>1
  <2>2. QED
    BY <2>1, APIntDivisions
<1>6. APInt("sdiv", w, 1) = w /\ APInt("srem", w, 1) = 0
  <2>1. PICK n : n = Signed(w) /\ n \in Int /\ Word(n) = w
    BY WordType
  <2>2. CASE Signed(1) = 1
    <3>1. Quotient(n, 1) = n
      BY <2>1 DEF Quotient
    <3>2. Remainder(n, 1) = 0
      BY <2>1, <3>1 DEF Remainder
    <3>3. QED
      BY <1>1, <2>1, <2>2, <3>1, <3>2, APIntDivisions
  <2>3. CASE Signed(1) # 1
    <3>1. Modulus = 2 /\ Signed(1) = - 1
      BY <2>3, ModulusType DEF Signed
    <3>2. w \in {0, 1}
      BY <3>1 DEF Words
    <3>3. n \in {0, - 1} /\ (n = 0 => w = 0) /\ (n = - 1 => w = 1)
      BY <2>1, <3>1, <3>2 DEF Signed
    <3>4. Quotient(0, - 1) = 0 /\ Quotient(- 1, - 1) = 1
      BY DEF Quotient
    <3>5. Remainder(n, - 1) = 0
      BY <3>3, <3>4 DEF Remainder
    <3>6. Word(1) = 1
      BY ModulusType, WordType
    <3>7. QED
      BY <1>1, <2>1, <3>1, <3>3, <3>4, <3>5, <3>6, APIntDivisions
  <2>4. QED
    BY <2>2, <2>3
<1>7. QED
  BY <1>3, <1>4, <1>5, <1>6

----------------------------------------------------------------------------
(* The shape of the function                                               *)

Constant == {Const(c) : c \in Words}

(* What an operator may refer to: what comes before it.                    *)
Known(i) ==
  Constant \cup {Unknown(u) : u \in 1 .. Unknowns}
    \cup {Ins(j) : j \in 1 .. i - 1} \cup {Neg(j) : j \in 1 .. i - 1}

Functions == [opcode : [Instrs -> Opcodes], lhs : [Instrs -> Known(N + 1)],
              rhs : [Instrs -> Known(N + 1)]]

Ordered(f) ==
  /\ f \in Functions
  /\ \A i \in Instrs : f.lhs[i] \in Known(i) /\ f.rhs[i] \in Known(i)

Shape ==
  /\ Ordered(function) /\ Ordered(original) /\ original.opcode = function.opcode
  /\ DOMAIN outside \subseteq Instrs
  /\ outside \in [DOMAIN outside -> Known(N + 1)]
  /\ next \in 1 .. N + 1 /\ ret \in BOOLEAN /\ updated \in -1 .. next - 2
  /\ reachableBlocks \in {{}, Instrs}
  /\ pc \in {"begin", "walk", "done", "failed"}
  /\ pc = "begin" /\ reachableBlocks = Instrs => next = N + 1
  /\ pc = "begin" /\ reachableBlocks = {} => next = 1
  /\ pc = "walk" => reachableBlocks = Instrs
  /\ pc = "done" => next = N + 1
  /\ pc = "failed" => next \in Instrs /\ DividesByZero(next)

(* What lies behind the walk needs no more work.                           *)
Settled(i) ==
  UseEmpty(i) \/ Replacement(i, Op(i), function.lhs[i], function.rhs[i]) = NoRule

FoldInv == Shape /\ \A i \in 1 .. next - 1 : Settled(i)

LEMMA ConstKind ==
  ASSUME NEW i, NEW x \in Known(i), IsConst(x)
  PROVE  x.n \in Words /\ x = Const(x.n)
BY DEF Known, Constant, IsConst, Const, Unknown, Ins, Neg

LEMMA KnownGrows ==
  ASSUME NEW i \in Int, NEW j \in Int, i <= j
  PROVE  Known(i) \subseteq Known(j)
BY DEF Known

LEMMA KnownBefore ==
  ASSUME NEW i \in Int, NEW j \in Int, i <= j
  PROVE  Ins(j) \notin Known(i)
<1>1. \A n : Ins(j) # Const(n) /\ Ins(j) # Unknown(n) /\ Ins(j) # Neg(n)
  BY DEF Const, Unknown, Ins, Neg
<1>2. \A k \in 1 .. i - 1 : Ins(j) # Ins(k)
  BY DEF Ins
<1>3. QED
  BY <1>1, <1>2 DEF Known, Constant

LEMMA ZeroOneConstant == Zero \in Constant /\ One \in Constant
BY ModulusType DEF Zero, One, Constant

(* An operator is replaced by one of its operands, by a constant, or by    *)
(* the negation put before it.                                             *)
LEMMA ReplacementIs ==
  ASSUME NEW i \in Instrs, NEW op \in Opcodes, NEW x \in Known(i), NEW y \in Known(i),
         ~ (op \in Divisions /\ IsConst(x) /\ y = Zero)
  PROVE  Replacement(i, op, x, y) \in {x, y, Neg(i), NoRule} \cup Constant
<1>1. CASE IsConst(x) /\ IsConst(y)
  <2>1. x.n \in Words /\ y.n \in Words /\ y = Const(y.n)
    BY <1>1, ConstKind
  <2>2. op \in Divisions => y.n # 0
    BY <1>1, <2>1 DEF Zero
  <2>3. op \in AllOpcodes
    BY OpcodesAssumption
  <2>4. APInt(op, x.n, y.n) \in Words
    BY <2>1, <2>2, <2>3, APIntType
  <2>5. Replacement(i, op, x, y) = Const(APInt(op, x.n, y.n))
    BY <1>1 DEF Replacement
  <2>6. QED
    BY <2>4, <2>5 DEF Constant
<1>2. CASE IsConst(x) /\ ~ IsConst(y)
  <2>1. Replacement(i, op, x, y) = LeftRule(i, op, x, y)
    BY <1>2 DEF Replacement
  <2>2. LeftRule(i, op, x, y) \in {y, Neg(i), NoRule, Zero, One}
    BY DEF LeftRule
  <2>3. QED
    BY <2>1, <2>2, ZeroOneConstant
<1>3. CASE ~ IsConst(x) /\ IsConst(y)
  <2>1. Replacement(i, op, x, y) = RightRule(op, x, y)
    BY <1>3 DEF Replacement
  <2>2. RightRule(op, x, y) \in {x, NoRule, Zero}
    BY DEF RightRule
  <2>3. QED
    BY <2>1, <2>2, ZeroOneConstant
<1>4. CASE ~ IsConst(x) /\ ~ IsConst(y)
  <2>1. Replacement(i, op, x, y) \in {Zero, NoRule}
    BY <1>4 DEF Replacement
  <2>2. QED
    BY <2>1, ZeroOneConstant
<1>5. QED
  BY <1>1, <1>2, <1>3, <1>4

LEMMA InitShape ==
  ASSUME Init
  PROVE  FoldInv
<1>1. PICK opcode \in [Instrs -> Opcodes],
           operands \in [Instrs -> OperandsBefore(N) \X OperandsBefore(N)] :
        /\ \A i \in Instrs : /\ operands[i][1] \in OperandsBefore(i)
                             /\ operands[i][2] \in OperandsBefore(i)
        /\ function = [opcode |-> opcode,
                       lhs |-> [i \in Instrs |-> operands[i][1]],
                       rhs |-> [i \in Instrs |-> operands[i][2]]]
  BY DEF Init
<1>2. PICK used \in SUBSET Instrs : outside = [i \in used |-> Ins(i)]
  BY DEF Init
<1>3. N \in Nat /\ Instrs = 1 .. N
  BY SizeAssumption DEF Instrs
<1>4. \A i \in Instrs : OperandsBefore(i) \subseteq Known(i)
  BY ConstantsAssumption DEF OperandsBefore, Known, Constant
<1>5. \A i \in Instrs : Known(i) \subseteq Known(N + 1)
  <2>1. TAKE i \in Instrs
  <2>2. i \in Int /\ N + 1 \in Int /\ i <= N + 1
    BY <1>3
  <2>3. QED
    BY <2>2, KnownGrows
<1>6. Ordered(function)
  <2>1. \A i \in Instrs : function.lhs[i] \in Known(i) /\ function.rhs[i] \in Known(i)
    BY <1>1, <1>4
  <2>2. /\ [i \in Instrs |-> operands[i][1]] \in [Instrs -> Known(N + 1)]
        /\ [i \in Instrs |-> operands[i][2]] \in [Instrs -> Known(N + 1)]
    BY <1>1, <1>4, <1>5
  <2>3. function \in Functions
    BY <1>1, <2>2 DEF Functions
  <2>4. QED
    BY <2>1, <2>3 DEF Ordered
<1>7. DOMAIN outside \subseteq Instrs /\ outside \in [DOMAIN outside -> Known(N + 1)]
  <2>1. \A i \in used : Ins(i) \in Known(N + 1)
    BY <1>3 DEF Known
  <2>2. QED
    BY <1>2, <2>1
<1>8. /\ original = function /\ reachableBlocks = {} /\ next = 1 /\ ret = FALSE
      /\ updated = -1 /\ pc = "begin"
  BY DEF Init
<1>9. reachableBlocks = Instrs => next = N + 1
  BY <1>3, <1>8
<1>10. Shape
  <2>1. /\ next \in 1 .. N + 1 /\ ret \in BOOLEAN /\ updated \in -1 .. next - 2
        /\ reachableBlocks \in {{}, Instrs}
        /\ pc \in {"begin", "walk", "done", "failed"}
    <3>1. next \in 1 .. N + 1 /\ updated \in -1 .. next - 2
      BY <1>3, <1>8
    <3>2. QED
      BY <1>8, <3>1
  <2>2. /\ pc = "begin" /\ reachableBlocks = Instrs => next = N + 1
        /\ pc = "begin" /\ reachableBlocks = {} => next = 1
        /\ pc # "walk" /\ pc # "done" /\ pc # "failed"
    BY <1>8, <1>9
  <2>3. Ordered(original) /\ original.opcode = function.opcode
    BY <1>6, <1>8
  <2>4. QED
    BY <1>6, <1>7, <2>1, <2>2, <2>3 DEF Shape
<1>11. \A i \in 1 .. next - 1 : Settled(i)
  BY <1>8
<1>12. QED
  BY <1>10, <1>11 DEF FoldInv

(* Replacing the uses of i by a value that is not i: what i refers to and  *)
(* what comes before it stays, and nothing uses i any more.                *)
LEMMA ReplacesUses ==
  ASSUME Shape, NEW i \in Instrs, NEW v \in Known(i) \cup {Neg(i)},
         ReplaceAllUsesWith(i, v)
  PROVE  /\ function'.opcode = function.opcode
         /\ \A j \in Instrs : /\ function'.lhs[j] = IF function.lhs[j] = Ins(i) THEN v
                                                    ELSE function.lhs[j]
                              /\ function'.rhs[j] = IF function.rhs[j] = Ins(i) THEN v
                                                    ELSE function.rhs[j]
         /\ DOMAIN outside' = DOMAIN outside
         /\ \A j \in DOMAIN outside : outside'[j] = IF outside[j] = Ins(i) THEN v
                                                    ELSE outside[j]
         /\ Ordered(function') /\ outside' \in [DOMAIN outside -> Known(N + 1)]
         /\ UseEmpty(i)'
<1>1. /\ function \in Functions
      /\ \A j \in Instrs : function.lhs[j] \in Known(j) /\ function.rhs[j] \in Known(j)
      /\ outside \in [DOMAIN outside -> Known(N + 1)]
  BY DEF Shape, Ordered
<1>2. /\ function' = [function EXCEPT
                        !.lhs = [j \in Instrs |-> IF @[j] = Ins(i) THEN v ELSE @[j]],
                        !.rhs = [j \in Instrs |-> IF @[j] = Ins(i) THEN v ELSE @[j]]]
      /\ outside' = [j \in DOMAIN outside |-> IF outside[j] = Ins(i) THEN v
                                              ELSE outside[j]]
  BY DEF ReplaceAllUsesWith
<1>3. /\ function'.opcode = function.opcode
      /\ function'.lhs = [j \in Instrs |-> IF function.lhs[j] = Ins(i) THEN v
                                           ELSE function.lhs[j]]
      /\ function'.rhs = [j \in Instrs |-> IF function.rhs[j] = Ins(i) THEN v
                                           ELSE function.rhs[j]]
      /\ function' = [opcode |-> function'.opcode, lhs |-> function'.lhs,
                      rhs |-> function'.rhs]
  BY <1>1, <1>2 DEF Functions
<1>4. N \in Nat /\ Instrs = 1 .. N
  BY SizeAssumption DEF Instrs
<1>5. \A j \in i + 1 .. N + 1 : v \in Known(j)
  <2>1. TAKE j \in i + 1 .. N + 1
  <2>2. Neg(i) \in Known(j)
    <3>1. i \in 1 .. j - 1
      BY <1>4
    <3>2. QED
      BY <3>1 DEF Known
  <2>3. Known(i) \subseteq Known(j)
    BY <1>4, KnownGrows
  <2>4. QED
    BY <2>2, <2>3
<1>6. \A j \in 1 .. N + 1 : Ins(i) \in Known(j) => v \in Known(j)
  <2>1. TAKE j \in 1 .. N + 1
  <2>2. CASE j <= i
    BY <1>4, <2>2, KnownBefore
  <2>3. CASE j > i
    BY <1>4, <1>5, <2>3
  <2>4. QED
    BY <1>4, <2>2, <2>3
<1>7. \A j \in Instrs : Known(j) \subseteq Known(N + 1)
  BY <1>4, KnownGrows
<1>8. Ordered(function')
  <2>1. \A j \in Instrs : function'.lhs[j] \in Known(j) /\ function'.rhs[j] \in Known(j)
    BY <1>1, <1>3, <1>4, <1>6
  <2>2. function'.lhs \in [Instrs -> Known(N + 1)] /\ function'.rhs \in [Instrs -> Known(N + 1)]
    BY <1>3, <1>7, <2>1
  <2>3. function'.opcode \in [Instrs -> Opcodes]
    BY <1>1, <1>3 DEF Functions
  <2>4. function' \in Functions
    BY <1>3, <2>2, <2>3 DEF Functions
  <2>5. QED
    BY <2>1, <2>4 DEF Ordered
<1>9. outside' \in [DOMAIN outside -> Known(N + 1)]
  <2>1. \A j \in DOMAIN outside : outside[j] \in Known(N + 1)
    BY <1>1
  <2>2. N + 1 \in 1 .. N + 1
    BY <1>4
  <2>3. QED
    BY <1>2, <1>6, <2>1, <2>2
<1>10. v # Ins(i)
  BY <1>4, KnownBefore DEF Ins, Neg
<1>11. UseEmpty(i)'
  BY <1>2, <1>3, <1>10 DEF UseEmpty
<1>12. QED
  BY <1>2, <1>3, <1>8, <1>9, <1>11

LEMMA KeepsBeginWalk ==
  ASSUME FoldInv, BeginWalk
  PROVE  FoldInv'
<1>1. Shape /\ N \in Nat /\ Instrs = 1 .. N
  BY SizeAssumption DEF FoldInv, Instrs
<1>2. /\ pc = "begin" /\ ret' = FALSE /\ reachableBlocks' = Instrs /\ pc' = "walk"
      /\ next' = (IF reachableBlocks = Instrs /\ N > 0 THEN N + 1 ELSE 1)
      /\ function' = function /\ outside' = outside /\ original' = original
      /\ updated' = updated
  BY DEF BeginWalk
<1>3. next' = next
  <2>1. CASE reachableBlocks = Instrs /\ N > 0
    BY <1>1, <1>2, <2>1 DEF Shape
  <2>2. CASE reachableBlocks = Instrs /\ ~ (N > 0)
    BY <1>1, <1>2, <2>2 DEF Shape
  <2>3. CASE reachableBlocks # Instrs
    BY <1>1, <1>2, <2>3 DEF Shape
  <2>4. QED
    BY <2>1, <2>2, <2>3
<1>4. Shape'
  BY <1>1, <1>2, <1>3 DEF Shape
<1>5. \A i \in 1 .. next - 1 : Settled(i)'
  BY <1>2 DEF FoldInv, Settled, UseEmpty, Op
<1>6. QED
  BY <1>3, <1>4, <1>5 DEF FoldInv

LEMMA KeepsEndWalk ==
  ASSUME FoldInv, EndWalk
  PROVE  FoldInv'
<1>1. Shape /\ N \in Nat /\ Instrs = 1 .. N
  BY SizeAssumption DEF FoldInv, Instrs
<1>2. /\ pc = "walk" /\ next = N + 1 /\ pc' \in {"begin", "done"}
      /\ function' = function /\ outside' = outside /\ original' = original
      /\ updated' = updated /\ reachableBlocks' = reachableBlocks /\ next' = next
      /\ ret' = ret
  BY DEF EndWalk
<1>3. Shape'
  <2>1. reachableBlocks = Instrs
    BY <1>1, <1>2 DEF Shape
  <2>2. reachableBlocks = {} => next = 1
    BY <1>1, <1>2, <2>1
  <2>3. QED
    BY <1>1, <1>2, <2>2 DEF Shape
<1>4. \A i \in 1 .. next - 1 : Settled(i)'
  BY <1>2 DEF FoldInv, Settled, UseEmpty, Op
<1>5. QED
  BY <1>2, <1>3, <1>4 DEF FoldInv

LEMMA KeepsAssertionFails ==
  ASSUME FoldInv, AssertionFails
  PROVE  FoldInv'
<1>1. Shape /\ N \in Nat /\ Instrs = 1 .. N
  BY SizeAssumption DEF FoldInv, Instrs
<1>2. /\ pc = "walk" /\ next \in Instrs /\ DividesByZero(next) /\ pc' = "failed"
      /\ function' = function /\ outside' = outside /\ original' = original
      /\ updated' = updated /\ reachableBlocks' = reachableBlocks /\ next' = next
      /\ ret' = ret
  BY DEF AssertionFails
<1>3. DividesByZero(next)'
  BY <1>2 DEF DividesByZero, Op
<1>4. Shape'
  BY <1>1, <1>2, <1>3 DEF Shape
<1>5. \A i \in 1 .. next - 1 : Settled(i)'
  BY <1>2 DEF FoldInv, Settled, UseEmpty, Op
<1>6. QED
  BY <1>2, <1>4, <1>5 DEF FoldInv

(* What was settled before operator i stays so when i is replaced.         *)
LEMMA StaysSettled ==
  ASSUME Shape, NEW i \in Instrs, NEW v,
         v \in {function.lhs[i], function.rhs[i], Neg(i)} \cup Constant,
         ReplaceAllUsesWith(i, v),
         NEW j \in 1 .. i - 1, Settled(j)
  PROVE  Settled(j)'
<1>1. N \in Nat /\ Instrs = 1 .. N /\ i \in Int /\ j \in Int /\ j \in Instrs /\ j <= i /\ j # i
  BY SizeAssumption DEF Instrs
<1>2. /\ function.lhs[i] \in Known(i) /\ function.rhs[i] \in Known(i)
      /\ function.lhs[j] \in Known(j) /\ function.rhs[j] \in Known(j)
  BY <1>1 DEF Shape, Ordered
<1>3. v \in Known(i) \cup {Neg(i)}
  BY <1>2 DEF Known
<1>4. /\ function'.opcode = function.opcode
      /\ \A k \in Instrs : /\ function'.lhs[k] = IF function.lhs[k] = Ins(i) THEN v
                                                 ELSE function.lhs[k]
                           /\ function'.rhs[k] = IF function.rhs[k] = Ins(i) THEN v
                                                 ELSE function.rhs[k]
      /\ DOMAIN outside' = DOMAIN outside
      /\ \A k \in DOMAIN outside : outside'[k] = IF outside[k] = Ins(i) THEN v
                                                 ELSE outside[k]
  BY <1>3, ReplacesUses
<1>5. CASE UseEmpty(j)
  <2>1. v # Ins(j)
    <3>1. function.lhs[i] # Ins(j) /\ function.rhs[i] # Ins(j)
      BY <1>5 DEF UseEmpty
    <3>2. Neg(i) # Ins(j) /\ \A c : Const(c) # Ins(j)
      BY DEF Neg, Ins, Const
    <3>3. QED
      BY <3>1, <3>2 DEF Constant
  <2>2. \A k \in Instrs : function'.lhs[k] # Ins(j) /\ function'.rhs[k] # Ins(j)
    BY <1>4, <1>5, <2>1 DEF UseEmpty
  <2>3. \A k \in DOMAIN outside' : outside'[k] # Ins(j)
    BY <1>4, <1>5, <2>1 DEF UseEmpty
  <2>4. UseEmpty(j)'
    BY <2>2, <2>3 DEF UseEmpty
  <2>5. QED
    BY <2>4 DEF Settled
<1>6. CASE Replacement(j, Op(j), function.lhs[j], function.rhs[j]) = NoRule
  <2>1. function.lhs[j] # Ins(i) /\ function.rhs[j] # Ins(i)
    BY <1>1, <1>2, KnownBefore
  <2>2. function'.lhs[j] = function.lhs[j] /\ function'.rhs[j] = function.rhs[j]
    BY <1>1, <1>4, <2>1
  <2>3. Op(j)' = Op(j)
    BY <1>4 DEF Op
  <2>4. QED
    BY <1>6, <2>2, <2>3 DEF Settled
<1>7. QED
  BY <1>5, <1>6 DEF Settled

LEMMA KeepsVisitInstruction ==
  ASSUME FoldInv, VisitInstruction
  PROVE  FoldInv'
<1>1. Shape /\ N \in Nat /\ Instrs = 1 .. N /\ \A j \in 1 .. next - 1 : Settled(j)
  BY SizeAssumption DEF FoldInv, Instrs
<1>2. PICK i, x, y, v :
        /\ i = next /\ x = function.lhs[next] /\ y = function.rhs[next]
        /\ v = Replacement(next, Op(next), function.lhs[next], function.rhs[next])
  OBVIOUS
<1>3. pc = "walk" /\ i \in Instrs /\ ~ DividesByZero(i) /\ Visit(i)
  BY <1>2 DEF VisitInstruction
<1>4. x \in Known(i) /\ y \in Known(i) /\ Op(i) \in Opcodes
  BY <1>1, <1>2, <1>3 DEF Shape, Ordered, Functions, Op
<1>5. v \in {x, y, Neg(i), NoRule} \cup Constant
  <2>1. ~ (Op(i) \in Divisions /\ IsConst(x) /\ y = Zero)
    BY <1>2, <1>3 DEF DividesByZero
  <2>2. v = Replacement(i, Op(i), x, y)
    BY <1>2
  <2>3. QED
    BY <1>3, <1>4, <2>1, <2>2, ReplacementIs
<1>6. CASE Skip /\ (v = NoRule \/ UseEmpty(i))
  <2>1. /\ function' = function /\ outside' = outside /\ original' = original
        /\ updated' = updated /\ reachableBlocks' = reachableBlocks
        /\ next' = next + 1 /\ ret' = ret /\ pc' = pc
    BY <1>6 DEF Skip
  <2>2. Shape'
    BY <1>1, <1>2, <1>3, <2>1 DEF Shape
  <2>3. \A j \in 1 .. next - 1 : Settled(j)'
    BY <1>1, <2>1 DEF Settled, UseEmpty, Op
  <2>4. Settled(i)'
    BY <1>2, <1>6, <2>1 DEF Settled, UseEmpty, Op
  <2>5. \A j \in 1 .. next' - 1 : j \in 1 .. next - 1 \/ j = i
    BY <1>1, <1>2, <1>3, <2>1
  <2>6. QED
    BY <2>2, <2>3, <2>4, <2>5 DEF FoldInv
<1>7. CASE Apply(i, v) /\ v # NoRule
  <2>1. /\ ReplaceAllUsesWith(i, v) /\ original' = original
        /\ updated' = updated + 1 /\ reachableBlocks' = reachableBlocks
        /\ next' = next + 1 /\ ret' = TRUE /\ pc' = pc
    BY <1>7 DEF Apply
  <2>2. v \in {x, y, Neg(i)} \cup Constant /\ v \in Known(i) \cup {Neg(i)}
    BY <1>4, <1>5, <1>7 DEF Known
  <2>3. /\ function'.opcode = function.opcode /\ Ordered(function')
        /\ DOMAIN outside' = DOMAIN outside
        /\ outside' \in [DOMAIN outside -> Known(N + 1)] /\ UseEmpty(i)'
    BY <1>1, <1>3, <2>1, <2>2, ReplacesUses
  <2>4. Shape'
    <3>1. /\ Ordered(function') /\ Ordered(original') /\ original'.opcode = function'.opcode
          /\ DOMAIN outside' \subseteq Instrs
          /\ outside' \in [DOMAIN outside' -> Known(N + 1)]
      BY <1>1, <2>1, <2>3 DEF Shape
    <3>2. /\ next' \in 1 .. N + 1 /\ ret' \in BOOLEAN /\ updated' \in -1 .. next' - 2
          /\ reachableBlocks' \in {{}, Instrs} /\ pc' = "walk" /\ reachableBlocks' = Instrs
      BY <1>1, <1>2, <1>3, <2>1 DEF Shape
    <3>3. QED
      BY <3>1, <3>2 DEF Shape
  <2>5. \A j \in 1 .. next - 1 : Settled(j)'
    BY <1>1, <1>2, <1>3, <2>1, <2>2, StaysSettled
  <2>6. Settled(i)'
    BY <1>2, <2>3 DEF Settled
  <2>7. \A j \in 1 .. next' - 1 : j \in 1 .. next - 1 \/ j = i
    BY <1>1, <1>2, <1>3, <2>1
  <2>8. QED
    BY <2>4, <2>5, <2>6, <2>7 DEF FoldInv
<1>8. \/ Skip /\ (v = NoRule \/ UseEmpty(i))
      \/ Apply(i, v) /\ v # NoRule
  BY <1>2, <1>3 DEF Visit
<1>9. QED
  BY <1>6, <1>7, <1>8

LEMMA FoldInvariant == Spec => []FoldInv
<1>1. Init => FoldInv
  BY InitShape
<1>2. FoldInv /\ [Next]_vars => FoldInv'
  <2>1. SUFFICES ASSUME FoldInv, [Next]_vars PROVE FoldInv'
    OBVIOUS
  <2>2. CASE BeginWalk
    BY <2>1, <2>2, KeepsBeginWalk
  <2>3. CASE VisitInstruction
    BY <2>1, <2>3, KeepsVisitInstruction
  <2>4. CASE AssertionFails
    BY <2>1, <2>4, KeepsAssertionFails
  <2>5. CASE EndWalk
    BY <2>1, <2>5, KeepsEndWalk
  <2>6. CASE UNCHANGED vars
    BY <2>1, <2>6 DEF vars, FoldInv, Shape, Settled, UseEmpty, Op, DividesByZero
  <2>7. QED
    BY <2>1, <2>2, <2>3, <2>4, <2>5, <2>6 DEF Next, Finished
<1>3. QED
  BY <1>1, <1>2, PTL DEF Spec

(* A negation that is in use stands before an operator already visited,    *)
(* and negates no constant.                                                *)
NegInv ==
  \A j \in Instrs : InUse(Neg(j)) => j < next /\ ~ IsConst(function.rhs[j])

(* No operand is a negation at first.                                      *)
LEMMA InitNeg == Init => NegInv
<1> SUFFICES ASSUME Init, NEW j \in Instrs
             PROVE  ~ InUse(Neg(j))
  BY DEF NegInv
<1>1. \A i \in Instrs : Neg(j) \notin OperandsBefore(i) /\ Neg(j) # Ins(i)
  BY DEF OperandsBefore, Const, Unknown, Ins, Neg
<1>2. /\ \A i \in Instrs : /\ function.lhs[i] \in OperandsBefore(i)
                           /\ function.rhs[i] \in OperandsBefore(i)
      /\ DOMAIN outside \subseteq Instrs
      /\ \A i \in DOMAIN outside : outside[i] = Ins(i)
  BY DEF Init
<1>3. QED
  BY <1>1, <1>2 DEF InUse

(* An operator is replaced by its negation only when its right operand is  *)
(* no constant.                                                            *)
LEMMA NegatesNoConstant ==
  ASSUME NEW i \in Instrs, NEW op, NEW x \in Known(i), NEW y \in Known(i),
         Replacement(i, op, x, y) = Neg(i)
  PROVE  ~ IsConst(y)
<1> SUFFICES ASSUME IsConst(y) PROVE FALSE
  OBVIOUS
<1>1. x # Neg(i) /\ NoRule # Neg(i) /\ Zero # Neg(i) /\ \A c : Const(c) # Neg(i)
  <2>1. \A k \in 1 .. i - 1 : Neg(k) # Neg(i)
    BY DEF Neg, Instrs
  <2>2. \A c : Const(c) # Neg(i) /\ Unknown(c) # Neg(i) /\ Ins(c) # Neg(i)
    BY DEF Const, Unknown, Ins, Neg
  <2>3. x # Neg(i)
    BY <2>1, <2>2 DEF Known, Constant
  <2>4. NoRule # Neg(i)
    BY DEF NoRule, Neg
  <2>5. QED
    BY <2>2, <2>3, <2>4 DEF Zero
<1>2. CASE IsConst(x)
  BY <1>1, <1>2 DEF Replacement
<1>3. CASE ~ IsConst(x)
  <2>1. Replacement(i, op, x, y) = RightRule(op, x, y)
    BY <1>3 DEF Replacement
  <2>2. RightRule(op, x, y) \in {x, NoRule, Zero}
    BY DEF RightRule
  <2>3. QED
    BY <1>1, <2>1, <2>2
<1>4. QED
  BY <1>2, <1>3

(* Replacing an operator brings one negation into use, its own, and        *)
(* changes no operand of an operator visited before.                       *)
LEMMA KeepsNeg == FoldInv /\ NegInv /\ VisitInstruction => NegInv'
<1> SUFFICES ASSUME FoldInv, NegInv, VisitInstruction, NEW j \in Instrs, InUse(Neg(j))'
             PROVE  j < next' /\ ~ IsConst(function'.rhs[j])
  BY DEF NegInv
<1> DEFINE i == next
           x == function.lhs[i]
           y == function.rhs[i]
           v == Replacement(i, Op(i), x, y)
<1>1. /\ i \in Instrs /\ N \in Nat /\ Instrs = 1 .. N /\ next' = next + 1 /\ Shape
      /\ Skip \/ (Apply(i, v) /\ v # NoRule)
  <2>1. i \in Instrs /\ N \in Nat /\ Instrs = 1 .. N /\ Shape
    BY SizeAssumption DEF VisitInstruction, FoldInv, Instrs
  <2>2. Skip \/ (Apply(i, v) /\ v # NoRule)
    BY DEF VisitInstruction, Visit
  <2>3. next' = next + 1
    BY <2>2 DEF Skip, Apply
  <2>4. QED
    BY <2>1, <2>2, <2>3
<1>2. x \in Known(i) /\ y \in Known(i) /\ Op(i) \in Opcodes
  BY <1>1 DEF Shape, Ordered, Functions, Op
<1>3. CASE Skip
  <2>1. function' = function /\ outside' = outside
    BY <1>3 DEF Skip
  <2>2. InUse(Neg(j))
    BY <2>1 DEF InUse
  <2>3. QED
    BY <1>1, <2>1, <2>2 DEF NegInv
<1>4. CASE Apply(i, v) /\ v # NoRule
  <2>1. v \in {x, y, Neg(i)} \cup Constant /\ v \in Known(i) \cup {Neg(i)}
    <3>1. ~ (Op(i) \in Divisions /\ IsConst(x) /\ y = Zero)
      BY DEF VisitInstruction, DividesByZero
    <3>2. v \in {x, y, Neg(i), NoRule} \cup Constant
      BY <1>1, <1>2, <3>1, ReplacementIs
    <3>3. QED
      BY <1>2, <1>4, <3>2 DEF Known
  <2>2. ReplaceAllUsesWith(i, v)
    BY <1>4 DEF Apply
  <2> HIDE DEF v
  <2>3. /\ \A k \in Instrs : /\ function'.lhs[k] = IF function.lhs[k] = Ins(i) THEN v
                                                 ELSE function.lhs[k]
                           /\ function'.rhs[k] = IF function.rhs[k] = Ins(i) THEN v
                                                 ELSE function.rhs[k]
        /\ DOMAIN outside' = DOMAIN outside
        /\ \A k \in DOMAIN outside : outside'[k] = IF outside[k] = Ins(i) THEN v
                                                   ELSE outside[k]
    BY <1>1, <2>1, <2>2, ReplacesUses
  <2>4. ASSUME j <= i PROVE function'.rhs[j] = function.rhs[j]
    <3>1. function.rhs[j] \in Known(j) /\ j \in Int /\ i \in Int
      BY <1>1 DEF Shape, Ordered
    <3>2. QED
      BY <2>3, <2>4, <3>1, KnownBefore
  <2>5. InUse(Neg(j)) \/ v = Neg(j)
    BY <2>3 DEF InUse
  <2>6. CASE InUse(Neg(j))
    BY <1>1, <2>4, <2>6 DEF NegInv
  <2>7. CASE v = Neg(j) /\ ~ InUse(Neg(j))
    <3>1. v # x /\ v # y
      BY <1>1, <2>7 DEF InUse
    <3>2. v \notin Constant
      BY <2>7 DEF Constant, Const, Neg
    <3>3. v = Neg(i) /\ j = i
      BY <2>1, <2>7, <3>1, <3>2 DEF Neg
    <3>4. ~ IsConst(y)
      BY <1>1, <1>2, <3>3, NegatesNoConstant DEF v
    <3>5. QED
      BY <1>1, <2>4, <3>3, <3>4
  <2>8. QED
    BY <2>5, <2>6, <2>7
<1>5. QED
  BY <1>1, <1>3, <1>4

LEMMA NegInvariant == Spec => []NegInv
<1>1. FoldInv /\ NegInv /\ [Next]_vars => NegInv'
  <2>1. SUFFICES ASSUME FoldInv, NegInv, [Next]_vars, ~ VisitInstruction PROVE NegInv'
    BY KeepsNeg
  <2>2. /\ function' = function /\ outside' = outside
        /\ next' = next \/ BeginWalk
    BY <2>1 DEF Next, BeginWalk, AssertionFails, EndWalk, Finished, vars
  <2>3. CASE next' = next
    BY <2>1, <2>2, <2>3 DEF NegInv, InUse
  <2>4. CASE BeginWalk
    <3>1. next' >= next
      BY <2>1, <2>4, SizeAssumption DEF BeginWalk, FoldInv, Shape
    <3>2. next \in Int /\ next' \in Int /\ Instrs \subseteq Int
      BY <2>1, <2>4, SizeAssumption DEF BeginWalk, FoldInv, Shape, Instrs
    <3>3. QED
      BY <2>1, <2>2, <3>1, <3>2 DEF NegInv, InUse
  <2>5. QED
    BY <2>2, <2>3, <2>4
<1>2. QED
  BY <1>1, InitNeg, FoldInvariant, PTL DEF Spec

(* One walk is enough: when the pass is done it has walked over every      *)
(* operator of the given function, and none that is still used could be    *)
(* simplified; the negations it has put in can only be negated again.      *)
THEOREM FoldsEverything == Spec => []NothingLeftToFold
<1>1. FoldInv /\ NegInv => NothingLeftToFold
  <2>1. SUFFICES ASSUME FoldInv, NegInv PROVE NothingLeftToFold
    OBVIOUS
  <2>2. Shape /\ N \in Nat /\ Instrs = 1 .. N
    BY <2>1, SizeAssumption DEF FoldInv, Instrs
  <2>3. TypeOK
    <3>1. /\ DOMAIN function.opcode = Instrs /\ DOMAIN original.opcode = Instrs
          /\ \A i \in Instrs : function.opcode[i] \in Opcodes
      BY <2>2 DEF Shape, Ordered, Functions
    <3>2. ASSUME NEW i \in Instrs
          PROVE  {function.lhs[i].n, function.rhs[i].n}
                   \subseteq Words \cup Instrs \cup 1 .. Unknowns
      <4>1. ASSUME NEW x \in Known(i) PROVE x.n \in Words \cup Instrs \cup 1 .. Unknowns
        <5>1. 1 .. i - 1 \subseteq Instrs
          BY <2>2
        <5>2. QED
          BY <5>1 DEF Known, Constant, Const, Unknown, Ins, Neg
      <4>2. function.lhs[i] \in Known(i) /\ function.rhs[i] \in Known(i)
        BY <2>2 DEF Shape, Ordered
      <4>3. QED
        BY <4>1, <4>2
    <3>3. /\ DOMAIN outside \subseteq Instrs /\ reachableBlocks \subseteq Instrs
          /\ next \in 1 .. N + 1 /\ ret \in BOOLEAN
          /\ pc \in {"begin", "walk", "done", "failed"}
      BY <2>2 DEF Shape
    <3>4. updated \in -1 .. N - 1
      BY <2>2 DEF Shape
    <3>5. QED
      BY <3>1, <3>2, <3>3, <3>4 DEF TypeOK
  <2>4. ASSUME pc = "done", NEW i \in Instrs PROVE Settled(i)
    <3>1. i \in 1 .. next - 1
      BY <2>2, <2>4 DEF Shape
    <3>2. QED
      BY <2>1, <3>1 DEF FoldInv
  <2>5. ASSUME NEW i \in Instrs, InUse(Neg(i))
        PROVE  Replacement(i, "sub", Zero, function.rhs[i]) = Neg(i)
    <3>1. ~ IsConst(function.rhs[i]) /\ IsConst(Zero)
      BY <2>1, <2>5 DEF NegInv, Zero, IsConst, Const
    <3>2. Replacement(i, "sub", Zero, function.rhs[i])
            = LeftRule(i, "sub", Zero, function.rhs[i])
      BY <3>1 DEF Replacement
    <3>3. QED
      BY <3>2 DEF LeftRule, Divisions, Shifts
  <2>6. QED
    BY <2>3, <2>4, <2>5 DEF NothingLeftToFold, Settled
<1>2. QED
  BY <1>1, FoldInvariant, NegInvariant, PTL

----------------------------------------------------------------------------
(* What a function computes                                                *)

Values == Words \cup {Poison}
Outcomes == [ins : Values, neg : Values, undefined : BOOLEAN, unitRemainder : BOOLEAN]

LEMMA PoisonNotWord == Poison \notin Words
BY ModulusType DEF Words, Poison

LEMMA ResultType ==
  ASSUME NEW op \in AllOpcodes, NEW a \in Values, NEW b \in Values,
         ~ Undefined(op, a, b)
  PROVE  Result(op, a, b) \in Values
<1>1. CASE a = Poison \/ b = Poison \/ (op \in Shifts /\ b >= Width)
  BY <1>1 DEF Result, Values
<1>2. CASE ~ (a = Poison \/ b = Poison \/ (op \in Shifts /\ b >= Width))
  <2>1. a \in Words /\ b \in Words /\ (op \in Divisions => b # 0)
    BY <1>2 DEF Values, Undefined
  <2>2. APInt(op, a, b) \in Words
    BY <2>1, APIntType
  <2>3. QED
    BY <1>2, <2>2 DEF Result, Values
<1>3. QED
  BY <1>1, <1>2

LEMMA ValueOfType ==
  ASSUME NEW i \in Nat, NEW x \in Known(i), NEW env \in Environments, NEW run,
         \A j \in 1 .. i - 1 : run[j].ins \in Values /\ run[j].neg \in Values
  PROVE  ValueOf(x, run, env) \in Values
<1>1. CASE \E c \in Words : x = Const(c)
  BY <1>1 DEF ValueOf, Const, Values
<1>2. CASE \E u \in 1 .. Unknowns : x = Unknown(u)
  BY <1>2 DEF ValueOf, Unknown, Values, Environments
<1>3. CASE \E j \in 1 .. i - 1 : x = Ins(j)
  BY <1>3 DEF ValueOf, Ins
<1>4. CASE \E j \in 1 .. i - 1 : x = Neg(j)
  BY <1>4 DEF ValueOf, Neg
<1>5. QED
  BY <1>1, <1>2, <1>3, <1>4 DEF Known, Constant

(* The value of an operand depends on what comes before only.              *)
LEMMA ValueOfDepends ==
  ASSUME NEW i \in Nat, NEW x \in Known(i), NEW env, NEW r, NEW s,
         \A j \in 1 .. i - 1 : r[j] = s[j]
  PROVE  ValueOf(x, r, env) = ValueOf(x, s, env)
<1>1. CASE \E c \in Words : x = Const(c)
  BY <1>1 DEF ValueOf, Const
<1>2. CASE \E u \in 1 .. Unknowns : x = Unknown(u)
  BY <1>2 DEF ValueOf, Unknown
<1>3. CASE \E j \in 1 .. i - 1 : x = Ins(j)
  BY <1>3 DEF ValueOf, Ins
<1>4. CASE \E j \in 1 .. i - 1 : x = Neg(j)
  BY <1>4 DEF ValueOf, Neg
<1>5. QED
  BY <1>1, <1>2, <1>3, <1>4 DEF Known, Constant

LEMMA OutcomeType ==
  ASSUME NEW f, Ordered(f), NEW i \in Instrs, NEW env \in Environments, NEW run,
         \A j \in 1 .. i - 1 : run[j].ins \in Values /\ run[j].neg \in Values
  PROVE  Outcome(f, i, run, env) \in Outcomes
<1>1. PICK a, b, op : /\ a = ValueOf(f.lhs[i], run, env) /\ b = ValueOf(f.rhs[i], run, env)
                      /\ op = f.opcode[i]
  OBVIOUS
<1>2. i \in Nat /\ op \in AllOpcodes
  BY <1>1, SizeAssumption, OpcodesAssumption DEF Instrs, Ordered, Functions
<1>3. a \in Values /\ b \in Values
  BY <1>1, <1>2, ValueOfType DEF Ordered
<1>4. ~ Undefined(op, a, b) => Result(op, a, b) \in Values
  BY <1>2, <1>3, ResultType
<1>5. Result("sub", 0, b) \in Values
  <2>1. "sub" \in AllOpcodes /\ 0 \in Values /\ ~ Undefined("sub", 0, b)
    BY ModulusType DEF AllOpcodes, Values, Undefined, Divisions
  <2>2. QED
    BY <1>3, <2>1, ResultType
<1>6. Poison \in Values
  BY DEF Values
<1>7. Undefined(op, a, b) \in BOOLEAN /\ (op = "urem" /\ a = 1 /\ b = 1) \in BOOLEAN
  BY DEF Undefined
<1>8. Outcome(f, i, run, env) =
        [ins |-> IF Undefined(op, a, b) THEN Poison ELSE Result(op, a, b),
         neg |-> Result("sub", 0, b),
         undefined |-> Undefined(op, a, b),
         unitRemainder |-> op = "urem" /\ a = 1 /\ b = 1]
  BY <1>1 DEF Outcome
<1>9. (IF Undefined(op, a, b) THEN Poison ELSE Result(op, a, b)) \in Values
  BY <1>4, <1>6
<1>10. QED
  BY <1>5, <1>7, <1>8, <1>9 DEF Outcomes

LEMMA OutcomeDepends ==
  ASSUME NEW f, Ordered(f), NEW i \in Instrs, NEW env, NEW r, NEW s,
         \A j \in 1 .. i - 1 : r[j] = s[j]
  PROVE  Outcome(f, i, r, env) = Outcome(f, i, s, env)
<1>1. i \in Nat /\ f.lhs[i] \in Known(i) /\ f.rhs[i] \in Known(i)
  BY SizeAssumption DEF Instrs, Ordered
<1>2. /\ ValueOf(f.lhs[i], r, env) = ValueOf(f.lhs[i], s, env)
      /\ ValueOf(f.rhs[i], r, env) = ValueOf(f.rhs[i], s, env)
  BY <1>1, ValueOfDepends
<1>3. QED
  BY <1>2 DEF Outcome

(* An execution: each operator computes its outcome from the ones before.  *)
Execution(run, f, env) ==
  /\ run \in [Instrs -> Outcomes]
  /\ \A i \in Instrs : run[i] = Outcome(f, i, run, env)

LEMMA Executes ==
  ASSUME NEW f, Ordered(f), NEW env \in Environments
  PROVE  Execution(Run(f, env), f, env)
<1> DEFINE Begun(s, n) == s \in Seq(Outcomes) /\ Len(s) = n
           step == [p \in (1 .. N) \X Seq(Outcomes) |->
                      IF Len(p[2]) = p[1] - 1
                        THEN Append(p[2], Outcome(f, p[1], p[2], env)) ELSE <<>>]
           Equation(r) == r = [i \in 0 .. N |->
                                 IF i = 0 THEN <<>>
                                 ELSE LET before == r[i - 1]
                                      IN Append(before, Outcome(f, i, before, env))]
           run[i \in 0 .. N] ==
             IF i = 0 THEN <<>>
             ELSE LET before == run[i - 1]
                  IN Append(before, Outcome(f, i, before, env))
<1>1. N \in Nat /\ Instrs = 1 .. N
  BY SizeAssumption DEF Instrs
<1>2. ASSUME NEW n \in 1 .. N, NEW s, Begun(s, n - 1)
      PROVE  Outcome(f, n, s, env) \in Outcomes
  <2>1. ASSUME NEW j \in 1 .. n - 1 PROVE s[j].ins \in Values /\ s[j].neg \in Values
    <3>1. s[j] \in Outcomes
      BY <1>2
    <3>2. QED
      BY <3>1 DEF Outcomes
  <2>2. QED
    BY <1>1, <2>1, OutcomeType
<1>3. step \in [(1 .. N) \X Seq(Outcomes) -> Seq(Outcomes)]
  <2>1. ASSUME NEW n \in 1 .. N, NEW s \in Seq(Outcomes)
        PROVE  (IF Len(s) = n - 1 THEN Append(s, Outcome(f, n, s, env)) ELSE <<>>)
                 \in Seq(Outcomes)
    <3>1. CASE Len(s) = n - 1
      <4>1. Outcome(f, n, s, env) \in Outcomes
        BY <1>2, <3>1
      <4>2. QED
        BY <3>1, <4>1
    <3>2. CASE Len(s) # n - 1
      BY <3>2
    <3>3. QED
      BY <3>1, <3>2
  <2>2. QED
    BY <2>1
<1>4. PICK r : IsRecursion(r, N, Seq(Outcomes), <<>>, step)
  <2> HIDE DEF step
  <2>1. <<>> \in Seq(Outcomes)
    OBVIOUS
  <2>2. QED
    BY <1>1, <1>3, <2>1, Recursion
<1>5. r \in [0 .. N -> Seq(Outcomes)] /\ r[0] = <<>>
  BY <1>4 DEF IsRecursion
<1>6. ASSUME NEW n \in 1 .. N, Len(r[n - 1]) = n - 1
      PROVE  r[n] = Append(r[n - 1], Outcome(f, n, r[n - 1], env))
  <2>1. r[n - 1] \in Seq(Outcomes)
    BY <1>1, <1>5
  <2>2. r[n] = step[<<n, r[n - 1]>>]
    BY <1>4 DEF IsRecursion
  <2>3. QED
    BY <1>6, <2>1, <2>2
<1>7. \A n \in 0 .. N : Len(r[n]) = n
  <2> DEFINE S == {n \in 0 .. N : Len(r[n]) = n}
  <2>1. 0 \in S
    BY <1>1, <1>5
  <2>2. ASSUME NEW n \in 0 .. N - 1, n \in S PROVE n + 1 \in S
    <3>1. n + 1 \in 1 .. N /\ (n + 1) - 1 = n /\ n \in 0 .. N /\ Len(r[n]) = n
      BY <1>1, <2>2
    <3>2. r[n + 1] = Append(r[n], Outcome(f, n + 1, r[n], env)) /\ r[n] \in Seq(Outcomes)
      BY <1>5, <1>6, <3>1
    <3>3. Len(r[n + 1]) = n + 1
      BY <3>1, <3>2
    <3>4. QED
      BY <3>1, <3>3
  <2>3. 0 .. N \subseteq S
    <3> HIDE DEF S
    <3>1. QED
      BY <1>1, <2>1, <2>2, SetIntervalInduction
  <2>4. QED
    BY <2>3
<1>8. \A n \in 1 .. N : r[n] = Append(r[n - 1], Outcome(f, n, r[n - 1], env))
  <2>1. TAKE n \in 1 .. N
  <2>2. n - 1 \in 0 .. N
    BY <1>1
  <2>3. QED
    BY <1>6, <1>7, <2>2
<1>9. Equation(r)
  <2>1. \A i \in 0 .. N : i # 0 => i \in 1 .. N
    BY <1>1
  <2>2. r = [i \in 0 .. N |-> r[i]]
    BY <1>5
  <2> HIDE DEF step
  <2>3. QED
    BY <1>5, <1>8, <2>1, <2>2
<1>10. Equation(run)
  BY <1>9
<1>11. Run(f, env) = run[N]
  BY DEF Run
<1>12. PICK g : Equation(g) /\ Run(f, env) = g[N]
  <2> HIDE DEF run, Equation
  <2>1. QED
    BY <1>10, <1>11
<1>13. g[0] = <<>> /\ \A n \in 1 .. N : g[n] = Append(g[n - 1], Outcome(f, n, g[n - 1], env))
  <2> HIDE DEF run, step
  <2>1. 0 \in 0 .. N /\ \A n \in 1 .. N : n \in 0 .. N /\ n # 0
    BY <1>1
  <2>2. g = [i \in 0 .. N |-> IF i = 0 THEN <<>>
                             ELSE Append(g[i - 1], Outcome(f, i, g[i - 1], env))]
    BY <1>12
  <2>3. g[0] = <<>>
    BY <2>1, <2>2
  <2>4. ASSUME NEW n \in 1 .. N
        PROVE  g[n] = Append(g[n - 1], Outcome(f, n, g[n - 1], env))
    BY <2>1, <2>2
  <2>5. QED
    BY <2>3, <2>4
<1> HIDE DEF step, run, Equation
<1> DEFINE Executed(n) == /\ g[n] \in Seq(Outcomes) /\ Len(g[n]) = n
                          /\ \A k \in 1 .. n : g[n][k] = Outcome(f, k, g[n], env)
           T == {n \in 0 .. N : Executed(n)}
<1>14. 0 \in T
  <2>1. g[0] \in Seq(Outcomes) /\ Len(g[0]) = 0
    BY <1>13
  <2>2. Executed(0)
    BY <2>1
  <2> HIDE DEF Executed
  <2>3. QED
    BY <1>1, <2>2
<1>15. ASSUME NEW n \in 0 .. N - 1, n \in T PROVE n + 1 \in T
  <2>1. n + 1 \in 1 .. N /\ (n + 1) - 1 = n /\ n \in 0 .. N /\ n + 1 \in 0 .. N
    BY <1>1
  <2>2. PICK s, t, e : s = g[n] /\ t = g[n + 1] /\ e = Outcome(f, n + 1, s, env)
    OBVIOUS
  <2>3. /\ s \in Seq(Outcomes) /\ Len(s) = n
        /\ \A k \in 1 .. n : s[k] = Outcome(f, k, s, env)
    BY <1>15, <2>2
  <2>4. t = Append(s, e) /\ e \in Outcomes
    <3>1. t = Append(s, e)
      BY <1>13, <2>1, <2>2
    <3>2. e \in Outcomes
      BY <1>2, <2>1, <2>2, <2>3
    <3>3. QED
      BY <3>1, <3>2
  <2>5. /\ t \in Seq(Outcomes) /\ Len(t) = n + 1 /\ t[n + 1] = e
        /\ \A k \in 1 .. n : t[k] = s[k]
    BY <2>1, <2>3, <2>4
  <2>6. ASSUME NEW k \in 1 .. n + 1 PROVE Outcome(f, k, t, env) = Outcome(f, k, s, env)
    <3>1. k \in Instrs /\ \A j \in 1 .. k - 1 : j \in 1 .. n
      BY <1>1, <2>1
    <3>2. QED
      BY <2>5, <3>1, OutcomeDepends
  <2>7. ASSUME NEW k \in 1 .. n + 1 PROVE t[k] = Outcome(f, k, t, env)
    <3>1. CASE k = n + 1
      BY <2>2, <2>5, <2>6, <3>1
    <3>2. CASE k # n + 1
      <4>1. k \in 1 .. n
        BY <2>1, <3>2
      <4>2. QED
        BY <2>3, <2>5, <2>6, <4>1
    <3>3. QED
      BY <3>1, <3>2
  <2>8. Executed(n + 1)
    BY <2>2, <2>5, <2>7
  <2> HIDE DEF Executed
  <2>9. QED
    BY <2>1, <2>8
<1>16. 0 .. N \subseteq T
  <2> HIDE DEF T
  <2>1. QED
    BY <1>1, <1>14, <1>15, SetIntervalInduction
<1>17. Executed(N)
  BY <1>1, <1>16
<1>18. PICK s : s = g[N]
  OBVIOUS
<1>19. /\ s \in Seq(Outcomes) /\ Len(s) = N
       /\ \A k \in 1 .. N : s[k] = Outcome(f, k, s, env)
  BY <1>17, <1>18
<1>20. s \in [Instrs -> Outcomes]
  BY <1>1, <1>19
<1>21. QED
  BY <1>1, <1>12, <1>18, <1>19, <1>20 DEF Execution

----------------------------------------------------------------------------
(* The rules keep what is computed                                         *)

(* q may stand for p: it is the same, unless p may be anything.            *)
Refines(p, q) == p = Poison \/ p = q

LEMMA ValueOfConst ==
  ASSUME NEW c, NEW run, NEW env
  PROVE  ValueOf(Const(c), run, env) = c
BY DEF ValueOf, Const

LEMMA ValueOfIns ==
  ASSUME NEW i, NEW run, NEW env
  PROVE  ValueOf(Ins(i), run, env) = run[i].ins /\ ValueOf(Neg(i), run, env) = run[i].neg
BY DEF ValueOf, Ins, Neg

LEMMA LeftRuleCases ==
  ASSUME NEW i, NEW op \in AllOpcodes, NEW x, NEW y, NEW v,
         v = LeftRule(i, op, x, y), v # NoRule
  PROVE  \/ x = Zero /\ op \in {"add", "or", "xor"} /\ v = y
         \/ x = Zero /\ op = "sub" /\ v = Neg(i)
         \/ x = Zero /\ op \in Divisions \cup Shifts \cup {"mul", "and"} /\ v = Zero
         \/ x = One /\ op = "mul" /\ v = y
         \/ x = One /\ op = "urem" /\ v = One
BY DEF LeftRule

LEMMA RightRuleCases ==
  ASSUME NEW op \in AllOpcodes, NEW x, NEW y, NEW v,
         v = RightRule(op, x, y), v # NoRule
  PROVE  \/ y = Zero /\ op \in {"add", "sub", "or", "xor"} \cup Shifts /\ v = x
         \/ y = Zero /\ op \in {"mul", "and"} /\ v = Zero
         \/ y = One /\ op \in {"mul", "udiv", "sdiv"} /\ v = x
         \/ y = One /\ op \in {"urem", "srem"} /\ v = Zero
BY DEF RightRule

(* A rule for a constant left operand, on words.                           *)
LEMMA LeftRuleSound ==
  ASSUME NEW i, NEW op \in AllOpcodes, NEW x, NEW y, NEW v, NEW run, NEW env,
         v = LeftRule(i, op, x, y), v # NoRule,
         NEW a \in Words, NEW b \in Words,
         a = ValueOf(x, run, env), b = ValueOf(y, run, env),
         run[i].neg = APInt("sub", 0, b),
         op \in Divisions => b # 0, ~ (op = "urem" /\ a = 1 /\ b = 1)
  PROVE  APInt(op, a, b) = ValueOf(v, run, env)
<1>1. (x = Zero => a = 0) /\ (x = One => a = 1)
  BY ValueOfConst DEF Zero, One
<1>2. CASE x = Zero /\ op \in {"add", "or", "xor"} /\ v = y
  BY <1>1, <1>2, LinearZeroOne, BitwiseZero
<1>3. CASE x = Zero /\ op = "sub" /\ v = Neg(i)
  BY <1>1, <1>3, ValueOfIns
<1>4. CASE x = Zero /\ op \in Divisions \cup Shifts \cup {"mul", "and"} /\ v = Zero
  <2>1. ValueOf(v, run, env) = 0 /\ a = 0
    BY <1>1, <1>4, ValueOfConst DEF Zero
  <2>2. CASE op \in {"mul", "and"}
    BY <2>1, <2>2, LinearZeroOne, BitwiseZero
  <2>3. CASE op \in Shifts
    BY <2>1, <2>3, ShiftZero DEF Shifts
  <2>4. CASE op \in Divisions
    BY <2>1, <2>4, DivisionZeroOne DEF Divisions
  <2>5. QED
    BY <1>4, <2>2, <2>3, <2>4
<1>5. CASE x = One /\ op = "mul" /\ v = y
  BY <1>1, <1>5, LinearZeroOne
<1>6. CASE x = One /\ op = "urem" /\ v = One
  <2>1. ValueOf(v, run, env) = 1 /\ a = 1
    BY <1>1, <1>6, ValueOfConst DEF One
  <2>2. b \notin {0, 1}
    BY <1>6, <2>1 DEF Divisions
  <2>3. QED
    BY <1>6, <2>1, <2>2, DivisionZeroOne
<1>7. QED
  BY <1>2, <1>3, <1>4, <1>5, <1>6, LeftRuleCases

(* A rule for a constant right operand, on words.                          *)
LEMMA RightRuleSound ==
  ASSUME NEW op \in AllOpcodes, NEW x, NEW y, NEW v, NEW run, NEW env,
         v = RightRule(op, x, y), v # NoRule,
         NEW a \in Words, NEW b \in Words,
         a = ValueOf(x, run, env), b = ValueOf(y, run, env)
  PROVE  APInt(op, a, b) = ValueOf(v, run, env)
<1>1. (y = Zero => b = 0) /\ (y = One => b = 1)
  BY ValueOfConst DEF Zero, One
<1>2. CASE y = Zero /\ op \in {"add", "sub", "or", "xor"} \cup Shifts /\ v = x
  <2>1. b = 0 /\ ValueOf(v, run, env) = a
    BY <1>1, <1>2
  <2>2. CASE op \in {"add", "sub", "or", "xor"}
    BY <2>1, <2>2, LinearZeroOne, BitwiseZero
  <2>3. CASE op \in Shifts
    BY <2>1, <2>3, ShiftZero DEF Shifts
  <2>4. QED
    BY <1>2, <2>2, <2>3
<1>3. CASE y = Zero /\ op \in {"mul", "and"} /\ v = Zero
  <2>1. ValueOf(v, run, env) = 0 /\ b = 0
    BY <1>1, <1>3, ValueOfConst DEF Zero
  <2>2. QED
    BY <1>3, <2>1, LinearZeroOne, BitwiseZero
<1>4. CASE y = One /\ op \in {"mul", "udiv", "sdiv"} /\ v = x
  <2>1. b = 1 /\ ValueOf(v, run, env) = a
    BY <1>1, <1>4
  <2>2. QED
    BY <1>4, <2>1, LinearZeroOne, DivisionZeroOne
<1>5. CASE y = One /\ op \in {"urem", "srem"} /\ v = Zero
  <2>1. ValueOf(v, run, env) = 0 /\ b = 1
    BY <1>1, <1>5, ValueOfConst DEF Zero
  <2>2. QED
    BY <1>5, <2>1, DivisionZeroOne
<1>6. QED
  BY <1>2, <1>3, <1>4, <1>5, RightRuleCases

(* What replaces an operator may stand for what the operator computed from *)
(* operands that the present ones may stand for.                           *)
LEMMA ReplacementSound ==
  ASSUME NEW i \in Instrs, NEW op \in AllOpcodes, NEW x, NEW y, NEW v,
         NEW run, NEW env,
         v = Replacement(i, op, x, y), v # NoRule,
         IsConst(x) => x = Const(x.n), IsConst(y) => y = Const(y.n),
         NEW a \in Values, NEW b \in Values, ~ Undefined(op, a, b),
         ~ (op = "urem" /\ a = 1 /\ b = 1), run[i].neg = Result("sub", 0, b),
         Refines(a, ValueOf(x, run, env)), Refines(b, ValueOf(y, run, env))
  PROVE  Refines(Result(op, a, b), ValueOf(v, run, env))
<1>1. CASE a = Poison \/ b = Poison \/ (op \in Shifts /\ b >= Width)
  BY <1>1 DEF Result, Refines
<1>2. CASE ~ (a = Poison \/ b = Poison \/ (op \in Shifts /\ b >= Width))
  <2>1. /\ a \in Words /\ b \in Words /\ a = ValueOf(x, run, env)
        /\ b = ValueOf(y, run, env) /\ (op \in Divisions => b # 0)
        /\ Result(op, a, b) = APInt(op, a, b)
    BY <1>2 DEF Values, Refines, Undefined, Result
  <2>2. run[i].neg = APInt("sub", 0, b)
    <3>1. 0 # Poison /\ b # Poison /\ "sub" \notin Shifts
      BY <1>2 DEF Poison, Shifts
    <3>2. QED
      BY <3>1 DEF Result
  <2>3. CASE IsConst(x) /\ IsConst(y)
    <3>1. v = Const(APInt(op, x.n, y.n))
      BY <2>3 DEF Replacement
    <3>2. a = x.n /\ b = y.n
      BY <2>1, <2>3, ValueOfConst
    <3>3. QED
      BY <2>1, <3>1, <3>2, ValueOfConst DEF Refines
  <2>4. CASE IsConst(x) /\ ~ IsConst(y)
    <3>1. v = LeftRule(i, op, x, y)
      BY <2>4 DEF Replacement
    <3>2. APInt(op, a, b) = ValueOf(v, run, env)
      BY <2>1, <2>2, <3>1, LeftRuleSound
    <3>3. QED
      BY <2>1, <3>2 DEF Refines
  <2>5. CASE ~ IsConst(x) /\ IsConst(y)
    <3>1. v = RightRule(op, x, y)
      BY <2>5 DEF Replacement
    <3>2. APInt(op, a, b) = ValueOf(v, run, env)
      BY <2>1, <3>1, RightRuleSound
    <3>3. QED
      BY <2>1, <3>2 DEF Refines
  <2>6. CASE ~ IsConst(x) /\ ~ IsConst(y)
    <3>1. x = y /\ op = "sub" /\ v = Zero
      BY <2>6 DEF Replacement
    <3>2. APInt("sub", a, a) = 0 /\ a = b
      BY <2>1, <3>1, LinearZeroOne
    <3>3. ValueOf(v, run, env) = 0
      BY <3>1, ValueOfConst DEF Zero
    <3>4. QED
      BY <2>1, <3>1, <3>2, <3>3 DEF Refines
  <2>7. QED
    BY <2>3, <2>4, <2>5, <2>6
<1>3. QED
  BY <1>1, <1>2

LEMMA RefinesTransitive ==
  ASSUME NEW p, NEW q, NEW r, Refines(p, q), Refines(q, r)
  PROVE  Refines(p, r)
BY DEF Refines

(* In every execution of the function as it was given, the operands stand  *)
(* for the operands they had, and what is used outside for the operators   *)
(* that were used there.                                                   *)
StandsFor(before, env) ==
  /\ \A j \in Instrs :
       /\ Refines(ValueOf(original.lhs[j], before, env), ValueOf(function.lhs[j], before, env))
       /\ Refines(ValueOf(original.rhs[j], before, env), ValueOf(function.rhs[j], before, env))
  /\ \A j \in DOMAIN outside :
       Refines(before[j].ins, ValueOf(outside[j], before, env))

UnitRemainder(before) == \E j \in Instrs : before[j].unitRemainder

SoundInv ==
  /\ FoldInv
  /\ \A env \in Environments :
       UnitRemainder(Run(original, env)) \/ StandsFor(Run(original, env), env)

LEMMA InitSound ==
  ASSUME Init
  PROVE  SoundInv
<1>1. PICK used \in SUBSET Instrs : outside = [i \in used |-> Ins(i)]
  BY DEF Init
<1>2. original = function
  BY DEF Init
<1>3. ASSUME NEW env \in Environments
      PROVE  StandsFor(Run(original, env), env)
  <2>1. PICK before : before = Run(original, env)
    OBVIOUS
  <2>2. \A j \in DOMAIN outside : ValueOf(outside[j], before, env) = before[j].ins
    BY <1>1, ValueOfIns
  <2>3. QED
    BY <1>2, <2>1, <2>2 DEF StandsFor, Refines
<1>4. QED
  BY <1>3, InitShape DEF SoundInv

(* A visit puts in place of an operator what stands for it.                *)
LEMMA VisitSound ==
  ASSUME SoundInv, NEW i \in Instrs, NEW v,
         v = Replacement(i, Op(i), function.lhs[i], function.rhs[i]), v # NoRule,
         NEW env \in Environments, NEW before, Execution(before, original, env),
         ~ UnitRemainder(before), StandsFor(before, env)
  PROVE  Refines(before[i].ins, ValueOf(v, before, env))
<1>1. PICK op, a, b, x, y :
        /\ op = function.opcode[i] /\ x = function.lhs[i] /\ y = function.rhs[i]
        /\ a = ValueOf(original.lhs[i], before, env)
        /\ b = ValueOf(original.rhs[i], before, env)
  OBVIOUS
<1>2. /\ Ordered(function) /\ Ordered(original) /\ original.opcode = function.opcode
  BY DEF SoundInv, FoldInv, Shape
<1>3. i \in Nat /\ op \in AllOpcodes
  BY <1>1, <1>2, SizeAssumption, OpcodesAssumption DEF Instrs, Ordered, Functions
<1>4. /\ before[i].ins = IF Undefined(op, a, b) THEN Poison ELSE Result(op, a, b)
      /\ before[i].neg = Result("sub", 0, b)
      /\ before[i].unitRemainder = (op = "urem" /\ a = 1 /\ b = 1)
  BY <1>1, <1>2 DEF Execution, Outcome
<1>5. a \in Values /\ b \in Values
  <2>1. \A j \in 1 .. i - 1 : before[j].ins \in Values /\ before[j].neg \in Values
    <3>1. TAKE j \in 1 .. i - 1
    <3>2. j \in Instrs
      BY SizeAssumption DEF Instrs
    <3>3. before[j] \in Outcomes
      BY <3>2 DEF Execution
    <3>4. QED
      BY <3>3 DEF Outcomes
  <2>2. original.lhs[i] \in Known(i) /\ original.rhs[i] \in Known(i)
    BY <1>2 DEF Ordered
  <2>3. QED
    BY <1>1, <1>3, <2>1, <2>2, ValueOfType
<1>6. Refines(a, ValueOf(x, before, env)) /\ Refines(b, ValueOf(y, before, env))
  BY <1>1 DEF StandsFor
<1>7. (IsConst(x) => x = Const(x.n)) /\ (IsConst(y) => y = Const(y.n))
  <2>1. x \in Known(i) /\ y \in Known(i)
    BY <1>1, <1>2 DEF Ordered
  <2>2. QED
    BY <2>1, ConstKind
<1>8. ~ (op = "urem" /\ a = 1 /\ b = 1)
  BY <1>4 DEF UnitRemainder
<1>9. v = Replacement(i, op, x, y)
  BY <1>1 DEF Op
<1>10. CASE Undefined(op, a, b)
  BY <1>4, <1>10 DEF Refines
<1>11. CASE ~ Undefined(op, a, b)
  <2>1. before[i].ins = Result(op, a, b) /\ before[i].neg = Result("sub", 0, b)
    BY <1>4, <1>11
  <2>2. Refines(Result(op, a, b), ValueOf(v, before, env))
    BY <1>3, <1>5, <1>6, <1>7, <1>8, <1>9, <1>11, <2>1, ReplacementSound
  <2>3. QED
    BY <2>1, <2>2
<1>12. QED
  BY <1>10, <1>11

LEMMA ApplyKeepsSound ==
  ASSUME SoundInv, NEW i \in Instrs, NEW v \in Known(i) \cup {Neg(i)},
         ReplaceAllUsesWith(i, v), original' = original,
         NEW env \in Environments, NEW before,
         Refines(before[i].ins, ValueOf(v, before, env)), StandsFor(before, env)
  PROVE  StandsFor(before, env)'
<1>1. /\ \A j \in Instrs : /\ function'.lhs[j] = IF function.lhs[j] = Ins(i) THEN v
                                                 ELSE function.lhs[j]
                           /\ function'.rhs[j] = IF function.rhs[j] = Ins(i) THEN v
                                                 ELSE function.rhs[j]
      /\ DOMAIN outside' = DOMAIN outside
      /\ \A j \in DOMAIN outside : outside'[j] = IF outside[j] = Ins(i) THEN v
                                                 ELSE outside[j]
  BY ReplacesUses DEF SoundInv, FoldInv
<1>2. ASSUME NEW x, NEW y, y = IF x = Ins(i) THEN v ELSE x
      PROVE  Refines(ValueOf(x, before, env), ValueOf(y, before, env))
  <2>1. CASE x = Ins(i)
    BY <1>2, <2>1, ValueOfIns
  <2>2. CASE x # Ins(i)
    BY <1>2, <2>2 DEF Refines
  <2>3. QED
    BY <2>1, <2>2
<1>3. ASSUME NEW j \in Instrs
      PROVE  /\ Refines(ValueOf(original.lhs[j], before, env),
                        ValueOf(function'.lhs[j], before, env))
             /\ Refines(ValueOf(original.rhs[j], before, env),
                        ValueOf(function'.rhs[j], before, env))
  <2>1. /\ Refines(ValueOf(function.lhs[j], before, env), ValueOf(function'.lhs[j], before, env))
        /\ Refines(ValueOf(function.rhs[j], before, env), ValueOf(function'.rhs[j], before, env))
    BY <1>1, <1>2
  <2>2. /\ Refines(ValueOf(original.lhs[j], before, env), ValueOf(function.lhs[j], before, env))
        /\ Refines(ValueOf(original.rhs[j], before, env), ValueOf(function.rhs[j], before, env))
    BY DEF StandsFor
  <2>3. QED
    BY <2>1, <2>2, RefinesTransitive
<1>4. ASSUME NEW j \in DOMAIN outside
      PROVE  Refines(before[j].ins, ValueOf(outside'[j], before, env))
  <2>1. Refines(ValueOf(outside[j], before, env), ValueOf(outside'[j], before, env))
    BY <1>1, <1>2
  <2>2. Refines(before[j].ins, ValueOf(outside[j], before, env))
    BY DEF StandsFor
  <2>3. QED
    BY <2>1, <2>2, RefinesTransitive
<1>5. QED
  BY <1>1, <1>3, <1>4 DEF StandsFor

LEMMA SameStaysSound ==
  ASSUME SoundInv, UNCHANGED <<function, outside, original>>, FoldInv'
  PROVE  SoundInv'
BY DEF SoundInv, UnitRemainder, StandsFor

LEMMA KeepsSound ==
  ASSUME SoundInv, VisitInstruction, FoldInv'
  PROVE  SoundInv'
<1>1. PICK i, v : /\ i = next
                  /\ v = Replacement(next, Op(next), function.lhs[next], function.rhs[next])
  OBVIOUS
<1>2. /\ pc = "walk" /\ i \in Instrs /\ ~ DividesByZero(i) /\ Visit(i)
      /\ v = Replacement(i, Op(i), function.lhs[i], function.rhs[i])
  BY <1>1 DEF VisitInstruction
<1>3. Skip \/ (Apply(i, v) /\ v # NoRule)
  BY <1>2 DEF Visit
<1>4. CASE Skip
  BY <1>4, SameStaysSound DEF Skip
<1>5. CASE Apply(i, v) /\ v # NoRule
  <2>1. ReplaceAllUsesWith(i, v) /\ original' = original
    BY <1>5 DEF Apply
  <2>2. v \in Known(i) \cup {Neg(i)}
    <3>1. Ordered(function)
      BY DEF SoundInv, FoldInv, Shape
    <3>2. /\ function.lhs[i] \in Known(i) /\ function.rhs[i] \in Known(i)
          /\ Op(i) \in Opcodes
      BY <1>2, <3>1 DEF Ordered, Functions, Op
    <3>3. ~ (Op(i) \in Divisions /\ IsConst(function.lhs[i]) /\ function.rhs[i] = Zero)
      BY <1>2 DEF DividesByZero
    <3>4. v \in {function.lhs[i], function.rhs[i], Neg(i), NoRule} \cup Constant
      BY <1>2, <3>2, <3>3, ReplacementIs
    <3>5. QED
      BY <1>5, <3>2, <3>4 DEF Known
  <2>3. ASSUME NEW env \in Environments, ~ UnitRemainder(Run(original, env))
        PROVE  StandsFor(Run(original, env), env)'
    <3>1. PICK before : before = Run(original, env)
      OBVIOUS
    <3>2. StandsFor(before, env) /\ ~ UnitRemainder(before)
      BY <2>3, <3>1 DEF SoundInv
    <3>3. Execution(before, original, env)
      <4>1. Ordered(original)
        BY DEF SoundInv, FoldInv, Shape
      <4>2. QED
        BY <3>1, <4>1, Executes
    <3>4. Refines(before[i].ins, ValueOf(v, before, env))
      BY <1>2, <1>5, <3>2, <3>3, VisitSound
    <3>5. StandsFor(before, env)'
      BY <1>2, <2>1, <2>2, <3>2, <3>4, ApplyKeepsSound
    <3>6. QED
      BY <2>1, <3>1, <3>5
  <2>4. \A env \in Environments :
          UnitRemainder(Run(original', env)) \/ StandsFor(Run(original, env), env)'
    BY <2>1, <2>3
  <2>5. QED
    BY <2>4 DEF SoundInv
<1>6. QED
  BY <1>3, <1>4, <1>5

LEMMA SoundInvariant == Spec => []SoundInv
<1>1. Init => SoundInv
  BY InitSound
<1>2. SoundInv /\ FoldInv' /\ [Next]_vars => SoundInv'
  <2>1. SUFFICES ASSUME SoundInv, FoldInv', [Next]_vars PROVE SoundInv'
    OBVIOUS
  <2>2. CASE VisitInstruction
    BY <2>1, <2>2, KeepsSound
  <2>3. CASE BeginWalk \/ AssertionFails \/ EndWalk \/ UNCHANGED vars
    <3>1. UNCHANGED <<function, outside, original>>
      BY <2>3 DEF BeginWalk, AssertionFails, EndWalk, vars
    <3>2. QED
      BY <2>1, <3>1, SameStaysSound
  <2>4. QED
    BY <2>1, <2>2, <2>3 DEF Next, Finished
<1>3. QED
  BY <1>1, <1>2, FoldInvariant, PTL DEF Spec


(* The pass makes the compiler fail only on a division by zero or poison.  *)
THEOREM FailsRightly == Spec => []FailsOnlyOnZeroDivisor
<1>1. SoundInv => FailsOnlyOnZeroDivisor
  <2>1. SUFFICES ASSUME SoundInv, pc = "failed", NEW env \in Environments
                 PROVE  LET run == Run(original, env) IN
                          \/ \E i \in Instrs : run[i].unitRemainder
                          \/ ValueOf(original.rhs[next], run, env) \in {0, Poison}
    BY DEF FailsOnlyOnZeroDivisor
  <2>2. PICK run : run = Run(original, env)
    OBVIOUS
  <2>3. next \in Instrs /\ function.rhs[next] = Zero
    BY <2>1 DEF SoundInv, FoldInv, Shape, DividesByZero
  <2>4. CASE UnitRemainder(run)
    BY <2>2, <2>4 DEF UnitRemainder
  <2>5. CASE StandsFor(run, env)
    <3>1. Refines(ValueOf(original.rhs[next], run, env), ValueOf(Zero, run, env))
      BY <2>3, <2>5 DEF StandsFor
    <3>2. ValueOf(Zero, run, env) = 0
      BY ValueOfConst DEF Zero
    <3>3. QED
      BY <2>2, <3>1, <3>2 DEF Refines
  <2>6. QED
    BY <2>1, <2>2, <2>4, <2>5 DEF SoundInv
<1>2. QED
  BY <1>1, SoundInvariant, PTL

(* An operator is defined, and its result stands for another one, when its *)
(* operands stand for the other's.                                         *)
LEMMA OperatorMonotone ==
  ASSUME NEW op \in AllOpcodes, NEW a, NEW b, NEW c, NEW d,
         Refines(a, c), Refines(b, d), ~ Undefined(op, a, b)
  PROVE  ~ Undefined(op, c, d) /\ Refines(Result(op, a, b), Result(op, c, d))
<1>1. ~ Undefined(op, c, d)
  <2>1. CASE op \in Divisions
    <3>1. b \notin {0, Poison} /\ b = d
      BY <2>1 DEF Undefined, Refines
    <3>2. CASE op \in {"sdiv", "srem"} /\ b = Word(-1)
      <4>1. a \notin {Modulus \div 2, Poison} /\ a = c
        BY <2>1, <3>2 DEF Undefined, Refines
      <4>2. QED
        BY <3>1, <4>1 DEF Undefined
    <3>3. CASE ~ (op \in {"sdiv", "srem"} /\ b = Word(-1))
      BY <3>1, <3>3 DEF Undefined
    <3>4. QED
      BY <3>2, <3>3
  <2>2. CASE op \notin Divisions
    BY <2>2 DEF Undefined
  <2>3. QED
    BY <2>1, <2>2
<1>2. CASE a = Poison \/ b = Poison
  BY <1>1, <1>2 DEF Result, Refines
<1>3. CASE a # Poison /\ b # Poison
  BY <1>1, <1>3 DEF Refines
<1>4. QED
  BY <1>1, <1>2, <1>3

(* Whatever the present function computes stands for what the original     *)
(* computes.                                                               *)
LEMMA ExecutionsAgree ==
  ASSUME SoundInv, NEW env \in Environments, NEW before, NEW after,
         Execution(before, original, env), Execution(after, function, env),
         StandsFor(before, env), \A i \in Instrs : ~ before[i].undefined
  PROVE  \A i \in Instrs : /\ Refines(before[i].ins, after[i].ins)
                           /\ Refines(before[i].neg, after[i].neg)
                           /\ ~ after[i].undefined
<1> DEFINE Agree(i) == /\ Refines(before[i].ins, after[i].ins)
                       /\ Refines(before[i].neg, after[i].neg)
                       /\ ~ after[i].undefined
           S == {n \in 0 .. N : \A i \in 1 .. n : Agree(i)}
<1>1. /\ N \in Nat /\ Instrs = 1 .. N /\ Ordered(function) /\ Ordered(original)
      /\ original.opcode = function.opcode
  BY SizeAssumption DEF Instrs, SoundInv, FoldInv, Shape
<1>2. ASSUME NEW n \in Nat, NEW x \in Known(n), \A i \in 1 .. n - 1 : Agree(i)
      PROVE  Refines(ValueOf(x, before, env), ValueOf(x, after, env))
  <2>1. CASE \E c \in Words : x = Const(c)
    BY <2>1, ValueOfConst DEF Refines
  <2>2. CASE \E u \in 1 .. Unknowns : x = Unknown(u)
    BY <2>2 DEF Refines, ValueOf, Unknown
  <2>3. CASE \E j \in 1 .. n - 1 : x = Ins(j)
    BY <1>2, <2>3, ValueOfIns
  <2>4. CASE \E j \in 1 .. n - 1 : x = Neg(j)
    BY <1>2, <2>4, ValueOfIns
  <2>5. QED
    BY <2>1, <2>2, <2>3, <2>4 DEF Known, Constant
<1>3. ASSUME NEW i \in Instrs, \A j \in 1 .. i - 1 : Agree(j)
      PROVE  Agree(i)
  <2>1. PICK op, a, b, c, d :
          /\ op = function.opcode[i]
          /\ a = ValueOf(original.lhs[i], before, env)
          /\ b = ValueOf(original.rhs[i], before, env)
          /\ c = ValueOf(function.lhs[i], after, env)
          /\ d = ValueOf(function.rhs[i], after, env)
    OBVIOUS
  <2>2. op \in AllOpcodes /\ i \in Nat
    BY <1>1, <2>1, OpcodesAssumption DEF Ordered, Functions
  <2>3. function.lhs[i] \in Known(i) /\ function.rhs[i] \in Known(i)
    BY <1>1 DEF Ordered
  <2>4. Refines(a, c)
    <3>1. Refines(a, ValueOf(function.lhs[i], before, env))
      BY <2>1 DEF StandsFor
    <3>2. Refines(ValueOf(function.lhs[i], before, env), c)
      BY <1>2, <1>3, <2>1, <2>2, <2>3
    <3>3. QED
      BY <3>1, <3>2, RefinesTransitive
  <2>5. Refines(b, d)
    <3>1. Refines(b, ValueOf(function.rhs[i], before, env))
      BY <2>1 DEF StandsFor
    <3>2. Refines(ValueOf(function.rhs[i], before, env), d)
      BY <1>2, <1>3, <2>1, <2>2, <2>3
    <3>3. QED
      BY <3>1, <3>2, RefinesTransitive
  <2>6. /\ before[i].ins = (IF Undefined(op, a, b) THEN Poison ELSE Result(op, a, b))
        /\ before[i].neg = Result("sub", 0, b)
        /\ before[i].undefined = Undefined(op, a, b)
    BY <1>1, <2>1 DEF Execution, Outcome
  <2>7. /\ after[i].ins = (IF Undefined(op, c, d) THEN Poison ELSE Result(op, c, d))
        /\ after[i].neg = Result("sub", 0, d)
        /\ after[i].undefined = Undefined(op, c, d)
    BY <2>1 DEF Execution, Outcome
  <2>8. ~ Undefined(op, a, b)
    BY <2>6
  <2>9. ~ Undefined(op, c, d) /\ Refines(Result(op, a, b), Result(op, c, d))
    BY <2>2, <2>4, <2>5, <2>8, OperatorMonotone
  <2>10. Refines(Result("sub", 0, b), Result("sub", 0, d))
    <3>1. Refines(0, 0) /\ "sub" \in AllOpcodes /\ ~ Undefined("sub", 0, b)
      BY DEF Refines, AllOpcodes, Undefined, Divisions
    <3>2. QED
      BY <2>5, <3>1, OperatorMonotone
  <2>11. QED
    BY <2>6, <2>7, <2>8, <2>9, <2>10
<1> HIDE DEF Agree
<1>4. 0 \in S
  BY <1>1
<1>5. ASSUME NEW n \in 0 .. N - 1, n \in S PROVE n + 1 \in S
  <2>1. n + 1 \in Instrs /\ n + 1 \in 0 .. N /\ \A j \in 1 .. (n + 1) - 1 : j \in 1 .. n
    BY <1>1
  <2>2. Agree(n + 1)
    BY <1>3, <1>5, <2>1
  <2>3. \A i \in 1 .. n + 1 : i \in 1 .. n \/ i = n + 1
    BY <1>1
  <2>4. QED
    BY <1>5, <2>1, <2>2, <2>3
<1>6. 0 .. N \subseteq S
  <2> HIDE DEF S
  <2>1. QED
    BY <1>1, <1>4, <1>5, SetIntervalInduction
<1>7. \A i \in Instrs : Agree(i)
  BY <1>1, <1>6
<1>8. QED
  BY <1>7 DEF Agree

(* The function computes what it computed.                                 *)
THEOREM PreservesValues == Spec => []PreservesOtherValues
<1>1. SoundInv => PreservesOtherValues
  <2>1. SUFFICES ASSUME SoundInv, NEW env \in Environments,
                        ~ \E i \in Instrs : Run(original, env)[i].unitRemainder
                 PROVE  Preserved(env)
    BY DEF PreservesOtherValues
  <2>2. PICK before, after : before = Run(original, env) /\ after = Run(function, env)
    OBVIOUS
  <2>3. Execution(before, original, env) /\ Execution(after, function, env)
    <3>1. Ordered(original) /\ Ordered(function)
      BY <2>1 DEF SoundInv, FoldInv, Shape
    <3>2. QED
      BY <2>2, <3>1, Executes
  <2>4. StandsFor(before, env)
    BY <2>1, <2>2 DEF SoundInv, UnitRemainder
  <2>5. SUFFICES ASSUME \A i \in Instrs : ~ before[i].undefined
                 PROVE  /\ \A i \in Instrs : ~ after[i].undefined
                        /\ \A i \in DOMAIN outside :
                             before[i].ins \in {Poison, ValueOf(outside[i], after, env)}
    BY <2>2 DEF Preserved
  <2>6. \A i \in Instrs : /\ Refines(before[i].ins, after[i].ins)
                          /\ Refines(before[i].neg, after[i].neg)
                          /\ ~ after[i].undefined
    BY <2>1, <2>3, <2>4, <2>5, ExecutionsAgree
  <2>7. ASSUME NEW i \in DOMAIN outside
        PROVE  Refines(before[i].ins, ValueOf(outside[i], after, env))
    <3>1. outside[i] \in Known(N + 1)
      BY <2>1 DEF SoundInv, FoldInv, Shape
    <3>2. Refines(before[i].ins, ValueOf(outside[i], before, env))
      BY <2>4 DEF StandsFor
    <3>3. PICK x : x = outside[i]
      OBVIOUS
    <3>4. Refines(ValueOf(x, before, env), ValueOf(x, after, env))
      <4>1. N \in Nat /\ 1 .. (N + 1) - 1 = Instrs
        BY SizeAssumption DEF Instrs
      <4>2. CASE \E c \in Words : x = Const(c)
        BY <4>2, ValueOfConst DEF Refines
      <4>3. CASE \E u \in 1 .. Unknowns : x = Unknown(u)
        BY <4>3 DEF Refines, ValueOf, Unknown
      <4>4. CASE \E j \in Instrs : x = Ins(j)
        BY <2>6, <4>4, ValueOfIns
      <4>5. CASE \E j \in Instrs : x = Neg(j)
        BY <2>6, <4>5, ValueOfIns
      <4>6. QED
        BY <3>1, <3>3, <4>1, <4>2, <4>3, <4>4, <4>5 DEF Known, Constant
    <3>5. QED
      BY <3>2, <3>3, <3>4, RefinesTransitive
  <2>8. QED
    BY <2>6, <2>7 DEF Refines
<1>2. QED
  BY <1>1, SoundInvariant, PTL
=============================================================================
