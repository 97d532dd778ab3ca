---------------------------- MODULE Lexer_proofs ----------------------------
(***************************************************************************)
(* Proofs about the lexer, for inputs of any length.                       *)
(***************************************************************************)
EXTENDS Lexer, FiniteSets, FiniteSetTheorems, WellFoundedInduction, TLAPS

----------------------------------------------------------------------------
(* Induction, stated over sets instead of predicates: a set that holds the *)
(* first number and the successor of each of its members holds them all.   *)

(* Induction over the natural numbers.                                     *)
LEMMA SetNatInduction ==
  ASSUME NEW S, 0 \in S, \A n \in Nat : n \in S => n + 1 \in S
  PROVE  Nat \subseteq S
<1> DEFINE T == {n \in Nat : n \notin S}
           R == {ss \in Nat \X Nat : ss[1] < ss[2]}
<1>1. SUFFICES ASSUME T # {} PROVE FALSE
  OBVIOUS
<1>2. IsWellFoundedOn(R, Nat)
  BY NatLessThanWellFounded DEF OpToRel
<1>3. PICK x \in T : \A y \in T : <<y, x>> \notin R
  <2> HIDE DEF R
  <2> QED BY <1>1, <1>2, WFMin
<1>4. x # 0 /\ x \in Nat
  OBVIOUS
<1>5. x - 1 \in Nat /\ x - 1 < x /\ (x - 1) + 1 = x
  BY <1>4
<1>6. x - 1 \in S
  BY <1>3, <1>5
<1>7. QED
  BY <1>5, <1>6

(* Induction up to a bound.                                                *)
LEMMA SetIntervalInduction ==
  ASSUME NEW Top \in Nat, NEW S, 0 \in S,
         \A n \in 0 .. Top - 1 : n \in S => n + 1 \in S
  PROVE  0 .. Top \subseteq S
<1> DEFINE T == {n \in Nat : n <= Top => n \in S}
<1>1. 0 \in T /\ \A n \in Nat : n \in T => n + 1 \in T
  OBVIOUS
<1>2. Nat \subseteq T
  <2> HIDE DEF T
  <2> QED BY <1>1, SetNatInduction
<1>3. QED
  BY <1>2

(* A function whose value at each number up to Top comes from the number and *)
(* the value before it.                                                    *)
IsRecursion(f, Top, D, a, step) ==
  f \in [0 .. Top -> D] /\ f[0] = a /\ \A n \in 1 .. Top : f[n] = step[<<n, f[n - 1]>>]

(* There is such a function.                                               *)
LEMMA Recursion ==
  ASSUME NEW Top \in Nat, NEW D, NEW a \in D, NEW step \in [(1 .. Top) \X D -> D]
  PROVE  \E f : IsRecursion(f, Top, D, a, step)
<1> DEFINE Recurs(f, m) == f[0] = a /\ \A n \in 1 .. m : f[n] = step[<<n, f[n - 1]>>]
           S == {m \in 0 .. Top : \E f \in [0 .. m -> D] : Recurs(f, m)}
<1>1. 0 \in S
  <2> DEFINE f == [k \in 0 .. 0 |-> a]
  <2>1. f \in [0 .. 0 -> D] /\ Recurs(f, 0)
    OBVIOUS
  <2>2. 0 \in 0 .. Top
    OBVIOUS
  <2> HIDE DEF f, Recurs
  <2>3. QED
    BY <2>1, <2>2
<1>2. ASSUME NEW n \in 0 .. Top - 1, n \in S
      PROVE  n + 1 \in S
  <2> PICK f \in [0 .. n -> D] : Recurs(f, n)
    BY <1>2
  <2> DEFINE g == [k \in 0 .. n + 1 |-> IF k = n + 1 THEN step[<<n + 1, f[n]>>] ELSE f[k]]
  <2>1. g \in [0 .. n + 1 -> D]
    <3>1. n + 1 \in 1 .. Top /\ n \in 0 .. n
      OBVIOUS
    <3>2. step[<<n + 1, f[n]>>] \in D
      BY <3>1
    <3>3. \A k \in 0 .. n + 1 : k # n + 1 => k \in 0 .. n
      OBVIOUS
    <3>4. QED
      BY <3>2, <3>3
  <2>2. g[0] = a
    OBVIOUS
  <2>3. ASSUME NEW k \in 1 .. n + 1
        PROVE  g[k] = step[<<k, g[k - 1]>>]
    <3>1. CASE k = n + 1
      <4>1. k - 1 = n /\ n # n + 1 /\ n \in 0 .. n + 1
        BY <3>1
      <4>2. g[k - 1] = f[n]
        BY <4>1
      <4>3. g[n + 1] = step[<<n + 1, f[n]>>]
        BY <4>1
      <4> HIDE DEF g
      <4>4. QED
        BY <3>1, <4>2, <4>3
    <3>2. CASE k # n + 1
      <4>1. k \in 1 .. n /\ k - 1 \in 0 .. n /\ k - 1 # n + 1
        BY <3>2
      <4>2. QED
        BY <4>1
    <3>3. QED
      BY <3>1, <3>2
  <2>4. Recurs(g, n + 1)
    BY <2>2, <2>3
  <2>5. n + 1 \in 0 .. Top
    OBVIOUS
  <2> HIDE DEF g, Recurs
  <2>6. QED
    BY <2>1, <2>4, <2>5
<1>3. Top \in S
  <2> HIDE DEF S
  <2>1. QED
    BY <1>1, <1>2, SetIntervalInduction
<1>4. QED
  BY <1>3 DEF IsRecursion

----------------------------------------------------------------------------
Modes == {"code", "slash", "line", "comment", "star",
          "string", "string escape", "char", "char escape"}

LEMMA AfterType ==
  ASSUME NEW m \in Modes, NEW sym
  PROVE  After(m, sym) \in Modes
<1>1. CASE m \in {"code", "slash"}
  BY <1>1 DEF After, Modes
<1>2. CASE m \in {"line", "comment", "star"}
  BY <1>2 DEF After, Modes
<1>3. CASE m \in {"string", "char"}
  BY <1>3 DEF After, Modes
<1>4. CASE m \in {"string escape", "char escape"}
  BY <1>4 DEF After, Modes
<1>5. QED
  BY <1>1, <1>2, <1>3, <1>4 DEF Modes

(* The recursive function of Mode is there.                                *)
LEMMA ModeSteps ==
  ASSUME NEW text \in Seq(Symbols)
  PROVE  /\ Mode(text) \in [0..Len(text) -> Modes]
         /\ Mode(text)[0] = "code"
         /\ \A p \in 1..Len(text) : Mode(text)[p] = After(Mode(text)[p - 1], text[p])
<1> DEFINE N == Len(text)
           step == [z \in (1..N) \X Modes |-> After(z[2], text[z[1]])]
           Equation(m) == m = [p \in 0..N |->
                                 IF p = 0 THEN "code" ELSE After(m[p - 1], text[p])]
           mode[p \in 0..N] == IF p = 0 THEN "code" ELSE After(mode[p - 1], text[p])
<1>1. N \in Nat
  OBVIOUS
<1>2. step \in [(1..N) \X Modes -> Modes]
  BY AfterType
<1>3. PICK m : IsRecursion(m, N, Modes, "code", step)
  <2> HIDE DEF step, N
  <2>1. "code" \in Modes
    BY DEF Modes
  <2>2. QED
    BY <1>1, <1>2, <2>1, Recursion
<1>4. m \in [0..N -> Modes] /\ m[0] = "code"
  BY <1>3 DEF IsRecursion
<1>5. \A p \in 1..N : m[p] = After(m[p - 1], text[p])
  <2>1. TAKE p \in 1..N
  <2>2. p - 1 \in 0..N
    BY <1>1
  <2>3. m[p - 1] \in Modes
    BY <1>4, <2>2
  <2>4. m[p] = step[<<p, m[p - 1]>>]
    BY <1>3 DEF IsRecursion
  <2>5. QED
    BY <2>3, <2>4
<1>6. Equation(m)
  <2>1. \A p \in 0..N : p # 0 => p \in 1..N
    BY <1>1
  <2>2. m = [p \in 0..N |-> m[p]]
    BY <1>4
  <2>3. QED
    BY <1>4, <1>5, <2>1, <2>2
<1>7. Equation(mode)
  <2> HIDE DEF N
  <2>1. QED
    BY <1>6
<1>8. Mode(text) = mode
  BY DEF Mode
<1>9. mode[0] = "code" /\ \A p \in 1..N : mode[p] = After(mode[p - 1], text[p])
  <2>1. PICK f : f = mode /\ Equation(f)
    BY <1>7
  <2> HIDE DEF mode, N
  <2>2. f[0] = "code" /\ \A p \in 1..N : f[p] = After(f[p - 1], text[p])
    BY <1>1, <2>1
  <2>3. QED
    BY <2>1, <2>2
<1>10. mode = m
  <2>1. PICK f : f = mode /\ Equation(f)
    BY <1>7
  <2> HIDE DEF mode, N, step
  <2> DEFINE S == {p \in 0..N : f[p] = m[p]}
  <2>2. 0 \in S
    BY <1>1, <1>4, <1>9, <2>1
  <2>3. ASSUME NEW p \in 0..N - 1, p \in S PROVE p + 1 \in S
    <3>1. p + 1 \in 1..N /\ p + 1 \in 0..N /\ (p + 1) - 1 = p
      BY <1>1
    <3>2. f[p + 1] = After(f[p], text[p + 1]) /\ m[p + 1] = After(m[p], text[p + 1])
      BY <1>5, <1>9, <2>1, <3>1
    <3>3. QED
      BY <2>3, <3>1, <3>2
  <2>4. 0..N \subseteq S
    <3> HIDE DEF S
    <3>1. QED
      BY <1>1, <2>2, <2>3, SetIntervalInduction
  <2>5. DOMAIN f = 0..N /\ f = [p \in 0..N |-> f[p]]
    BY <2>1
  <2>6. QED
    BY <1>4, <2>1, <2>4, <2>5
<1>11. QED
  BY <1>4, <1>8, <1>9, <1>10

(* Of a set of numbers that is bounded and not empty, Max is the greatest. *)
LEMMA MaxIsGreatest ==
  ASSUME NEW n \in Nat, NEW T, T \subseteq 0..n, T # {}
  PROVE  Max(T) \in T /\ \A y \in T : Max(T) >= y
<1> DEFINE S == {k \in 0..n : \E x \in T : \A y \in T : y <= k => x >= y}
<1>1. 0 \in S
  <2>1. PICK x : x \in T
    OBVIOUS
  <2>2. \A y \in T : y <= 0 => x >= y
    BY <2>1
  <2>3. QED
    BY <2>1, <2>2
<1>2. ASSUME NEW k \in 0..n - 1, k \in S PROVE k + 1 \in S
  <2>1. PICK x \in T : \A y \in T : y <= k => x >= y
    BY <1>2
  <2>2. CASE k + 1 \in T
    BY <2>2
  <2>3. CASE k + 1 \notin T
    <3>1. \A y \in T : y <= k + 1 => y <= k
      BY <2>3
    <3>2. QED
      BY <2>1, <3>1
  <2>4. QED
    BY <2>2, <2>3
<1>3. n \in S
  <2> HIDE DEF S
  <2>1. 0..n \subseteq S
    BY <1>1, <1>2, SetIntervalInduction
  <2>2. QED
    BY <2>1
<1>4. \E x \in T : \A y \in T : x >= y
  <2>1. PICK x \in T : \A y \in T : y <= n => x >= y
    BY <1>3
  <2>2. QED
    BY <2>1
<1>5. QED
  BY <1>4 DEF Max

(* When nothing but symbols of S are read, and these keep the mode in M,   *)
(* it ends up in M.                                                        *)
LEMMA ModeRun ==
  ASSUME NEW text \in Seq(Symbols), NEW a \in 0..Len(text), NEW b \in a..Len(text),
         NEW S, NEW M, Mode(text)[a] \in M,
         \A p \in a + 1..b : text[p] \in S,
         \A m \in M, sym \in S : After(m, sym) \in M
  PROVE  \A p \in a..b : Mode(text)[p] \in M
<1> DEFINE T == {k \in 0..b - a : Mode(text)[a + k] \in M}
<1>1. a \in Nat /\ b \in Nat /\ a <= b /\ b <= Len(text) /\ Len(text) \in Nat
  OBVIOUS
<1>2. 0 \in T
  BY <1>1
<1>3. ASSUME NEW k \in 0..b - a - 1, k \in T PROVE k + 1 \in T
  <2>1. a + k + 1 \in a + 1..b /\ a + k + 1 \in 1..Len(text) /\ a + k + 1 - 1 = a + k
        /\ k + 1 \in 0..b - a /\ a + (k + 1) = a + k + 1
    BY <1>1
  <2>2. Mode(text)[a + k + 1] = After(Mode(text)[a + k], text[a + k + 1])
    BY <2>1, ModeSteps
  <2>3. QED
    BY <1>3, <2>1, <2>2
<1>4. 0..b - a \subseteq T
  <2> HIDE DEF T
  <2>1. b - a \in Nat
    BY <1>1
  <2>2. QED
    BY <1>2, <1>3, <2>1, SetIntervalInduction
<1>5. ASSUME NEW p \in a..b PROVE Mode(text)[p] \in M
  <2>1. p - a \in 0..b - a /\ a + (p - a) = p
    BY <1>1
  <2>2. QED
    BY <1>4, <2>1
<1>6. QED
  BY <1>5

----------------------------------------------------------------------------
(* The inductive invariant                                                 *)

Characters == Symbols \cup {"newline"}
TokenTypes == {"ID", "INTCONST", "MODIFY", "EQ", "/", "*", "%", "=",
               "CHARCONST", "STRINGCONST"}
TokenSet == [type : TokenTypes, lexpos : Nat, value : Seq(Characters), end : Nat,
             lineno : Nat, column : Int]

TypeInv ==
  /\ input \in Inputs
  /\ lexpos \in 0..Len(input)
  /\ lexstate \in {"INITIAL", "string", "comment"}
  /\ string_start \in 0..lexpos
  /\ string_buf \in Seq(Characters)
  /\ string_escape \in BOOLEAN /\ in_charconst \in BOOLEAN
  /\ lineno \in 1..(MarkerLine + lexpos)
  /\ last_newline_pos \in -1..lexpos - 1
  /\ tokens \in Seq(TokenSet)
  /\ \A i \in DOMAIN tokens : tokens[i].end \in 1..lexpos
  /\ outcome \in {"running", "end", "error", "crash"}

LiteralMode(char, escaping) ==
  IF char THEN IF escaping THEN "char escape" ELSE "char"
          ELSE IF escaping THEN "string escape" ELSE "string"

(* What the lexer's state says of what was read, and what may follow.      *)
Reads(state, char, escaping, mode, following) ==
  /\ state = "INITIAL" => /\ mode \in {"code", "slash", "line"}
                          /\ mode = "slash" => following \notin {"/", "*"}
                          /\ mode = "line" => following \in {"nl", "eof"}
  /\ state = "comment" => /\ mode \in {"comment", "star"}
                          /\ mode = "star" => following # "/"
  /\ state = "string" => mode = LiteralMode(char, escaping)

ModeInv == Reads(lexstate, in_charconst, string_escape, Mode(input)[lexpos], next)

StateInv == TypeInv /\ ModeInv

LEMMA InputType ==
  ASSUME NEW text \in Inputs
  PROVE  /\ text \in Seq(Symbols) /\ Len(text) \in 0..MaxLength
         /\ DOMAIN text = 1..Len(text)
         /\ \A p \in 1..Len(text) : text[p] \in Symbols
         /\ \A p \in 1..Len(text) : text[p] = "marker" => Mode(text)[p - 1] = "code"
<1>1. PICK len \in 0..MaxLength : text \in [1..len -> Symbols]
  BY DEF Inputs
<1>2. len \in Nat /\ text \in Seq(Symbols) /\ Len(text) = len
  BY <1>1, LengthAssumption
<1>3. QED
  BY <1>1, <1>2 DEF Inputs

(* A run is within the input, and what follows it is not part of it.       *)
LEMMA RunLength ==
  ASSUME TypeInv, NEW S, "eof" \notin S
  PROVE  /\ RunOf(S) \in 0..Len(input) - lexpos
         /\ \A i \in 1..RunOf(S) : /\ lexpos + i \in DOMAIN input
                                   /\ input[lexpos + i] \in S
         /\ Symbol(lexpos + RunOf(S) + 1) \notin S
         /\ next \in S => RunOf(S) > 0
<1> DEFINE T == {k \in 0..(Len(input) - lexpos) : \A i \in 1..k : Symbol(lexpos + i) \in S}
           n == Len(input) - lexpos
<1>1. /\ lexpos \in Nat /\ Len(input) \in Nat /\ n \in Nat /\ lexpos <= Len(input)
      /\ DOMAIN input = 1..Len(input)
  BY InputType DEF TypeInv
<1>2. 0 \in T /\ T \subseteq 0..n
  BY <1>1
<1>3. PICK k : k = RunOf(S) /\ k \in T /\ \A y \in T : k >= y
  <2>1. RunOf(S) = Max(T)
    BY DEF RunOf
  <2> HIDE DEF T, n
  <2>2. QED
    BY <1>1, <1>2, <2>1, MaxIsGreatest
<1>4. k \in 0..n /\ \A i \in 1..k : Symbol(lexpos + i) \in S
  BY <1>3
<1>5. ASSUME NEW i \in 1..k PROVE lexpos + i \in DOMAIN input /\ input[lexpos + i] \in S
  <2>1. lexpos + i \in 1..Len(input)
    BY <1>1, <1>4
  <2>2. QED
    BY <1>1, <1>4, <2>1 DEF Symbol
<1>6. Symbol(lexpos + k + 1) \notin S
  <2>1. CASE k = n
    BY <1>1, <2>1 DEF Symbol
  <2>2. CASE k # n
    <3>0. k + 1 \notin T
      <4> HIDE DEF T, n
      <4>1. k \in Int /\ ~ k >= k + 1
        BY <1>1, <1>4
      <4>2. QED
        BY <1>3, <4>1
    <3>1. k + 1 \in 0..n
      <4> HIDE DEF T, n
      <4>1. QED
        BY <1>1, <1>4, <2>2
    <3>2. PICK i \in 1..k + 1 : Symbol(lexpos + i) \notin S
      BY <3>0, <3>1
    <3>3. i = k + 1
      BY <1>4, <3>2
    <3>4. QED
      BY <1>1, <1>4, <3>2, <3>3
  <2>3. QED
    BY <2>1, <2>2
<1>7. next \in S => k > 0
  <2>1. k = 0 => lexpos + k + 1 = lexpos + 1
    BY <1>1
  <2>2. QED
    BY <1>4, <1>6, <2>1 DEF next
<1>8. QED
  BY <1>3, <1>4, <1>5, <1>6, <1>7

LEMMA InitState ==
  ASSUME Init
  PROVE  StateInv
<1>1. input \in Seq(Symbols) /\ Len(input) \in Nat
  BY InputType DEF Init
<1>2. TypeInv
  <2>1. string_buf \in Seq(Characters) /\ tokens \in Seq(TokenSet) /\ DOMAIN tokens = {}
    BY DEF Init
  <2>2. input \in Inputs /\ lexpos \in 0..Len(input) /\ string_start \in 0..lexpos
    BY <1>1 DEF Init
  <2>3. lineno \in 1..(MarkerLine + lexpos) /\ last_newline_pos \in -1..lexpos - 1
    BY DEF Init, MarkerLine
  <2>4. QED
    BY <2>1, <2>2, <2>3 DEF Init, TypeInv
<1>3. Mode(input)[0] = "code"
  BY <1>1, ModeSteps
<1>4. ModeInv
  BY <1>3 DEF Init, ModeInv, Reads
<1>5. QED
  BY <1>2, <1>4 DEF StateInv

----------------------------------------------------------------------------
(* What is read next                                                       *)

LEMMA SymbolType ==
  ASSUME TypeInv
  PROVE  /\ \A p : Symbol(p) \in Symbols \cup {"eof"}
         /\ \A p \in Int : Symbol(p) # "eof" =>
              p \in 1..Len(input) /\ Symbol(p) = input[p]
         /\ "eof" \notin Symbols
<1>1. DOMAIN input = 1..Len(input) /\ \A p \in 1..Len(input) : input[p] \in Symbols
  BY InputType DEF TypeInv
<1>2. "eof" \notin Symbols
  BY DEF Symbols
<1>3. QED
  BY <1>1, <1>2 DEF Symbol

(* Reading one symbol more.                                                *)
LEMMA ReadsOne ==
  ASSUME TypeInv, NEW k \in Nat, k <= Len(input) - lexpos, Symbol(lexpos + k + 1) # "eof"
  PROVE  /\ k + 1 <= Len(input) - lexpos
         /\ Symbol(lexpos + k + 1) = input[lexpos + k + 1]
         /\ Mode(input)[lexpos + k + 1] = After(Mode(input)[lexpos + k], Symbol(lexpos + k + 1))
<1>1. /\ lexpos \in Nat /\ Len(input) \in Nat /\ lexpos <= Len(input)
      /\ input \in Seq(Symbols)
  BY InputType DEF TypeInv
<1>2. lexpos + k + 1 \in 1..Len(input) /\ Symbol(lexpos + k + 1) = input[lexpos + k + 1]
  BY <1>1, SymbolType
<1>3. lexpos + k + 1 - 1 = lexpos + k
  BY <1>1
<1>4. QED
  BY <1>1, <1>2, <1>3, ModeSteps

LEMMA ReadsFirst ==
  ASSUME TypeInv, next # "eof"
  PROVE  /\ 1 <= Len(input) - lexpos /\ next = input[lexpos + 1]
         /\ next \in Symbols
         /\ Mode(input)[lexpos + 1] = After(Mode(input)[lexpos], next)
<1>1. lexpos \in Nat /\ Len(input) \in Nat /\ lexpos <= Len(input)
  BY InputType DEF TypeInv
<1>2. lexpos + 0 + 1 = lexpos + 1 /\ lexpos + 0 = lexpos
  BY <1>1
<1>3. QED
  BY <1>1, <1>2, ReadsOne, SymbolType DEF next

LEMMA ReadsSecond ==
  ASSUME TypeInv, next # "eof", Symbol(lexpos + 2) # "eof"
  PROVE  /\ 2 <= Len(input) - lexpos /\ Symbol(lexpos + 2) = input[lexpos + 2]
         /\ Mode(input)[lexpos + 2] = After(Mode(input)[lexpos + 1], Symbol(lexpos + 2))
<1>1. lexpos \in Nat /\ Len(input) \in Nat /\ lexpos <= Len(input)
  BY InputType DEF TypeInv
<1>2. lexpos + 1 + 1 = lexpos + 2
  BY <1>1
<1>3. 1 <= Len(input) - lexpos
  BY ReadsFirst
<1>4. /\ Symbol(lexpos + 1 + 1) = input[lexpos + 1 + 1]
      /\ 1 + 1 <= Len(input) - lexpos
      /\ Mode(input)[lexpos + 1 + 1] = After(Mode(input)[lexpos + 1], Symbol(lexpos + 1 + 1))
  <2>1. Symbol(lexpos + 1 + 1) # "eof"
    BY <1>2
  <2>2. QED
    BY <1>3, <2>1, ReadsOne
<1>5. QED
  BY <1>1, <1>2, <1>4

LEMMA Follows ==
  ASSUME NEW k, input' = input, lexpos' = lexpos + k, lexpos \in Nat, k \in Nat
  PROVE  next' = Symbol(lexpos + k + 1)
BY DEF next, Symbol

(* The types after some symbols that are read.                             *)
LEMMA SkipType ==
  ASSUME TypeInv, NEW k \in Nat, k <= Len(input) - lexpos,
         input' = input, lexpos' = lexpos + k, outcome' = outcome,
         UNCHANGED <<string, tokens>>,
         lexstate' \in {"INITIAL", "string", "comment"},
         lineno' \in 1..(MarkerLine + lexpos + k), last_newline_pos' \in -1..lexpos + k - 1
  PROVE  TypeInv'
<1>1. lexpos \in Nat /\ Len(input) \in Nat
  BY InputType DEF TypeInv
<1>2. lexpos' \in 0..Len(input) /\ string_start' \in 0..lexpos'
  BY <1>1 DEF TypeInv, string
<1>3. /\ string_buf' \in Seq(Characters) /\ string_escape' \in BOOLEAN
      /\ in_charconst' \in BOOLEAN /\ tokens' \in Seq(TokenSet)
  BY DEF TypeInv, string
<1>4. \A i \in DOMAIN tokens' : tokens'[i].end \in 1..lexpos'
  BY <1>1 DEF TypeInv
<1>5. lineno' \in 1..(MarkerLine + lexpos') /\ last_newline_pos' \in -1..lexpos' - 1
  BY <1>1 DEF MarkerLine
<1>6. QED
  BY <1>1, <1>2, <1>3, <1>4, <1>5 DEF TypeInv

LEMMA LinesGrow ==
  ASSUME TypeInv, NEW k \in Nat, UNCHANGED lines
  PROVE  lineno' \in 1..(MarkerLine + lexpos + k) /\ last_newline_pos' \in -1..lexpos + k - 1
<1>1. lexpos \in Nat
  BY InputType DEF TypeInv
<1>2. QED
  BY <1>1 DEF TypeInv, lines, MarkerLine

(* The types after a token more.                                           *)
LEMMA TokenType ==
  ASSUME TypeInv, NEW k \in Nat \ {0}, k <= Len(input) - lexpos,
         input' = input, lexpos' = lexpos + k, outcome' = outcome,
         UNCHANGED <<string, lines>>, lexstate' \in {"INITIAL", "string", "comment"},
         NEW type \in TokenTypes, NEW pos \in Nat, NEW value \in Seq(Characters),
         tokens' = Append(tokens, Token(type, pos, value, lexpos + k))
  PROVE  TypeInv'
<1>1. lexpos \in Nat /\ Len(input) \in Nat
  BY InputType DEF TypeInv
<1>2. lexpos' \in 0..Len(input) /\ string_start' \in 0..lexpos'
  BY <1>1 DEF TypeInv, string
<1>3. /\ string_buf' \in Seq(Characters) /\ string_escape' \in BOOLEAN
      /\ in_charconst' \in BOOLEAN
  BY DEF TypeInv, string
<1>4. lineno' \in 1..(MarkerLine + lexpos') /\ last_newline_pos' \in -1..lexpos' - 1
  <2>1. /\ lineno' \in 1..(MarkerLine + lexpos + k)
        /\ last_newline_pos' \in -1..lexpos + k - 1
    BY LinesGrow
  <2>2. QED
    BY <1>1, <2>1 DEF MarkerLine
<1> DEFINE token == Token(type, pos, value, lexpos + k)
<1>5. token \in TokenSet /\ token.end = lexpos + k
  <2>1. lineno \in 1..(MarkerLine + lexpos) /\ last_newline_pos \in -1..lexpos - 1
    BY DEF TypeInv
  <2>2. lineno \in Nat /\ last_newline_pos \in Int /\ lexpos + k \in Nat
    BY <1>1, <2>1 DEF MarkerLine
  <2>3. QED
    BY <2>2 DEF Token, TokenSet
<1>6. tokens \in Seq(TokenSet)
  BY DEF TypeInv
<1>7. tokens' \in Seq(TokenSet)
  <2> HIDE DEF token
  <2>1. tokens' = Append(tokens, token)
    BY DEF token
  <2>2. QED
    BY <1>5, <1>6, <2>1
<1>8. \A i \in DOMAIN tokens' : tokens'[i].end \in 1..lexpos'
  <2> HIDE DEF token
  <2>1. tokens' = Append(tokens, token)
    BY DEF token
  <2>2. \A i \in DOMAIN tokens : tokens[i].end \in 1..lexpos + k
    BY <1>1 DEF TypeInv
  <2>3. QED
    BY <1>1, <1>5, <1>6, <2>1, <2>2
<1>9. QED
  BY <1>1, <1>2, <1>3, <1>4, <1>7, <1>8 DEF TypeInv

LEMMA EmitType ==
  ASSUME TypeInv, NEW k \in Nat \ {0}, k <= Len(input) - lexpos,
         NEW type \in TokenTypes, Emit(type, k)
  PROVE  TypeInv'
<1>1. lexpos \in Nat /\ Len(input) \in Nat /\ input \in Seq(Symbols) /\ lexpos <= Len(input)
  BY InputType DEF TypeInv
<1> DEFINE value == SubSeq(input, lexpos + 1, lexpos + k)
<1>2. value \in Seq(Characters)
  <2>1. input \in Seq(Characters)
    BY <1>1 DEF Characters
  <2>2. QED
    BY <1>1, <2>1
<1>3. UNCHANGED <<string, lines>> /\ tokens' = Append(tokens, Token(type, lexpos, value, lexpos + k))
  BY DEF Emit
<1>4. /\ input' = input /\ lexpos' = lexpos + k /\ outcome' = outcome
      /\ lexstate' \in {"INITIAL", "string", "comment"}
  BY DEF Emit, Consume, TypeInv
<1> HIDE DEF value
<1>5. QED
  BY <1>1, <1>2, <1>3, <1>4, TokenType

----------------------------------------------------------------------------
(* The rules keep the invariant                                            *)

(* Within comments and constants only the line end is a rule of all states, *)
(* so a line comment or a slash is outside of both.                        *)
LEMMA InitialMode ==
  ASSUME StateInv, lexstate = "INITIAL", next \notin {"nl", "eof"}
  PROVE  /\ Mode(input)[lexpos] \in {"code", "slash"}
         /\ next \in {"/", "*"} => Mode(input)[lexpos] = "code"
BY DEF StateInv, ModeInv, Reads

(* Identifiers and numbers are code.                                       *)
LEMMA WordRun ==
  ASSUME StateInv, lexstate = "INITIAL", NEW S, S \subseteq {"n", "1"}, next \in S
  PROVE  \E k \in Nat :
           /\ k = RunOf(S) /\ k \in 1..Len(input) - lexpos
           /\ \A i \in 1..k : input[lexpos + i] \in S
           /\ \A p \in lexpos + 1..lexpos + k : Mode(input)[p] = "code"
           /\ Symbol(lexpos + k + 1) \notin S
<1>1. TypeInv /\ lexpos \in Nat /\ Len(input) \in Nat /\ input \in Seq(Symbols)
      /\ lexpos <= Len(input) /\ next # "eof" /\ next \notin {"nl", "eof", "/", "*"}
  BY InputType DEF TypeInv, StateInv
<1>2. PICK k : /\ k = RunOf(S) /\ k \in 0..Len(input) - lexpos /\ k > 0
               /\ \A i \in 1..k : input[lexpos + i] \in S
               /\ Symbol(lexpos + k + 1) \notin S
  <2>1. "eof" \notin S
    OBVIOUS
  <2>2. QED
    BY <1>1, <2>1, RunLength
<1>3. Mode(input)[lexpos + 1] = "code"
  <2>1. Mode(input)[lexpos] \in {"code", "slash"}
    BY <1>1, InitialMode
  <2>2. Mode(input)[lexpos + 1] = After(Mode(input)[lexpos], next)
    BY <1>1, ReadsFirst
  <2>3. QED
    BY <2>1, <2>2 DEF After
<1>4. \A p \in lexpos + 1..lexpos + k : Mode(input)[p] = "code"
  <2>1. \A p \in lexpos + 1 + 1..lexpos + k : input[p] \in S
    <3>1. TAKE p \in lexpos + 1 + 1..lexpos + k
    <3>2. p - lexpos \in 1..k /\ lexpos + (p - lexpos) = p
      BY <1>1, <1>2
    <3>3. QED
      BY <1>2, <3>2
  <2>2. lexpos + 1 \in 0..Len(input) /\ lexpos + k \in lexpos + 1..Len(input)
    BY <1>1, <1>2
  <2>3. \A m \in {"code"}, sym \in S : After(m, sym) \in {"code"}
    BY DEF After
  <2>4. \A p \in lexpos + 1..lexpos + k : Mode(input)[p] \in {"code"}
    BY <1>1, <1>3, <2>1, <2>2, <2>3, ModeRun
  <2>5. QED
    BY <2>4
<1>5. k \in Nat /\ k \in 1..Len(input) - lexpos
  BY <1>1, <1>2
<1>6. QED
  BY <1>2, <1>4, <1>5

LEMMA KeepsWord ==
  ASSUME StateInv, InState("INITIAL"), NEW S, S \subseteq {"n", "1"}, next \in S,
         NEW type \in {"ID", "INTCONST"}, Emit(type, RunOf(S))
  PROVE  StateInv'
<1>1. TypeInv /\ lexpos \in Nat /\ Len(input) \in Nat
  BY InputType DEF TypeInv, StateInv
<1>2. PICK k \in Nat : /\ k = RunOf(S) /\ k \in 1..Len(input) - lexpos
                       /\ \A p \in lexpos + 1..lexpos + k : Mode(input)[p] = "code"
  BY WordRun DEF InState
<1>3. Emit(type, k)
  BY <1>2
<1>4. TypeInv'
  BY <1>1, <1>2, <1>3, EmitType DEF TokenTypes
<1>5. input' = input /\ lexpos' = lexpos + k /\ lexstate' = "INITIAL"
  BY <1>3 DEF Emit, Consume, InState
<1>6. lexpos + k \in lexpos + 1..lexpos + k
  BY <1>1, <1>2
<1>7. Mode(input')[lexpos'] = "code"
  BY <1>2, <1>5, <1>6
<1>8. QED
  BY <1>4, <1>5, <1>7 DEF StateInv, ModeInv, Reads

(* t_string and t_char                                                     *)
LEMMA KeepsBegin ==
  ASSUME StateInv, InState("INITIAL"), NEW char \in BOOLEAN,
         next = (IF char THEN "sq" ELSE "dq"), Begin(char)
  PROVE  StateInv'
<1>1. TypeInv /\ lexpos \in Nat /\ Len(input) \in Nat /\ input \in Seq(Symbols)
      /\ lexpos <= Len(input) /\ next \notin {"nl", "eof", "/", "*"}
  BY InputType DEF TypeInv, StateInv
<1>2. /\ 1 <= Len(input) - lexpos
      /\ Mode(input)[lexpos + 1] = After(Mode(input)[lexpos], next)
  BY <1>1, ReadsFirst
<1>3. /\ input' = input /\ lexpos' = lexpos + 1 /\ lexstate' = "string" /\ outcome' = outcome
      /\ string_escape' = FALSE /\ in_charconst' = char /\ string_start' = lexpos + 1
      /\ string_buf' = <<>> /\ UNCHANGED lines /\ tokens' = tokens
  BY DEF Begin, Consume
<1>4. TypeInv'
  <2>1. lineno' \in 1..(MarkerLine + lexpos') /\ last_newline_pos' \in -1..lexpos' - 1
    <3>1. /\ lineno' \in 1..(MarkerLine + lexpos + 1)
          /\ last_newline_pos' \in -1..lexpos + 1 - 1
      BY <1>1, <1>3, LinesGrow
    <3>2. QED
      BY <1>1, <1>3, <3>1 DEF MarkerLine
  <2>2. \A i \in DOMAIN tokens' : tokens'[i].end \in 1..lexpos'
    BY <1>1, <1>3 DEF TypeInv
  <2>3. lexpos' \in 0..Len(input') /\ string_start' \in 0..lexpos'
    BY <1>1, <1>2, <1>3
  <2>4. string_buf' \in Seq(Characters)
    BY <1>3
  <2>5. QED
    BY <1>1, <1>3, <2>1, <2>2, <2>3, <2>4 DEF TypeInv
<1>5. Mode(input)[lexpos + 1] = LiteralMode(char, FALSE)
  <2>1. Mode(input)[lexpos] \in {"code", "slash"}
    BY <1>1, InitialMode DEF InState
  <2>2. QED
    BY <1>2, <2>1 DEF After, LiteralMode
<1>6. QED
  BY <1>3, <1>4, <1>5 DEF StateInv, ModeInv, Reads

LEMMA KeepsComment ==
  ASSUME StateInv, t_comment
  PROVE  StateInv'
<1>1. TypeInv /\ lexpos \in Nat /\ Len(input) \in Nat /\ input \in Seq(Symbols)
      /\ lexpos <= Len(input) /\ next = "/" /\ Symbol(lexpos + 2) = "*"
  BY InputType DEF TypeInv, StateInv, t_comment, Pair
<1>2. /\ 2 <= Len(input) - lexpos
      /\ Mode(input)[lexpos + 1] = After(Mode(input)[lexpos], "/")
      /\ Mode(input)[lexpos + 2] = After(Mode(input)[lexpos + 1], "*")
  BY <1>1, ReadsFirst, ReadsSecond
<1>3. /\ input' = input /\ lexpos' = lexpos + 2 /\ lexstate' = "comment" /\ outcome' = outcome
      /\ UNCHANGED <<string, tokens>> /\ UNCHANGED lines
  BY DEF t_comment, Consume
<1>4. TypeInv'
  BY <1>1, <1>2, <1>3, SkipType, LinesGrow
<1>5. Mode(input)[lexpos + 2] = "comment"
  <2>1. Mode(input)[lexpos] = "code"
    BY <1>1, InitialMode DEF t_comment, InState
  <2>2. QED
    BY <1>2, <2>1 DEF After
<1>6. Mode(input')[lexpos'] = "comment"
  BY <1>3, <1>5
<1>7. QED
  BY <1>3, <1>4, <1>6 DEF StateInv, ModeInv, Reads

(* A line comment is all that is left of the line.                         *)
LEMMA LineComment ==
  ASSUME StateInv, lexstate = "INITIAL", next = "/", Symbol(lexpos + 2) = "/"
  PROVE  \E k \in Nat :
           /\ k = RunOf(Symbols \ {"nl"}) /\ k \in 2..Len(input) - lexpos
           /\ \A i \in 1..k : input[lexpos + i] # "nl"
           /\ \A p \in lexpos + 2..lexpos + k : Mode(input)[p] = "line"
           /\ Symbol(lexpos + k + 1) \in {"nl", "eof"}
<1> DEFINE S == Symbols \ {"nl"}
<1>1. TypeInv /\ lexpos \in Nat /\ Len(input) \in Nat /\ input \in Seq(Symbols)
      /\ lexpos <= Len(input) /\ next # "eof"
  BY InputType DEF TypeInv, StateInv
<1>2. PICK k : /\ k = RunOf(S) /\ k \in 0..Len(input) - lexpos /\ k > 0
               /\ \A i \in 1..k : input[lexpos + i] \in S
               /\ Symbol(lexpos + k + 1) \notin S
  <2>1. "eof" \notin S /\ next \in S
    BY DEF Symbols
  <2> HIDE DEF S
  <2>2. QED
    BY <1>1, <2>1, RunLength
<1>3. Mode(input)[lexpos + 2] = "line"
  <2>1. Mode(input)[lexpos] = "code"
    BY InitialMode
  <2>2. Mode(input)[lexpos + 1] = After(Mode(input)[lexpos], next)
    BY <1>1, ReadsFirst
  <2>3. Mode(input)[lexpos + 2] = After(Mode(input)[lexpos + 1], "/")
    BY <1>1, ReadsSecond
  <2>4. QED
    BY <2>1, <2>2, <2>3 DEF After
<1>4. k >= 2
  <2>1. k = 1 => lexpos + k + 1 = lexpos + 2
    BY <1>1
  <2>2. "/" \in S
    BY DEF Symbols
  <2>3. k # 1
    BY <1>2, <2>1, <2>2
  <2>4. QED
    BY <1>1, <1>2, <2>3
<1>5. \A p \in lexpos + 2..lexpos + k : Mode(input)[p] = "line"
  <2>1. \A p \in lexpos + 2 + 1..lexpos + k : input[p] \in S
    <3>1. TAKE p \in lexpos + 2 + 1..lexpos + k
    <3>2. p - lexpos \in 1..k /\ lexpos + (p - lexpos) = p
      BY <1>1, <1>2
    <3>3. QED
      BY <1>2, <3>2
  <2>2. lexpos + 2 \in 0..Len(input) /\ lexpos + k \in lexpos + 2..Len(input)
    BY <1>1, <1>2, <1>4
  <2>3. \A m \in {"line"}, sym \in S : After(m, sym) \in {"line"}
    BY DEF After
  <2> HIDE DEF S
  <2>4. \A p \in lexpos + 2..lexpos + k : Mode(input)[p] \in {"line"}
    BY <1>1, <1>3, <2>1, <2>2, <2>3, ModeRun
  <2>5. QED
    BY <2>4
<1>6. Symbol(lexpos + k + 1) \in {"nl", "eof"}
  <2>1. Symbol(lexpos + k + 1) \in Symbols \cup {"eof"}
    BY <1>1, SymbolType
  <2>2. QED
    BY <1>2, <2>1
<1>7. \A i \in 1..k : input[lexpos + i] # "nl"
  BY <1>2
<1> HIDE DEF S
<1>8. k \in Nat /\ k \in 2..Len(input) - lexpos
  BY <1>1, <1>2, <1>4
<1>9. QED
  BY <1>2, <1>5, <1>6, <1>7, <1>8 DEF S

LEMMA KeepsOperators ==
  ASSUME StateInv, Operators
  PROVE  StateInv'
<1>1. TypeInv /\ lexpos \in Nat /\ Len(input) \in Nat /\ input \in Seq(Symbols)
      /\ lexpos <= Len(input) /\ next \in {"/", "*", "%", "="} /\ InState("INITIAL")
  BY InputType DEF TypeInv, StateInv, Operators
<1>2. /\ 1 <= Len(input) - lexpos
      /\ Mode(input)[lexpos + 1] = After(Mode(input)[lexpos], next)
  BY <1>1, ReadsFirst
<1>3. /\ Mode(input)[lexpos] \in {"code", "slash"}
      /\ next \in {"/", "*"} => Mode(input)[lexpos] = "code"
  BY <1>1, InitialMode DEF InState
<1>4. CASE Symbol(lexpos + 2) = "="
  <2>1. Emit(IF next = "=" THEN "EQ" ELSE "MODIFY", 2)
    <3>1. Pair[2] = "=" /\ Pair # <<"/", "/">>
      BY <1>4 DEF Pair
    <3>2. QED
      BY <3>1 DEF Operators
  <2>2. PICK type \in TokenTypes : Emit(type, 2)
    BY <2>1 DEF TokenTypes
  <2>3. /\ 2 <= Len(input) - lexpos
        /\ Mode(input)[lexpos + 2] = After(Mode(input)[lexpos + 1], "=")
    BY <1>1, <1>4, ReadsSecond
  <2>4. TypeInv'
    BY <1>1, <2>2, <2>3, EmitType
  <2>5. Mode(input)[lexpos + 2] = "code"
    <3>1. Mode(input)[lexpos + 1] \in {"code", "slash"}
      BY <1>1, <1>2, <1>3 DEF After
    <3>2. QED
      BY <2>3, <3>1 DEF After
  <2>6. input' = input /\ lexpos' = lexpos + 2 /\ lexstate' = "INITIAL"
    BY <1>1, <2>2 DEF Emit, Consume, InState
  <2>7. Mode(input')[lexpos'] = "code"
    BY <2>5, <2>6
  <2>8. QED
    BY <2>4, <2>6, <2>7 DEF StateInv, ModeInv, Reads
<1>5. CASE next = "/" /\ Symbol(lexpos + 2) = "/"
  <2>1. Skip(RunOf(Symbols \ {"nl"}))
    <3>1. Pair[2] # "=" /\ Pair = <<"/", "/">>
      BY <1>5 DEF Pair
    <3>2. QED
      BY <3>1 DEF Operators
  <2>2. PICK k \in Nat :
          /\ k = RunOf(Symbols \ {"nl"}) /\ k \in 2..Len(input) - lexpos
          /\ \A p \in lexpos + 2..lexpos + k : Mode(input)[p] = "line"
          /\ Symbol(lexpos + k + 1) \in {"nl", "eof"}
    BY <1>1, <1>5, LineComment DEF InState
  <2>3. /\ input' = input /\ lexpos' = lexpos + k /\ lexstate' = "INITIAL" /\ outcome' = outcome
        /\ UNCHANGED <<string, tokens>> /\ UNCHANGED lines
    BY <1>1, <2>1, <2>2 DEF Skip, Consume, InState
  <2>4. TypeInv'
    <3>1. k \in Nat /\ k <= Len(input) - lexpos
      BY <1>1, <2>2
    <3>2. /\ lineno' \in 1..(MarkerLine + lexpos + k)
          /\ last_newline_pos' \in -1..lexpos + k - 1
      BY <1>1, <2>3, <3>1, LinesGrow
    <3>3. QED
      BY <1>1, <2>3, <3>1, <3>2, SkipType
  <2>5. lexpos + k \in lexpos + 2..lexpos + k
    BY <1>1, <2>2
  <2>6. Mode(input')[lexpos'] = "line"
    BY <2>2, <2>3, <2>5
  <2>7. next' \in {"nl", "eof"}
    BY <1>1, <2>2, <2>3, Follows
  <2>8. QED
    BY <2>3, <2>4, <2>6, <2>7 DEF StateInv, ModeInv, Reads
<1>6. CASE Symbol(lexpos + 2) # "=" /\ ~ (next = "/" /\ Symbol(lexpos + 2) = "/")
  <2>1. Emit(next, 1)
    <3>1. Pair[2] # "=" /\ Pair # <<"/", "/">>
      BY <1>6 DEF Pair
    <3>2. QED
      BY <3>1 DEF Operators
  <2>2. TypeInv'
    BY <1>1, <1>2, <2>1, EmitType DEF TokenTypes
  <2>3. input' = input /\ lexpos' = lexpos + 1 /\ lexstate' = "INITIAL"
    BY <1>1, <2>1 DEF Emit, Consume, InState
  <2>4. next' = Symbol(lexpos + 2)
    <3>1. next' = Symbol(lexpos + 1 + 1)
      BY <1>1, <2>3, Follows
    <3>2. lexpos + 1 + 1 = lexpos + 2
      BY <1>1
    <3>3. QED
      BY <3>1, <3>2
  <2>5. CASE next = "/"
    <3>1. Mode(input)[lexpos + 1] = "slash"
      BY <1>2, <1>3, <2>5 DEF After
    <3>2. Symbol(lexpos + 2) \notin {"/", "*"}
      BY <1>6, <2>5 DEF Operators, Pair
    <3>3. Mode(input')[lexpos'] = "slash"
      BY <2>3, <3>1
    <3>4. QED
      BY <2>2, <2>3, <2>4, <3>2, <3>3 DEF StateInv, ModeInv, Reads
  <2>6. CASE next # "/"
    <3>1. Mode(input)[lexpos + 1] = "code"
      BY <1>1, <1>2, <1>3, <2>6 DEF After
    <3>2. Mode(input')[lexpos'] = "code"
      BY <2>3, <3>1
    <3>3. QED
      BY <2>2, <2>3, <3>2 DEF StateInv, ModeInv, Reads
  <2>7. QED
    BY <2>5, <2>6
<1>7. QED
  BY <1>4, <1>5, <1>6

(* The pairs of a line end and a digit that a marker takes for its flags.  *)
FlagPairs(k) ==
  \A i \in 1..k : Symbol(lexpos + 2 * i) = "nl" /\ Symbol(lexpos + 2 * i + 1) = "1"

LEMMA MarkerReads ==
  ASSUME TypeInv, InState("INITIAL"), t_cpp_line_marker
  PROVE  \E k \in Nat :
           /\ FlagPairs(k) /\ 1 + 2 * k <= Len(input) - lexpos
           /\ Consume(1 + 2 * k)
           /\ lineno' = MarkerLine - 1
           /\ UNCHANGED <<lexstate, string, last_newline_pos, tokens>>
<1> DEFINE T == {k \in 0..MaxLength : FlagPairs(k)}
<1>1. lexpos \in Nat /\ Len(input) \in Nat /\ lexpos <= Len(input) /\ MaxLength \in Nat
  BY InputType, LengthAssumption DEF TypeInv
<1>2. PICK k : k = Max(T) /\ k \in T
  <2>1. 0 \in T /\ T \subseteq 0..MaxLength
    BY <1>1 DEF FlagPairs
  <2> HIDE DEF T
  <2>2. QED
    BY <1>1, <2>1, MaxIsGreatest
<1>3. k \in Nat /\ FlagPairs(k)
  BY <1>1, <1>2
<1>4. 1 + 2 * k <= Len(input) - lexpos
  <2>1. CASE k = 0
    <3>1. next = "marker"
      BY DEF t_cpp_line_marker
    <3>2. QED
      BY <1>1, <2>1, <3>1, ReadsFirst
  <2>2. CASE k # 0
    <3>1. Symbol(lexpos + 2 * k + 1) = "1"
      BY <1>3, <2>2 DEF FlagPairs
    <3>2. lexpos + 2 * k + 1 \in 1..Len(input)
      BY <1>1, <1>3, <3>1, SymbolType
    <3>3. QED
      BY <1>1, <1>3, <3>2
  <2>3. QED
    BY <2>1, <2>2
<1>5. Consume(1 + 2 * k)
  <2>1. Consume(1 + 2 * Max(T))
    BY DEF t_cpp_line_marker, FlagPairs
  <2> HIDE DEF T
  <2>2. QED
    BY <1>2, <2>1
<1>6. QED
  BY <1>3, <1>4, <1>5 DEF t_cpp_line_marker

LEMMA KeepsMarker ==
  ASSUME StateInv, t_cpp_line_marker
  PROVE  StateInv'
<1>1. TypeInv /\ lexpos \in Nat /\ Len(input) \in Nat /\ input \in Seq(Symbols)
      /\ lexpos <= Len(input) /\ next = "marker" /\ InState("INITIAL")
  BY InputType DEF TypeInv, StateInv, t_cpp_line_marker
<1>2. PICK k \in Nat :
        /\ FlagPairs(k) /\ 1 + 2 * k <= Len(input) - lexpos
        /\ Consume(1 + 2 * k)
        /\ lineno' = MarkerLine - 1
        /\ UNCHANGED <<lexstate, string, last_newline_pos, tokens>>
  BY <1>1, MarkerReads
<1>3. PICK l \in Nat : l = 1 + 2 * k
  BY <1>2
<1>4. l <= Len(input) - lexpos /\ Consume(l) /\ l >= 1
  BY <1>2, <1>3
<1>5. /\ input' = input /\ lexpos' = lexpos + l /\ outcome' = outcome
      /\ UNCHANGED <<string, tokens>> /\ lexstate' = "INITIAL"
  BY <1>1, <1>2, <1>4 DEF Consume, InState
<1>6. TypeInv'
  <2>1. /\ lineno' \in 1..(MarkerLine + lexpos + l)
        /\ last_newline_pos' \in -1..lexpos + l - 1
    BY <1>1, <1>2 DEF TypeInv, MarkerLine
  <2>2. QED
    BY <1>1, <1>4, <1>5, <2>1, SkipType
<1>7. Mode(input)[lexpos + 1] = "code"
  <2>1. next = input[lexpos + 1] /\ lexpos + 1 \in 1..Len(input)
        /\ Mode(input)[lexpos + 1] = After(Mode(input)[lexpos], "marker")
    BY <1>1, ReadsFirst
  <2>2. lexpos + 1 - 1 = lexpos
    BY <1>1
  <2>3. Mode(input)[lexpos] = "code"
    BY <1>1, <2>1, <2>2, InputType DEF TypeInv
  <2>4. QED
    BY <2>1, <2>3 DEF After
<1>8. Mode(input)[lexpos + l] = "code"
  <2> DEFINE S == {"nl", "1"}
  <2>1. \A p \in lexpos + 1 + 1..lexpos + l : input[p] \in S
    <3>1. TAKE p \in lexpos + 1 + 1..lexpos + l
    <3>2. p \in Int /\ Symbol(p) \in S
      <4>1. PICK i \in 1..k : p = lexpos + 2 * i \/ p = lexpos + 2 * i + 1
        <5>1. (p - lexpos) \div 2 \in 1..k
          BY <1>1, <1>3
        <5>2. p = lexpos + 2 * ((p - lexpos) \div 2) \/ p = lexpos + 2 * ((p - lexpos) \div 2) + 1
          BY <1>1, <1>3
        <5>3. QED
          BY <5>1, <5>2
      <4>2. Symbol(lexpos + 2 * i) = "nl" /\ Symbol(lexpos + 2 * i + 1) = "1"
        BY <1>2 DEF FlagPairs
      <4>3. p \in Int
        BY <1>1
      <4>4. QED
        BY <4>1, <4>2, <4>3
    <3>3. QED
      BY <1>1, <3>2, SymbolType
  <2>2. lexpos + 1 \in 0..Len(input) /\ lexpos + l \in lexpos + 1..Len(input)
    BY <1>1, <1>4
  <2>3. \A m \in {"code"}, sym \in S : After(m, sym) \in {"code"}
    BY DEF After
  <2> HIDE DEF S
  <2>4. \A p \in lexpos + 1..lexpos + l : Mode(input)[p] \in {"code"}
    BY <1>1, <1>7, <2>1, <2>2, <2>3, ModeRun
  <2>5. QED
    BY <2>2, <2>4
<1>9. Mode(input')[lexpos'] = "code"
  BY <1>5, <1>8
<1>10. QED
  BY <1>5, <1>6, <1>9 DEF StateInv, ModeInv, Reads

(* A line end ends a line comment, and is itself in all others.            *)
LEMMA KeepsNewline ==
  ASSUME StateInv, t_ANY_newline
  PROVE  StateInv'
<1> DEFINE S == {"nl"}
<1>1. TypeInv /\ lexpos \in Nat /\ Len(input) \in Nat /\ input \in Seq(Symbols)
      /\ lexpos <= Len(input) /\ next = "nl"
  BY InputType DEF TypeInv, StateInv, t_ANY_newline
<1>2. PICK k : /\ k = RunOf(S) /\ k \in 0..Len(input) - lexpos /\ k > 0
               /\ \A i \in 1..k : input[lexpos + i] \in S
               /\ Symbol(lexpos + k + 1) # "nl"
  BY <1>1, RunLength
<1>3. /\ input' = input /\ lexpos' = lexpos + k /\ outcome' = outcome
      /\ UNCHANGED <<string, tokens>> /\ lexstate' = lexstate
      /\ lineno' = lineno + k /\ last_newline_pos' = lexpos + k - 1
  BY <1>2 DEF t_ANY_newline, Consume
<1>4. k \in Nat /\ k <= Len(input) - lexpos
  BY <1>1, <1>2
<1>5. TypeInv'
  <2>1. /\ lineno' \in 1..(MarkerLine + lexpos + k)
        /\ last_newline_pos' \in -1..lexpos + k - 1
    BY <1>1, <1>3, <1>4 DEF TypeInv, MarkerLine
  <2>2. lexstate' \in {"INITIAL", "string", "comment"}
    BY <1>1, <1>3 DEF TypeInv
  <2>3. QED
    BY <1>1, <1>3, <1>4, <2>1, <2>2, SkipType
<1>6. Mode(input)[lexpos + 1] = After(Mode(input)[lexpos], "nl")
  BY <1>1, ReadsFirst
<1>7. ASSUME NEW m, After(m, "nl") = m, Mode(input)[lexpos + 1] = m
      PROVE  Mode(input')[lexpos'] = m
  <2>1. \A p \in lexpos + 1 + 1..lexpos + k : input[p] \in S
    <3>1. TAKE p \in lexpos + 1 + 1..lexpos + k
    <3>2. p - lexpos \in 1..k /\ lexpos + (p - lexpos) = p
      BY <1>1, <1>4
    <3>3. QED
      BY <1>2, <3>2
  <2>2. lexpos + 1 \in 0..Len(input) /\ lexpos + k \in lexpos + 1..Len(input)
    BY <1>1, <1>2, <1>4
  <2>3. \A x \in {m}, sym \in S : After(x, sym) \in {m}
    BY <1>7
  <2>4. Mode(input)[lexpos + 1] \in {m}
    BY <1>7
  <2> HIDE DEF S
  <2>5. \A p \in lexpos + 1..lexpos + k : Mode(input)[p] \in {m}
    BY <1>1, <2>1, <2>2, <2>3, <2>4, ModeRun
  <2>6. QED
    BY <1>3, <2>2, <2>5
<1>8. CASE lexstate = "INITIAL"
  <2>1. Mode(input)[lexpos + 1] = "code" /\ After("code", "nl") = "code"
    BY <1>6, <1>8 DEF StateInv, ModeInv, Reads, After
  <2>2. Mode(input')[lexpos'] = "code"
    BY <1>7, <2>1
  <2>3. QED
    BY <1>3, <1>5, <1>8, <2>2 DEF StateInv, ModeInv, Reads
<1>9. CASE lexstate = "comment"
  <2>1. Mode(input)[lexpos + 1] = "comment" /\ After("comment", "nl") = "comment"
    BY <1>6, <1>9 DEF StateInv, ModeInv, Reads, After
  <2>2. Mode(input')[lexpos'] = "comment"
    BY <1>7, <2>1
  <2>3. QED
    BY <1>3, <1>5, <1>9, <2>2 DEF StateInv, ModeInv, Reads
<1>10. CASE lexstate = "string"
  <2> DEFINE m == LiteralMode(in_charconst, string_escape)
  <2>1. Mode(input)[lexpos] = m
    BY <1>10 DEF StateInv, ModeInv, Reads
  <2>2. After(m, "nl") = m
    BY DEF LiteralMode, After
  <2> HIDE DEF m
  <2>3. Mode(input')[lexpos'] = m
    BY <1>6, <1>7, <2>1, <2>2
  <2>4. m = LiteralMode(in_charconst', string_escape')
    BY <1>3 DEF m, string
  <2>5. QED
    BY <1>3, <1>5, <1>10, <2>3, <2>4 DEF StateInv, ModeInv, Reads
<1>11. QED
  BY <1>1, <1>8, <1>9, <1>10 DEF TypeInv

LEMMA KeepsCommentEnd ==
  ASSUME StateInv, t_comment_end
  PROVE  StateInv'
<1>1. TypeInv /\ lexpos \in Nat /\ Len(input) \in Nat /\ input \in Seq(Symbols)
      /\ lexpos <= Len(input) /\ next \notin {"nl", "eof"} /\ lexstate = "comment"
  BY InputType DEF TypeInv, StateInv, t_comment_end, InState
<1>2. /\ 1 <= Len(input) - lexpos
      /\ Mode(input)[lexpos + 1] = After(Mode(input)[lexpos], next)
  BY <1>1, ReadsFirst
<1>3. /\ Mode(input)[lexpos] \in {"comment", "star"}
      /\ Mode(input)[lexpos] = "star" => next # "/"
  BY <1>1 DEF StateInv, ModeInv, Reads
<1>4. CASE Pair = <<"*", "/">>
  <2>1. /\ input' = input /\ lexpos' = lexpos + 2 /\ lexstate' = "INITIAL" /\ outcome' = outcome
        /\ UNCHANGED <<string, tokens>> /\ UNCHANGED lines
    BY <1>4 DEF t_comment_end, Consume
  <2>2. next = "*" /\ Symbol(lexpos + 2) = "/"
    BY <1>4 DEF Pair
  <2>3. /\ 2 <= Len(input) - lexpos
        /\ Mode(input)[lexpos + 2] = After(Mode(input)[lexpos + 1], "/")
    BY <1>1, <2>2, ReadsSecond
  <2>4. TypeInv'
    BY <1>1, <2>1, <2>3, SkipType, LinesGrow
  <2>5. Mode(input)[lexpos + 1] = "star"
    BY <1>2, <1>3, <2>2 DEF After
  <2>6. Mode(input')[lexpos'] = "code"
    BY <2>1, <2>3, <2>5 DEF After
  <2>7. QED
    BY <2>1, <2>4, <2>6 DEF StateInv, ModeInv, Reads
<1>5. CASE Pair # <<"*", "/">>
  <2>1. /\ input' = input /\ lexpos' = lexpos + 1 /\ lexstate' = "comment" /\ outcome' = outcome
        /\ UNCHANGED <<string, tokens>> /\ UNCHANGED lines
    BY <1>1, <1>5 DEF t_comment_end, Skip, Consume
  <2>2. TypeInv'
    BY <1>1, <1>2, <2>1, SkipType, LinesGrow
  <2>3. next' = Symbol(lexpos + 2)
    <3>1. next' = Symbol(lexpos + 1 + 1)
      BY <1>1, <2>1, Follows
    <3>2. lexpos + 1 + 1 = lexpos + 2
      BY <1>1
    <3>3. QED
      BY <3>1, <3>2
  <2>4. /\ Mode(input)[lexpos + 1] \in {"comment", "star"}
        /\ Mode(input)[lexpos + 1] = "star" => next = "*"
    BY <1>1, <1>2, <1>3 DEF After
  <2>5. /\ Mode(input')[lexpos'] \in {"comment", "star"}
        /\ Mode(input')[lexpos'] = "star" => next' # "/"
    BY <1>5, <2>1, <2>3, <2>4 DEF Pair
  <2>6. QED
    BY <2>1, <2>2, <2>5 DEF StateInv, ModeInv, Reads
<1>6. QED
  BY <1>4, <1>5

(* A symbol within a constant.                                             *)
LEMMA InStringMode ==
  ASSUME StateInv, InString
  PROVE  /\ TypeInv /\ lexpos \in Nat /\ Len(input) \in Nat /\ lexpos <= Len(input)
         /\ 1 <= Len(input) - lexpos /\ next \in Symbols /\ next \notin {"nl", "eof"}
         /\ lexstate = "string" /\ outcome = "running"
         /\ Mode(input)[lexpos] = LiteralMode(in_charconst, string_escape)
         /\ Mode(input)[lexpos + 1] = After(Mode(input)[lexpos], next)
<1>1. TypeInv /\ lexpos \in Nat /\ Len(input) \in Nat /\ lexpos <= Len(input)
      /\ next \notin {"nl", "eof"} /\ lexstate = "string" /\ outcome = "running"
  BY InputType DEF TypeInv, StateInv, InString, InState
<1>2. QED
  BY <1>1, ReadsFirst DEF StateInv, ModeInv, Reads

(* The constant goes on.                                                   *)
LEMMA KeepsReading ==
  ASSUME StateInv, InString, Consume(1), UNCHANGED <<lexstate, string_start, in_charconst, lines, tokens>>,
         string_buf' \in Seq(Characters), string_escape' \in BOOLEAN,
         After(LiteralMode(in_charconst, string_escape), next)
           = LiteralMode(in_charconst, string_escape')
  PROVE  StateInv'
<1>1. /\ TypeInv /\ lexpos \in Nat /\ Len(input) \in Nat /\ lexpos <= Len(input)
      /\ 1 <= Len(input) - lexpos /\ lexstate = "string"
      /\ Mode(input)[lexpos + 1] = LiteralMode(in_charconst, string_escape')
  BY InStringMode
<1>2. input' = input /\ lexpos' = lexpos + 1 /\ outcome' = outcome
  BY DEF Consume
<1>3. lineno' \in 1..(MarkerLine + lexpos') /\ last_newline_pos' \in -1..lexpos' - 1
  <2>1. /\ lineno' \in 1..(MarkerLine + lexpos + 1)
        /\ last_newline_pos' \in -1..lexpos + 1 - 1
    BY <1>1, LinesGrow
  <2>2. QED
    BY <1>1, <1>2, <2>1 DEF MarkerLine
<1>4. TypeInv'
  <2>1. \A i \in DOMAIN tokens' : tokens'[i].end \in 1..lexpos'
    BY <1>1, <1>2 DEF TypeInv
  <2>2. lexpos' \in 0..Len(input') /\ string_start' \in 0..lexpos'
    BY <1>1, <1>2 DEF TypeInv
  <2>3. QED
    BY <1>1, <1>2, <1>3, <2>1, <2>2 DEF TypeInv
<1>5. QED
  BY <1>1, <1>2, <1>4 DEF StateInv, ModeInv, Reads

(* Nothing is read when the lexer fails.                                   *)
LEMMA KeepsFailing ==
  ASSUME StateInv, outcome' \in {"end", "error", "crash"},
         UNCHANGED <<input, lexpos, lexstate, string, lines, tokens>>
  PROVE  StateInv'
<1>1. TypeInv'
  BY DEF StateInv, TypeInv, string, lines
<1>2. next' = next
  BY DEF next, Symbol
<1>3. QED
  BY <1>1, <1>2 DEF StateInv, ModeInv, Reads, string

LEMMA KeepsEscapedChar ==
  ASSUME StateInv, EscapedChar
  PROVE  StateInv'
<1>1. InString /\ string_escape
  BY DEF EscapedChar
<1>2. CASE next = "1"
  BY <1>2, KeepsFailing DEF EscapedChar
<1>3. CASE next # "1"
  <2>1. /\ string_buf' = Append(string_buf, Unescaped(next)) /\ string_escape' = FALSE
        /\ Consume(1) /\ UNCHANGED <<lexstate, string_start, in_charconst, lines, tokens>>
    BY <1>3 DEF EscapedChar
  <2>2. string_buf' \in Seq(Characters)
    <3>1. Unescaped(next) \in Characters
      BY <1>1, InStringMode DEF Unescaped, Characters
    <3>2. string_buf \in Seq(Characters)
      BY DEF StateInv, TypeInv
    <3>3. QED
      BY <2>1, <3>1, <3>2
  <2>3. After(LiteralMode(in_charconst, string_escape), next) = LiteralMode(in_charconst, FALSE)
    BY <1>1, InStringMode DEF LiteralMode, After
  <2>4. QED
    BY <1>1, <2>1, <2>2, <2>3, KeepsReading
<1>4. QED
  BY <1>2, <1>3

LEMMA KeepsBeginEscape ==
  ASSUME StateInv, BeginEscape
  PROVE  StateInv'
<1>1. InString /\ ~ string_escape /\ next = "bs" /\ string_escape' = TRUE /\ Consume(1)
      /\ UNCHANGED <<lexstate, string_start, string_buf, in_charconst, lines, tokens>>
  BY DEF BeginEscape
<1>2. string_buf' \in Seq(Characters)
  BY <1>1 DEF StateInv, TypeInv
<1>3. After(LiteralMode(in_charconst, string_escape), next) = LiteralMode(in_charconst, TRUE)
  BY <1>1 DEF LiteralMode, After
<1>4. QED
  BY <1>1, <1>2, <1>3, KeepsReading

LEMMA KeepsEndOfString ==
  ASSUME StateInv, EndOfString
  PROVE  StateInv'
<1>1. InString /\ ~ string_escape /\ next = Quote
  BY DEF EndOfString
<1>2. CASE in_charconst /\ Len(string_buf) # 1
  BY <1>2, KeepsFailing DEF EndOfString
<1>3. CASE ~ (in_charconst /\ Len(string_buf) # 1)
  <2>1. PICK type \in TokenTypes :
          /\ lexstate' = "INITIAL" /\ UNCHANGED <<string, lines>>
          /\ tokens' = Append(tokens, Token(type, string_start, string_buf, lexpos + 1))
          /\ input' = input /\ lexpos' = lexpos + 1 /\ outcome' = outcome
    <3>1. (IF in_charconst THEN "CHARCONST" ELSE "STRINGCONST") \in TokenTypes
      BY DEF TokenTypes
    <3>2. QED
      BY <1>3, <3>1 DEF EndOfString, Consume
  <2>2. /\ TypeInv /\ 1 <= Len(input) - lexpos /\ lexpos \in Nat
        /\ Mode(input)[lexpos + 1] = After(LiteralMode(in_charconst, string_escape), next)
    BY <1>1, InStringMode
  <2>3. TypeInv'
    <3>1. string_start \in Nat /\ string_buf \in Seq(Characters)
      BY <2>2 DEF TypeInv
    <3>2. QED
      BY <2>1, <2>2, <3>1, TokenType
  <2>4. Mode(input')[lexpos'] = "code"
    <3>1. After(LiteralMode(in_charconst, string_escape), next) = "code"
      BY <1>1 DEF LiteralMode, After, Quote
    <3>2. QED
      BY <2>1, <2>2, <3>1
  <2>5. QED
    BY <2>1, <2>3, <2>4 DEF StateInv, ModeInv, Reads
<1>4. QED
  BY <1>2, <1>3

LEMMA TokenErrorFails ==
  ASSUME token_error
  PROVE  /\ outcome' \in {"end", "error", "crash"}
         /\ UNCHANGED <<input, lexpos, lexstate, string, lines, tokens>>
BY DEF token_error

LEMMA KeepsPlainChar ==
  ASSUME StateInv, PlainChar
  PROVE  StateInv'
<1>1. InString /\ ~ string_escape /\ next \notin {"bs", Quote}
  BY DEF PlainChar, Plain
<1>2. CASE in_charconst /\ string_buf # <<>>
  BY <1>2, KeepsFailing, TokenErrorFails DEF PlainChar
<1>3. CASE ~ (in_charconst /\ string_buf # <<>>)
  <2>1. /\ string_buf' = Append(string_buf, next) /\ Consume(1)
        /\ UNCHANGED <<lexstate, string_start, string_escape, in_charconst, lines, tokens>>
    BY <1>3 DEF PlainChar
  <2>2. string_buf' \in Seq(Characters) /\ string_escape' \in BOOLEAN
    <3>1. next \in Characters
      BY <1>1, InStringMode DEF Characters
    <3>2. string_buf \in Seq(Characters) /\ string_escape \in BOOLEAN
      BY DEF StateInv, TypeInv
    <3>3. QED
      BY <2>1, <3>1, <3>2
  <2>3. After(LiteralMode(in_charconst, string_escape), next)
          = LiteralMode(in_charconst, string_escape')
    BY <1>1, <2>1 DEF LiteralMode, After, Quote
  <2>4. QED
    BY <1>1, <2>1, <2>2, <2>3, KeepsReading
<1>4. QED
  BY <1>2, <1>3

LEMMA StateInvariant == Spec => []StateInv
<1>1. Init => StateInv
  BY InitState
<1>2. ASSUME StateInv, [Next]_vars PROVE StateInv'
  <2>1. CASE t_ID
    BY <1>2, <2>1, KeepsWord DEF t_ID
  <2>2. CASE t_number
    BY <1>2, <2>2, KeepsWord DEF t_number
  <2>3. CASE t_string
    BY <1>2, <2>3, KeepsBegin DEF t_string
  <2>4. CASE t_char
    BY <1>2, <2>4, KeepsBegin DEF t_char
  <2>5. CASE t_comment
    BY <1>2, <2>5, KeepsComment
  <2>6. CASE Operators
    BY <1>2, <2>6, KeepsOperators
  <2>7. CASE t_cpp_line_marker
    BY <1>2, <2>7, KeepsMarker
  <2>8. CASE t_error
    BY <1>2, <2>8, KeepsFailing, TokenErrorFails DEF t_error
  <2>9. CASE t_ANY_newline
    BY <1>2, <2>9, KeepsNewline
  <2>10. CASE t_comment_end
    BY <1>2, <2>10, KeepsCommentEnd
  <2>11. CASE t_string_char
    BY <1>2, <2>11, KeepsEscapedChar, KeepsBeginEscape, KeepsEndOfString, KeepsPlainChar
       DEF t_string_char
  <2>12. CASE End
    BY <1>2, <2>12, KeepsFailing DEF End
  <2>13. CASE UNCHANGED vars
    <3>1. TypeInv'
      BY <1>2, <2>13 DEF StateInv, TypeInv, vars, string, lines
    <3>2. next' = next
      BY <2>13 DEF next, Symbol, vars
    <3>3. QED
      BY <1>2, <2>13, <3>1, <3>2 DEF StateInv, ModeInv, Reads, vars, string
  <2>14. QED
    BY <1>2, <2>1, <2>2, <2>3, <2>4, <2>5, <2>6, <2>7, <2>8, <2>9, <2>10, <2>11, <2>12,
       <2>13 DEF Next
<1>3. QED
  BY <1>1, <1>2, PTL DEF Spec

(* Whatever the input, the lexer is in a comment, string or character      *)
(* exactly where the text is, so that its rules, tried one after the       *)
(* other, read the text as symbol by symbol.                               *)
THEOREM StatesCorrect == Spec => []StatesExact
<1>1. StateInv => StatesExact
  <2> SUFFICES ASSUME StateInv PROVE StatesExact
    OBVIOUS
  <2>1. TypeOK
    <3>1. lexpos \in Nat /\ Len(input) \in 0..MaxLength /\ MaxLength \in Nat
      BY InputType, LengthAssumption DEF StateInv, TypeInv
    <3>2. lineno \in 1..(MarkerLine + MaxLength) /\ last_newline_pos \in -1..Len(input)
          /\ string_start \in 0..Len(input)
      BY <3>1 DEF StateInv, TypeInv, MarkerLine
    <3>3. QED
      BY <3>1, <3>2 DEF StateInv, TypeInv, TypeOK, Characters
  <2>2. PICK mode : mode = Mode(input)[lexpos]
    OBVIOUS
  <2>3. lexstate \in {"INITIAL", "string", "comment"}
        /\ in_charconst \in BOOLEAN /\ string_escape \in BOOLEAN
    BY DEF StateInv, TypeInv
  <2>4. CASE lexstate = "INITIAL"
    <3>1. mode \in {"code", "slash", "line"}
      BY <2>2, <2>4 DEF StateInv, ModeInv, Reads
    <3>2. QED
      BY <2>1, <2>2, <2>4, <3>1 DEF StatesExact, Literals
  <2>5. CASE lexstate = "comment"
    <3>1. mode \in {"comment", "star"}
      BY <2>2, <2>5 DEF StateInv, ModeInv, Reads
    <3>2. QED
      BY <2>1, <2>2, <2>5, <3>1 DEF StatesExact, Literals
  <2>6. CASE lexstate = "string"
    <3>1. mode = LiteralMode(in_charconst, string_escape)
      BY <2>2, <2>6 DEF StateInv, ModeInv, Reads
    <3>2. QED
      BY <2>1, <2>2, <2>3, <2>6, <3>1 DEF StatesExact, Literals, LiteralMode
  <2>7. QED
    BY <2>3, <2>4, <2>5, <2>6
<1>2. QED
  BY <1>1, StateInvariant, PTL

----------------------------------------------------------------------------
(* Sequences put together, and what constants stand for                    *)

(* The parts of s up to each of its elements, put together.                *)
Flattens(g, s, C) ==
  /\ g \in [0..Len(s) -> Seq(C)] /\ g[0] = <<>>
  /\ \A i \in 1..Len(s) : g[i] = g[i - 1] \o s[i]

LEMMA FlattenSteps ==
  ASSUME NEW C, NEW s \in Seq(Seq(C))
  PROVE  \E g : Flattens(g, s, C) /\ FlattenSeq(s) = g[Len(s)]
<1> DEFINE N == Len(s)
           step == [z \in (1..N) \X Seq(C) |-> z[2] \o s[z[1]]]
           Equation(m) == m = [i \in 1..N |-> IF i = 1 THEN s[i] ELSE m[i - 1] \o s[i]]
           flatten[i \in 1..N] == IF i = 1 THEN s[i] ELSE flatten[i - 1] \o s[i]
<1>1. N \in Nat /\ \A i \in 1..N : s[i] \in Seq(C)
  OBVIOUS
<1>2. step \in [(1..N) \X Seq(C) -> Seq(C)]
  BY <1>1
<1>3. PICK g : IsRecursion(g, N, Seq(C), <<>>, step)
  <2> HIDE DEF step, N
  <2>1. <<>> \in Seq(C)
    OBVIOUS
  <2>2. QED
    BY <1>1, <1>2, <2>1, Recursion
<1>4. g \in [0..N -> Seq(C)] /\ g[0] = <<>>
  BY <1>3 DEF IsRecursion
<1>5. \A i \in 1..N : g[i] = g[i - 1] \o s[i]
  <2>1. TAKE i \in 1..N
  <2>2. i - 1 \in 0..N
    BY <1>1
  <2>3. g[i - 1] \in Seq(C)
    BY <1>4, <2>2
  <2>4. g[i] = step[<<i, g[i - 1]>>]
    BY <1>3 DEF IsRecursion
  <2>5. QED
    BY <2>3, <2>4
<1>6. Flattens(g, s, C)
  BY <1>4, <1>5 DEF Flattens
<1>7. CASE N = 0
  <2>1. FlattenSeq(s) = s /\ s = <<>>
    BY <1>7 DEF FlattenSeq
  <2>2. QED
    BY <1>4, <1>6, <1>7, <2>1
<1>8. CASE N # 0
  <2> DEFINE r == [i \in 1..N |-> g[i]]
  <2>1. Equation(r)
    <3>1. ASSUME NEW i \in 1..N
          PROVE  g[i] = IF i = 1 THEN s[i] ELSE r[i - 1] \o s[i]
      <4>1. CASE i = 1
        <5>1. 1 \in 1..N /\ 1 - 1 = 0
          BY <1>1, <4>1
        <5>2. g[1] = <<>> \o s[1] /\ s[1] \in Seq(C)
          BY <1>1, <1>4, <1>5, <5>1
        <5>3. <<>> \o s[1] = s[1]
          BY <5>2
        <5>4. QED
          BY <4>1, <5>2, <5>3
      <4>2. CASE i # 1
        <5>1. i - 1 \in 1..N
          BY <1>1, <4>2
        <5>2. QED
          BY <1>5, <4>2, <5>1
      <4>3. QED
        BY <4>1, <4>2
    <3>2. QED
      BY <3>1
  <2>2. Equation(flatten)
    <3> HIDE DEF N, r
    <3>1. QED
      BY <2>1
  <2>3. FlattenSeq(s) = flatten[N]
    BY <1>8 DEF FlattenSeq
  <2>4. PICK f : f = flatten /\ Equation(f)
    BY <2>2
  <2>5. f[N] = g[N]
    <3> HIDE DEF flatten, step, r, N
    <3> DEFINE S == {i \in 0..N : i # 0 => f[i] = g[i]}
    <3>1. 0 \in S
      BY <1>1
    <3>2. ASSUME NEW i \in 0..N - 1, i \in S PROVE i + 1 \in S
      <4>1. i + 1 \in 1..N /\ i + 1 \in 0..N /\ (i + 1) - 1 = i /\ i \in Nat
        BY <1>1
      <4>2. f[i + 1] = IF i + 1 = 1 THEN s[i + 1] ELSE f[i] \o s[i + 1]
        BY <2>4, <4>1
      <4>3. g[i + 1] = g[i] \o s[i + 1] /\ s[i + 1] \in Seq(C)
        BY <1>1, <1>5, <4>1
      <4>4. CASE i = 0
        <5>1. i + 1 = 1
          BY <4>4
        <5>2. g[1] = <<>> \o s[1] /\ f[1] = s[1] /\ s[1] \in Seq(C)
          BY <1>4, <4>2, <4>3, <4>4, <5>1
        <5>3. <<>> \o s[1] = s[1]
          BY <5>2
        <5>4. QED
          BY <4>1, <5>1, <5>2, <5>3
      <4>5. CASE i # 0
        <5>1. i + 1 # 1 /\ f[i] = g[i]
          BY <3>2, <4>1, <4>5
        <5>2. QED
          BY <4>1, <4>2, <4>3, <5>1
      <4>6. QED
        BY <4>4, <4>5
    <3>3. 0..N \subseteq S
      <4> HIDE DEF S
      <4>1. QED
        BY <1>1, <3>1, <3>2, SetIntervalInduction
    <3>4. QED
      BY <1>1, <1>8, <3>3
  <2>6. FlattenSeq(s) = g[N]
    <3> HIDE DEF flatten, step, r, N
    <3>1. QED
      BY <2>3, <2>4, <2>5
  <2>7. QED
    BY <1>6, <2>6
<1>9. QED
  BY <1>7, <1>8

LEMMA FlattenType ==
  ASSUME NEW C, NEW s \in Seq(Seq(C))
  PROVE  FlattenSeq(s) \in Seq(C)
<1>1. PICK g : Flattens(g, s, C) /\ FlattenSeq(s) = g[Len(s)]
  BY FlattenSteps
<1>2. Len(s) \in 0..Len(s)
  OBVIOUS
<1>3. QED
  BY <1>1, <1>2 DEF Flattens

LEMMA FlattenEmpty ==
  ASSUME NEW C
  PROVE  FlattenSeq(<<>>) = <<>>
BY DEF FlattenSeq

LEMMA FlattenAppend ==
  ASSUME NEW C, NEW s \in Seq(Seq(C)), NEW x \in Seq(C)
  PROVE  FlattenSeq(Append(s, x)) = FlattenSeq(s) \o x
<1> DEFINE t == Append(s, x)
           N == Len(s)
<1>1. N \in Nat /\ t \in Seq(Seq(C)) /\ Len(t) = N + 1 /\ t[N + 1] = x
      /\ \A i \in 1..N : t[i] = s[i]
  OBVIOUS
<1> HIDE DEF t, N
<1>2. PICK g : Flattens(g, s, C) /\ FlattenSeq(s) = g[N]
  BY FlattenSteps DEF N
<1>3. PICK h : Flattens(h, t, C) /\ FlattenSeq(t) = h[N + 1]
  BY <1>1, FlattenSteps
<1>4. g[0] = <<>> /\ \A i \in 1..N : g[i] = g[i - 1] \o s[i]
  BY <1>2 DEF Flattens, N
<1>5. h[0] = <<>> /\ \A i \in 1..N + 1 : h[i] = h[i - 1] \o t[i]
  BY <1>1, <1>3 DEF Flattens
<1> DEFINE S == {i \in 0..N : g[i] = h[i]}
<1>6. 0 \in S
  BY <1>1, <1>4, <1>5
<1>7. ASSUME NEW i \in 0..N - 1, i \in S PROVE i + 1 \in S
  <2>1. i + 1 \in 1..N /\ i + 1 \in 1..N + 1 /\ i + 1 \in 0..N /\ (i + 1) - 1 = i
    BY <1>1
  <2>2. g[i + 1] = g[i] \o s[i + 1] /\ h[i + 1] = h[i] \o t[i + 1] /\ t[i + 1] = s[i + 1]
    BY <1>1, <1>4, <1>5, <2>1
  <2>3. QED
    BY <1>7, <2>1, <2>2
<1>8. 0..N \subseteq S
  <2> HIDE DEF S
  <2>1. QED
    BY <1>1, <1>6, <1>7, SetIntervalInduction
<1>9. g[N] = h[N]
  BY <1>1, <1>8
<1>10. N + 1 \in 1..N + 1 /\ (N + 1) - 1 = N
  BY <1>1
<1>11. h[N + 1] = h[N] \o x
  BY <1>1, <1>5, <1>10
<1>12. QED
  BY <1>2, <1>3, <1>9, <1>11 DEF t

(* The mode depends on what was read only.                                 *)
LEMMA ModePrefix ==
  ASSUME NEW text \in Seq(Symbols), NEW longer \in Seq(Symbols), Len(text) <= Len(longer),
         \A p \in 1..Len(text) : longer[p] = text[p]
  PROVE  \A p \in 0..Len(text) : Mode(longer)[p] = Mode(text)[p]
<1> DEFINE S == {p \in 0..Len(text) : Mode(longer)[p] = Mode(text)[p]}
<1>1. 0 \in S
  BY ModeSteps
<1>2. ASSUME NEW p \in 0..Len(text) - 1, p \in S PROVE p + 1 \in S
  <2>1. p + 1 \in 1..Len(text) /\ p + 1 \in 1..Len(longer) /\ p + 1 \in 0..Len(text)
        /\ (p + 1) - 1 = p
    OBVIOUS
  <2>2. /\ Mode(text)[p + 1] = After(Mode(text)[p], text[p + 1])
        /\ Mode(longer)[p + 1] = After(Mode(longer)[p], longer[p + 1])
    BY <2>1, ModeSteps
  <2>3. QED
    BY <1>2, <2>1, <2>2
<1>3. 0..Len(text) \subseteq S
  <2> HIDE DEF S
  <2>1. Len(text) \in Nat
    OBVIOUS
  <2>2. QED
    BY <1>1, <1>2, <2>1, SetIntervalInduction
<1>4. QED
  BY <1>3

Escapes == {"string escape", "char escape"}
Quotes == {"dq", "sq"}

(* The mode after text that follows a quote.                               *)
LitMode(text, quote) == Mode(<<quote>> \o text)[Len(text) + 1]

(* The text does not end the constant.                                     *)
Inside(text, quote) ==
  \A p \in 1..Len(text) + 1 : Mode(<<quote>> \o text)[p] \in Literals

LEMMA MeaningType ==
  ASSUME NEW m \in Literals, NEW c \in Symbols
  PROVE  Meaning(m, c) \in Seq(Characters)
<1>1. CASE c = "nl"
  BY <1>1 DEF Meaning
<1>2. CASE c # "nl" /\ m \in Escapes
  <2>1. Unescaped(c) \in Characters /\ Meaning(m, c) = <<Unescaped(c)>>
    BY <1>2 DEF Unescaped, Characters, Meaning, Escapes
  <2>2. QED
    BY <2>1
<1>3. CASE c # "nl" /\ m \notin Escapes
  <2>1. c \in Characters /\ Meaning(m, c) = IF c = "bs" THEN <<>> ELSE <<c>>
    BY <1>3 DEF Characters, Meaning, Escapes, Literals
  <2>2. QED
    BY <2>1
<1>4. QED
  BY <1>1, <1>2, <1>3

(* What the symbols of a constant stand for, one by one.                   *)
Meanings(text, quote) ==
  [p \in DOMAIN text |-> Meaning(Mode(<<quote>> \o text)[p], text[p])]

LEMMA MeaningsType ==
  ASSUME NEW quote \in Quotes, NEW text \in Seq(Symbols), Inside(text, quote)
  PROVE  Meanings(text, quote) \in Seq(Seq(Characters)) /\ ValueOf(text, quote) \in Seq(Characters)
<1>1. ASSUME NEW p \in 1..Len(text)
      PROVE  Meaning(Mode(<<quote>> \o text)[p], text[p]) \in Seq(Characters)
  <2>1. p \in 1..Len(text) + 1 /\ text[p] \in Symbols
    OBVIOUS
  <2>2. QED
    BY <2>1, MeaningType DEF Inside
<1>2. DOMAIN text = 1..Len(text) /\ Len(text) \in Nat
  OBVIOUS
<1> DEFINE m(p) == Meaning(Mode(<<quote>> \o text)[p], text[p])
<1>3. Meanings(text, quote) = [p \in 1..Len(text) |-> m(p)]
  BY <1>2 DEF Meanings
<1>4. Meanings(text, quote) \in Seq(Seq(Characters))
  <2>1. \A p \in 1..Len(text) : m(p) \in Seq(Characters)
    BY <1>1
  <2> HIDE DEF m
  <2>2. QED
    BY <1>2, <1>3, <2>1
<1>5. QED
  BY <1>4, FlattenType DEF ValueOf, Meanings

LEMMA ValueEmpty ==
  ASSUME NEW quote \in Quotes
  PROVE  /\ ValueOf(<<>>, quote) = <<>> /\ Inside(<<>>, quote)
         /\ LitMode(<<>>, quote) = IF quote = "sq" THEN "char" ELSE "string"
<1>1. <<quote>> \o <<>> = <<quote>> /\ <<quote>> \in Seq(Symbols) /\ Len(<<quote>>) = 1
      /\ <<quote>>[1] = quote
  BY DEF Quotes, Symbols
<1>2. 1 \in 1..Len(<<quote>>) /\ 1 - 1 = 0 /\ Len(<<>>) + 1 = 1
  BY <1>1
<1>3. Mode(<<quote>>)[1] = After("code", quote)
  <2>1. Mode(<<quote>>)[0] = "code" /\ Mode(<<quote>>)[1] = After(Mode(<<quote>>)[1 - 1], <<quote>>[1])
    BY <1>1, <1>2, ModeSteps
  <2>2. QED
    BY <1>1, <1>2, <2>1
<1>4. After("code", quote) = IF quote = "sq" THEN "char" ELSE "string"
  BY DEF After, Quotes
<1>5. Inside(<<>>, quote)
  <2>1. \A p \in 1..Len(<<>>) + 1 : p = 1
    BY <1>2
  <2>2. QED
    BY <1>1, <1>3, <1>4, <2>1 DEF Inside, Literals
<1>6. ValueOf(<<>>, quote) = <<>>
  <2>1. [p \in DOMAIN <<>> |-> Meaning(Mode(<<quote>> \o <<>>)[p], <<>>[p])] = <<>>
    OBVIOUS
  <2>2. QED
    BY <2>1, FlattenEmpty DEF ValueOf
<1>7. QED
  BY <1>1, <1>2, <1>3, <1>4, <1>5, <1>6 DEF LitMode

(* The mode after a symbol more.                                           *)
LEMMA LitModeAppend ==
  ASSUME NEW quote \in Quotes, NEW text \in Seq(Symbols), NEW c \in Symbols
  PROVE  /\ LitMode(Append(text, c), quote) = After(LitMode(text, quote), c)
         /\ \A p \in 0..Len(text) + 1 :
              Mode(<<quote>> \o Append(text, c))[p] = Mode(<<quote>> \o text)[p]
<1> DEFINE a == <<quote>> \o text
           b == <<quote>> \o Append(text, c)
           n == Len(text) + 1
<1>1. quote \in Symbols
  BY DEF Quotes, Symbols
<1>2. a \in Seq(Symbols) /\ Len(a) = n /\ n \in Nat
  BY <1>1
<1>3. b = Append(a, c)
  BY <1>1
<1>4. b \in Seq(Symbols) /\ Len(b) = n + 1 /\ b[n + 1] = c /\ Len(Append(text, c)) + 1 = n + 1
  <2>1. Len(Append(text, c)) = n
    OBVIOUS
  <2> HIDE DEF a, b, n
  <2>2. QED
    BY <1>2, <1>3, <2>1
<1>5. \A p \in 1..Len(a) : b[p] = a[p]
  <2> HIDE DEF a, b, n
  <2>1. QED
    BY <1>2, <1>3
<1> HIDE DEF a, b, n
<1>6. \A p \in 0..n : Mode(b)[p] = Mode(a)[p]
  BY <1>2, <1>4, <1>5, ModePrefix
<1>7. Mode(b)[n + 1] = After(Mode(a)[n], c)
  <2>1. n + 1 \in 1..Len(b) /\ (n + 1) - 1 = n /\ n \in 0..n
    BY <1>2, <1>4
  <2>2. Mode(b)[n + 1] = After(Mode(b)[n], b[n + 1])
    BY <1>4, <2>1, ModeSteps
  <2>3. QED
    BY <1>4, <1>6, <2>1, <2>2
<1>8. LitMode(text, quote) = Mode(a)[n] /\ LitMode(Append(text, c), quote) = Mode(b)[n + 1]
  BY <1>4 DEF LitMode, a, b, n
<1>9. QED
  BY <1>6, <1>7, <1>8 DEF a, b, n

LEMMA ValueAppend ==
  ASSUME NEW quote \in Quotes, NEW text \in Seq(Symbols), NEW c \in Symbols,
         Inside(text, quote), After(LitMode(text, quote), c) \in Literals
  PROVE  /\ Inside(Append(text, c), quote)
         /\ ValueOf(Append(text, c), quote)
              = ValueOf(text, quote) \o Meaning(LitMode(text, quote), c)
<1> DEFINE n == Len(text)
           t == Append(text, c)
           m == LitMode(text, quote)
<1>1. n \in Nat /\ t \in Seq(Symbols) /\ Len(t) = n + 1 /\ t[n + 1] = c
      /\ \A p \in 1..n : t[p] = text[p]
  OBVIOUS
<1>2. /\ \A p \in 0..n + 1 : Mode(<<quote>> \o t)[p] = Mode(<<quote>> \o text)[p]
      /\ LitMode(t, quote) = After(m, c)
  BY LitModeAppend
<1>3. m = Mode(<<quote>> \o text)[n + 1] /\ LitMode(t, quote) = Mode(<<quote>> \o t)[n + 2]
  <2>1. Len(t) + 1 = n + 2
    BY <1>1
  <2> HIDE DEF t, n
  <2>2. LitMode(t, quote) = Mode(<<quote>> \o t)[n + 2]
    BY <2>1 DEF LitMode
  <2>3. m = Mode(<<quote>> \o text)[n + 1]
    BY DEF LitMode, n
  <2>4. QED
    BY <2>2, <2>3
<1> HIDE DEF t, n, m
<1>4. Inside(t, quote)
  <2>1. SUFFICES ASSUME NEW p \in 1..Len(t) + 1 PROVE Mode(<<quote>> \o t)[p] \in Literals
    BY DEF Inside
  <2>2. CASE p = n + 2
    BY <1>2, <1>3, <2>2 DEF m
  <2>3. CASE p # n + 2
    <3>1. p \in 0..n + 1 /\ p \in 1..Len(text) + 1
      BY <1>1, <2>3 DEF n
    <3>2. QED
      BY <1>2, <3>1 DEF Inside
  <2>4. QED
    BY <2>2, <2>3
<1>5. m \in Literals
  <2>1. n + 1 \in 1..Len(text) + 1
    BY <1>1 DEF n
  <2>2. QED
    BY <1>3, <2>1 DEF Inside
<1>6. Meanings(t, quote) = Append(Meanings(text, quote), Meaning(m, c))
  <2>1. PICK f : f = Meanings(t, quote)
    OBVIOUS
  <2>2. PICK g : g = Meanings(text, quote)
    OBVIOUS
  <2>3. PICK x : x = Meaning(m, c)
    OBVIOUS
  <2>4. f \in Seq(Seq(Characters)) /\ g \in Seq(Seq(Characters)) /\ x \in Seq(Characters)
    BY <1>1, <1>4, <1>5, <2>1, <2>2, <2>3, MeaningsType, MeaningType
  <2>5. DOMAIN text = 1..n /\ DOMAIN t = 1..n + 1
    BY <1>1 DEF n
  <2>6. Len(g) = n /\ Len(f) = n + 1
    <3>1. DOMAIN g = 1..n /\ DOMAIN f = 1..n + 1
      BY <2>1, <2>2, <2>5 DEF Meanings
    <3>2. QED
      BY <1>1, <2>4, <3>1
  <2>7. f[n + 1] = x
    <3>1. n + 1 \in DOMAIN t /\ n + 1 \in 0..n + 1
      BY <1>1, <2>5
    <3>2. f[n + 1] = Meaning(Mode(<<quote>> \o t)[n + 1], t[n + 1])
      BY <2>1, <3>1 DEF Meanings
    <3>3. QED
      BY <1>1, <1>2, <1>3, <2>3, <3>1, <3>2
  <2>8. \A p \in 1..n : f[p] = g[p]
    <3>1. TAKE p \in 1..n
    <3>2. p \in DOMAIN text /\ p \in DOMAIN t /\ p \in 0..n + 1
      BY <1>1, <2>5
    <3>3. /\ f[p] = Meaning(Mode(<<quote>> \o t)[p], t[p])
          /\ g[p] = Meaning(Mode(<<quote>> \o text)[p], text[p])
      BY <2>1, <2>2, <3>2 DEF Meanings
    <3>4. QED
      BY <1>1, <1>2, <3>2, <3>3
  <2>9. f = Append(g, x)
    BY <1>1, <2>4, <2>6, <2>7, <2>8
  <2>10. QED
    BY <2>1, <2>2, <2>3, <2>9
<1>7. Meanings(text, quote) \in Seq(Seq(Characters)) /\ Meaning(m, c) \in Seq(Characters)
  BY <1>5, MeaningsType, MeaningType
<1>8. ValueOf(t, quote) = FlattenSeq(Meanings(t, quote))
      /\ ValueOf(text, quote) = FlattenSeq(Meanings(text, quote))
  BY DEF ValueOf, Meanings
<1>9. ValueOf(t, quote) = ValueOf(text, quote) \o Meaning(m, c)
  BY <1>6, <1>7, <1>8, FlattenAppend
<1>10. QED
  BY <1>4, <1>9 DEF t, m

(* Constants as they are printed                                           *)

\* No value has a line end of the source in it.
Values == Characters \ {"nl"}

EscapedForm(c, quote) ==
  IF c = "newline" THEN <<"bs", "n">>
  ELSE IF c \in {"bs", quote} THEN <<"bs", c>> ELSE <<c>>

EscapedForms(value, quote) == [i \in DOMAIN value |-> EscapedForm(value[i], quote)]

LEMMA EscapedFormType ==
  ASSUME NEW c \in Values, NEW quote \in Quotes
  PROVE  EscapedForm(c, quote) \in Seq(Symbols)
<1>1. CASE c = "newline"
  BY <1>1 DEF EscapedForm, Symbols
<1>2. CASE c # "newline"
  <2>1. c \in Symbols /\ "bs" \in Symbols
    BY <1>2 DEF Values, Characters, Symbols
  <2>2. EscapedForm(c, quote) \in {<<"bs", c>>, <<c>>}
    BY <1>2 DEF EscapedForm
  <2>3. <<"bs", c>> \in Seq(Symbols) /\ <<c>> \in Seq(Symbols)
    BY <2>1
  <2>4. QED
    BY <2>2, <2>3
<1>3. QED
  BY <1>1, <1>2

LEMMA EscapedFormsType ==
  ASSUME NEW value \in Seq(Values), NEW quote \in Quotes
  PROVE  /\ EscapedForms(value, quote) \in Seq(Seq(Symbols))
         /\ escape(value, quote) \in Seq(Symbols)
<1> DEFINE e(i) == EscapedForm(value[i], quote)
<1>1. DOMAIN value = 1..Len(value) /\ Len(value) \in Nat
      /\ \A i \in 1..Len(value) : value[i] \in Values
  OBVIOUS
<1>2. \A i \in 1..Len(value) : e(i) \in Seq(Symbols)
  BY <1>1, EscapedFormType
<1>3. EscapedForms(value, quote) = [i \in 1..Len(value) |-> e(i)]
  BY <1>1 DEF EscapedForms
<1>4. EscapedForms(value, quote) \in Seq(Seq(Symbols))
  <2> HIDE DEF e
  <2>1. QED
    BY <1>1, <1>2, <1>3
<1>5. escape(value, quote) = FlattenSeq(EscapedForms(value, quote))
  BY DEF escape, EscapedForms, EscapedForm
<1>6. QED
  BY <1>4, <1>5, FlattenType

LEMMA EscapeAppend ==
  ASSUME NEW value \in Seq(Values), NEW c \in Values, NEW quote \in Quotes
  PROVE  escape(Append(value, c), quote) = escape(value, quote) \o EscapedForm(c, quote)
<1> DEFINE t == Append(value, c)
           n == Len(value)
<1>1. n \in Nat /\ t \in Seq(Values) /\ DOMAIN t = 1..n + 1 /\ t[n + 1] = c
      /\ DOMAIN value = 1..n /\ \A i \in 1..n : t[i] = value[i]
  OBVIOUS
<1> HIDE DEF t, n
<1>2. PICK f : f = EscapedForms(t, quote)
  OBVIOUS
<1>3. PICK g : g = EscapedForms(value, quote)
  OBVIOUS
<1>4. PICK x : x = EscapedForm(c, quote)
  OBVIOUS
<1>5. f \in Seq(Seq(Symbols)) /\ g \in Seq(Seq(Symbols)) /\ x \in Seq(Symbols)
  BY <1>1, <1>2, <1>3, <1>4, EscapedFormsType, EscapedFormType
<1>6. Len(f) = n + 1 /\ Len(g) = n
  <2>1. DOMAIN f = 1..n + 1 /\ DOMAIN g = 1..n
    BY <1>1, <1>2, <1>3 DEF EscapedForms
  <2>2. QED
    BY <1>1, <1>5, <2>1
<1>7. f[n + 1] = x
  BY <1>1, <1>2, <1>4 DEF EscapedForms
<1>8. \A i \in 1..n : f[i] = g[i]
  <2>1. TAKE i \in 1..n
  <2>2. i \in DOMAIN t /\ i \in DOMAIN value
    BY <1>1
  <2>3. f[i] = EscapedForm(t[i], quote) /\ g[i] = EscapedForm(value[i], quote)
    BY <1>2, <1>3, <2>2 DEF EscapedForms
  <2>4. QED
    BY <1>1, <2>3
<1>9. f = Append(g, x)
  BY <1>1, <1>5, <1>6, <1>7, <1>8
<1>10. FlattenSeq(f) = FlattenSeq(g) \o x
  BY <1>5, <1>9, FlattenAppend
<1>11. escape(t, quote) = FlattenSeq(f) /\ escape(value, quote) = FlattenSeq(g)
  BY <1>2, <1>3 DEF escape, EscapedForms, EscapedForm
<1>12. QED
  BY <1>4, <1>10, <1>11 DEF t

PlainMode(quote) == IF quote = "sq" THEN "char" ELSE "string"

(* Text that is read as the value.                                         *)
ReadsAs(text, quote, value) ==
  /\ text \in Seq(Symbols) /\ Inside(text, quote)
  /\ LitMode(text, quote) = PlainMode(quote)
  /\ ValueOf(text, quote) = value

LEMMA ReadsPlain ==
  ASSUME NEW quote \in Quotes, NEW value \in Seq(Values), NEW text,
         ReadsAs(text, quote, value),
         NEW c \in Values, c \notin {"newline", "bs", quote}
  PROVE  ReadsAs(Append(text, c), quote, Append(value, c))
<1>1. c \in Symbols /\ c # "nl"
  BY DEF Values, Characters
<1>2. After(PlainMode(quote), c) = PlainMode(quote) /\ PlainMode(quote) \in Literals
  BY <1>1 DEF After, PlainMode, Quotes, Literals
<1>3. Meaning(PlainMode(quote), c) = <<c>>
  BY <1>1 DEF Meaning, PlainMode
<1>4. Append(value, c) = value \o <<c>>
  OBVIOUS
<1>5. /\ Inside(Append(text, c), quote)
      /\ ValueOf(Append(text, c), quote) = value \o <<c>>
      /\ LitMode(Append(text, c), quote) = PlainMode(quote)
  <2>1. /\ text \in Seq(Symbols) /\ Inside(text, quote)
        /\ LitMode(text, quote) = PlainMode(quote) /\ ValueOf(text, quote) = value
    BY DEF ReadsAs
  <2>2. LitMode(Append(text, c), quote) = PlainMode(quote)
    BY <1>1, <1>2, <2>1, LitModeAppend
  <2>3. /\ Inside(Append(text, c), quote)
        /\ ValueOf(Append(text, c), quote) = value \o <<c>>
    BY <1>1, <1>2, <1>3, <2>1, ValueAppend
  <2>4. QED
    BY <2>2, <2>3
<1>6. Append(text, c) \in Seq(Symbols)
  BY <1>1 DEF ReadsAs
<1>7. QED
  BY <1>4, <1>5, <1>6 DEF ReadsAs

LEMMA ReadsEscape ==
  ASSUME NEW quote \in Quotes, NEW value \in Seq(Values), NEW text,
         ReadsAs(text, quote, value), NEW d \in Symbols, d # "nl"
  PROVE  ReadsAs(Append(Append(text, "bs"), d), quote, Append(value, Unescaped(d)))
<1> DEFINE esc == IF quote = "sq" THEN "char escape" ELSE "string escape"
           t == Append(text, "bs")
<1>1. "bs" \in Symbols /\ t \in Seq(Symbols)
  BY DEF Symbols, ReadsAs
<1>2. /\ After(PlainMode(quote), "bs") = esc /\ esc \in Literals
      /\ After(esc, d) = PlainMode(quote) /\ PlainMode(quote) \in Literals
  BY DEF After, PlainMode, Literals
<1>3. Meaning(PlainMode(quote), "bs") = <<>> /\ Meaning(esc, d) = <<Unescaped(d)>>
  BY DEF Meaning, PlainMode
<1> HIDE DEF esc, t
<1>4. value \o <<>> = value /\ Append(value, Unescaped(d)) = value \o <<Unescaped(d)>>
  <2>1. Unescaped(d) \in Characters /\ value \in Seq(Characters)
    BY DEF Unescaped, Characters, Values
  <2>2. QED
    BY <2>1
<1>5. Inside(t, quote) /\ ValueOf(t, quote) = value /\ LitMode(t, quote) = esc
  BY <1>1, <1>2, <1>3, <1>4, ValueAppend, LitModeAppend DEF ReadsAs, t
<1>6. /\ Inside(Append(t, d), quote)
      /\ ValueOf(Append(t, d), quote) = value \o <<Unescaped(d)>>
      /\ LitMode(Append(t, d), quote) = PlainMode(quote)
  <2>1. LitMode(Append(t, d), quote) = PlainMode(quote)
    BY <1>1, <1>2, <1>5, LitModeAppend
  <2>2. LitMode(t, quote) \in Literals
    BY <1>2, <1>5
  <2>3. QED
    BY <1>1, <1>2, <1>3, <1>5, <2>1, <2>2, ValueAppend
<1>7. QED
  BY <1>1, <1>4, <1>6 DEF ReadsAs, t

(* A constant that is printed is read back.                                *)
LEMMA PrintedReadsBack ==
  ASSUME NEW value \in Seq(Values), NEW quote \in Quotes
  PROVE  ReadsAs(escape(value, quote), quote, value)
<1> DEFINE v(n) == SubSeq(value, 1, n)
           S == {n \in 0..Len(value) : ReadsAs(escape(v(n), quote), quote, v(n))}
<1>1. Len(value) \in Nat /\ v(0) = <<>> /\ v(Len(value)) = value
  OBVIOUS
<1>2. 0 \in S
  <2>1. escape(<<>>, quote) = <<>>
    <3>1. DOMAIN <<>> = {}
      OBVIOUS
    <3>2. EscapedForms(<<>>, quote) = <<>>
      BY <3>1 DEF EscapedForms
    <3>3. QED
      BY <3>2, FlattenEmpty DEF escape, EscapedForms, EscapedForm
  <2>2. ReadsAs(<<>>, quote, <<>>)
    BY ValueEmpty DEF ReadsAs, PlainMode
  <2>3. ReadsAs(escape(v(0), quote), quote, v(0)) /\ 0 \in 0..Len(value)
    <3> HIDE DEF v
    <3>1. QED
      BY <1>1, <2>1, <2>2
  <2>4. QED
    BY <2>3
<1>3. ASSUME NEW n \in 0..Len(value) - 1, n \in S PROVE n + 1 \in S
  <2>1. PICK u : u = v(n)
    OBVIOUS
  <2>2. PICK c : c = value[n + 1]
    OBVIOUS
  <2>3. u \in Seq(Values) /\ c \in Values /\ v(n + 1) = Append(u, c) /\ n + 1 \in 0..Len(value)
    BY <2>1, <2>2
  <2>4. PICK e \in Seq(Symbols) : e = escape(u, quote)
    BY <2>3, EscapedFormsType
  <2>5. ReadsAs(e, quote, u)
    BY <1>3, <2>1, <2>4
  <2>6. escape(Append(u, c), quote) = e \o EscapedForm(c, quote)
    BY <2>3, <2>4, EscapeAppend
  <2>7. CASE c \notin {"newline", "bs", quote}
    <3>1. e \o EscapedForm(c, quote) = Append(e, c)
      BY <2>7 DEF EscapedForm
    <3>2. ReadsAs(Append(e, c), quote, Append(u, c))
      BY <2>3, <2>5, <2>7, ReadsPlain
    <3>3. QED
      BY <2>3, <2>6, <3>1, <3>2
  <2>8. CASE c \in {"newline", "bs", quote}
    <3>1. PICK d \in Symbols : /\ d # "nl" /\ Unescaped(d) = c
                               /\ EscapedForm(c, quote) = <<"bs", d>>
      <4>1. CASE c = "newline"
        BY <4>1 DEF Symbols, Unescaped, EscapedForm
      <4>2. CASE c # "newline"
        <5>1. c \in {"bs", "dq", "sq"}
          BY <2>8, <4>2 DEF Quotes
        <5>2. QED
          BY <2>8, <4>2, <5>1 DEF Symbols, Unescaped, EscapedForm
      <4>3. QED
        BY <4>1, <4>2
    <3>2. e \o <<"bs", d>> = Append(Append(e, "bs"), d)
      <4>1. "bs" \in Symbols
        BY DEF Symbols
      <4>2. QED
        BY <4>1
    <3>3. ReadsAs(Append(Append(e, "bs"), d), quote, Append(u, c))
      BY <2>3, <2>5, <3>1, ReadsEscape
    <3>4. QED
      BY <2>3, <2>6, <3>1, <3>2, <3>3
  <2>9. QED
    BY <2>7, <2>8
<1>4. 0..Len(value) \subseteq S
  <2> HIDE DEF S
  <2>1. QED
    BY <1>1, <1>2, <1>3, SetIntervalInduction
<1>5. Len(value) \in S
  <2> HIDE DEF S
  <2>1. QED
    BY <1>1, <1>4
<1>6. QED
  BY <1>1, <1>5

(* The quote after it ends the constant.                                   *)
LEMMA PrintedEnds ==
  ASSUME NEW value \in Seq(Values), NEW quote \in Quotes
  PROVE  LET printed == escape(value, quote)
             mode == Mode(<<quote>> \o printed \o <<quote>>)
         IN /\ \A p \in DOMAIN printed : mode[p + 1] \in Literals
            /\ mode[Len(printed) + 2] = "code"
<1> DEFINE printed == escape(value, quote)
           t == Append(printed, quote)
<1>1. printed \in Seq(Symbols) /\ Inside(printed, quote)
      /\ LitMode(printed, quote) = PlainMode(quote)
  BY PrintedReadsBack DEF ReadsAs
<1> HIDE DEF printed
<1>2. quote \in Symbols
  BY DEF Quotes, Symbols
<1>3. <<quote>> \o printed \o <<quote>> = <<quote>> \o t
  BY <1>1, <1>2
<1>4. Len(t) = Len(printed) + 1 /\ Len(printed) \in Nat /\ DOMAIN printed = 1..Len(printed)
  BY <1>1, <1>2
<1> HIDE DEF t
<1>5. /\ LitMode(t, quote) = After(PlainMode(quote), quote)
      /\ \A p \in 0..Len(printed) + 1 :
           Mode(<<quote>> \o t)[p] = Mode(<<quote>> \o printed)[p]
  BY <1>1, <1>2, LitModeAppend DEF t
<1>6. \A p \in DOMAIN printed : Mode(<<quote>> \o t)[p + 1] \in Literals
  <2>1. TAKE p \in DOMAIN printed
  <2>2. p + 1 \in 0..Len(printed) + 1 /\ p + 1 \in 1..Len(printed) + 1
    BY <1>4
  <2>3. QED
    BY <1>1, <1>5, <2>2 DEF Inside
<1>7. Mode(<<quote>> \o t)[Len(printed) + 2] = "code"
  <2>1. Len(t) + 1 = Len(printed) + 2
    BY <1>4
  <2>2. LitMode(t, quote) = Mode(<<quote>> \o t)[Len(printed) + 2]
    BY <2>1 DEF LitMode
  <2>3. After(PlainMode(quote), quote) = "code"
    BY DEF After, PlainMode, Quotes
  <2>4. QED
    BY <1>5, <2>2, <2>3
<1>8. QED
  BY <1>3, <1>6, <1>7 DEF printed

----------------------------------------------------------------------------
(* Values of constants                                                     *)

(* Text after a quote that leaves off in a mode and stands for a value.    *)
ReadsTo(text, quote, mode, value) ==
  /\ text \in Seq(Symbols) /\ Inside(text, quote)
  /\ LitMode(text, quote) = mode
  /\ ValueOf(text, quote) = value

LEMMA ReadsOn ==
  ASSUME NEW quote \in Quotes, NEW text, NEW m, NEW value, ReadsTo(text, quote, m, value),
         NEW c \in Symbols, After(m, c) \in Literals
  PROVE  ReadsTo(Append(text, c), quote, After(m, c), value \o Meaning(m, c))
<1>1. /\ text \in Seq(Symbols) /\ Inside(text, quote)
      /\ LitMode(text, quote) = m /\ ValueOf(text, quote) = value
  BY DEF ReadsTo
<1>2. LitMode(Append(text, c), quote) = After(m, c)
  BY <1>1, LitModeAppend
<1>3. /\ Inside(Append(text, c), quote)
      /\ ValueOf(Append(text, c), quote) = value \o Meaning(m, c)
  BY <1>1, ValueAppend
<1>4. Append(text, c) \in Seq(Symbols)
  BY <1>1
<1>5. QED
  BY <1>2, <1>3, <1>4 DEF ReadsTo

(* Line ends change nothing.                                               *)
LEMMA ReadsLineEnds ==
  ASSUME TypeInv, NEW quote \in Quotes, NEW m \in Literals, NEW value \in Seq(Characters),
         NEW a \in 1..lexpos + 1, ReadsTo(SubSeq(input, a, lexpos), quote, m, value),
         NEW k \in Nat, k <= Len(input) - lexpos,
         \A i \in 1..k : input[lexpos + i] = "nl"
  PROVE  ReadsTo(SubSeq(input, a, lexpos + k), quote, m, value)
<1> DEFINE S == {i \in 0..k : ReadsTo(SubSeq(input, a, lexpos + i), quote, m, value)}
<1>1. /\ lexpos \in Nat /\ Len(input) \in Nat /\ lexpos <= Len(input)
      /\ input \in Seq(Symbols) /\ a \in Nat /\ a > 0 /\ a <= lexpos + 1
  BY InputType DEF TypeInv
<1>2. 0 \in S
  BY <1>1
<1>3. ASSUME NEW i \in 0..k - 1, i \in S PROVE i + 1 \in S
  <2>0. PICK p \in Nat : p = lexpos + i
    BY <1>1
  <2>1. PICK text : text = SubSeq(input, a, p)
    OBVIOUS
  <2>2. /\ p + 1 = lexpos + (i + 1) /\ i + 1 \in 0..k /\ i + 1 \in 1..k
        /\ p + 1 <= Len(input) /\ a <= p + 1
    BY <1>1, <2>0
  <2>3. SubSeq(input, a, p + 1) = Append(text, "nl") /\ text \in Seq(Symbols)
    <3>1. input[p + 1] = "nl"
      BY <2>2
    <3>2. QED
      BY <1>1, <2>1, <2>2, <3>1
  <2>4. "nl" \in Symbols /\ After(m, "nl") = m /\ Meaning(m, "nl") = <<>> /\ value \o <<>> = value
    <3>1. After(m, "nl") = m
      BY DEF Literals, After
    <3>2. "nl" \in Symbols /\ Meaning(m, "nl") = <<>>
      BY DEF Symbols, Meaning
    <3>3. QED
      BY <3>1, <3>2
  <2>5. ReadsTo(text, quote, m, value)
    BY <1>3, <2>0, <2>1
  <2>6. ReadsTo(Append(text, "nl"), quote, After(m, "nl"), value \o Meaning(m, "nl"))
    BY <2>4, <2>5, ReadsOn
  <2>7. ReadsTo(Append(text, "nl"), quote, m, value)
    BY <2>4, <2>6
  <2>8. QED
    BY <2>2, <2>3, <2>7
<1>4. 0..k \subseteq S
  <2> HIDE DEF S
  <2>1. QED
    BY <1>2, <1>3, SetIntervalInduction
<1>5. k \in S
  <2> HIDE DEF S
  <2>1. QED
    BY <1>4
<1>6. QED
  BY <1>5

TokenValue(token) ==
  /\ token.value \in Seq(Values) /\ token.lexpos \in 1..Len(input)
  /\ input[token.lexpos] \in Quotes
  /\ token.value = ValueOf(SubSeq(input, token.lexpos + 1, token.end - 1), input[token.lexpos])
  /\ token.type = "CHARCONST" => Len(token.value) = 1

(* The buffer is what the text since the quote stands for.                 *)
OpenValue ==
  /\ string_start \in 1..lexpos /\ input[string_start] = Quote
  /\ string_buf \in Seq(Values)
  /\ ReadsTo(SubSeq(input, string_start + 1, lexpos), Quote,
             LiteralMode(in_charconst, string_escape), string_buf)

ClosedValues == \A i \in DOMAIN tokens : Constant(tokens[i]) => TokenValue(tokens[i])

ValueInv == StateInv /\ (lexstate = "string" => OpenValue) /\ ClosedValues

PlainTypes == TokenTypes \ {"CHARCONST", "STRINGCONST"}

(* Outside of constants no value changes.                                  *)
LEMMA KeepsOtherValues ==
  ASSUME ValueInv, StateInv', input' = input, lexstate' # "string",
         \/ tokens' = tokens
         \/ \E type \in PlainTypes : \E pos, value, end :
              tokens' = Append(tokens, Token(type, pos, value, end))
  PROVE  ValueInv'
<1>1. CASE tokens' = tokens
  BY <1>1 DEF ValueInv, ClosedValues, TokenValue, Constant
<1>2. CASE \E type \in PlainTypes : \E pos, value, end :
              tokens' = Append(tokens, Token(type, pos, value, end))
  <2>1. PICK token : token.type \in PlainTypes /\ tokens' = Append(tokens, token)
    BY <1>2 DEF Token
  <2>2. tokens \in Seq(TokenSet)
    BY DEF ValueInv, StateInv, TypeInv
  <2>3. \A i \in DOMAIN tokens' : tokens'[i] = token \/ \E j \in DOMAIN tokens : tokens'[i] = tokens[j]
    BY <2>1, <2>2
  <2>4. ~ Constant(token)
    BY <2>1 DEF PlainTypes, Constant
  <2>5. ASSUME NEW i \in DOMAIN tokens', Constant(tokens'[i]) PROVE TokenValue(tokens'[i])
    BY <2>3, <2>4, <2>5 DEF ValueInv, ClosedValues
  <2>6. ClosedValues'
    BY <2>5 DEF ClosedValues, TokenValue, Constant
  <2>7. QED
    BY <2>6 DEF ValueInv
<1>3. QED
  BY <1>1, <1>2

(* The text since a place, with the next symbol.                           *)
LEMMA TextGrows ==
  ASSUME TypeInv, next # "eof", NEW a \in 1..lexpos + 1
  PROVE  /\ SubSeq(input, a, lexpos) \in Seq(Symbols)
         /\ SubSeq(input, a, lexpos + 1) = Append(SubSeq(input, a, lexpos), next)
<1>1. /\ lexpos \in Nat /\ Len(input) \in Nat /\ 1 <= Len(input) - lexpos
      /\ input \in Seq(Symbols) /\ next = input[lexpos + 1]
  BY InputType, ReadsFirst DEF TypeInv
<1>2. QED
  BY <1>1

LEMMA QuoteType == Quote \in Quotes
BY DEF Quote, Quotes

LEMMA BeginValue ==
  ASSUME ValueInv, StateInv', InState("INITIAL"), NEW char \in BOOLEAN,
         next = (IF char THEN "sq" ELSE "dq"), Begin(char)
  PROVE  ValueInv'
<1>1. TypeInv /\ lexpos \in Nat /\ next # "eof" /\ input \in Seq(Symbols) /\ Len(input) \in Nat
  BY InputType DEF ValueInv, StateInv, TypeInv
<1>2. next = input[lexpos + 1]
  BY <1>1, ReadsFirst
<1>3. /\ input' = input /\ lexpos' = lexpos + 1 /\ string_start' = lexpos + 1
      /\ string_buf' = <<>> /\ string_escape' = FALSE /\ in_charconst' = char
      /\ tokens' = tokens
  BY DEF Begin, Consume
<1>4. Quote' = next
  BY <1>3 DEF Quote
<1>5. SubSeq(input, lexpos + 2, lexpos + 1) = <<>>
  BY <1>1
<1>6. ReadsTo(<<>>, next, LiteralMode(char, FALSE), <<>>)
  <2>1. next \in Quotes
    BY DEF Quotes
  <2>2. LiteralMode(char, FALSE) = IF next = "sq" THEN "char" ELSE "string"
    BY DEF LiteralMode
  <2>3. PICK quote \in Quotes : quote = next
    BY <2>1
  <2>4. /\ ValueOf(<<>>, quote) = <<>> /\ Inside(<<>>, quote)
        /\ LitMode(<<>>, quote) = LiteralMode(char, FALSE)
    BY <2>2, <2>3, ValueEmpty
  <2>5. <<>> \in Seq(Symbols)
    OBVIOUS
  <2>6. QED
    BY <2>3, <2>4, <2>5 DEF ReadsTo
<1>7. ReadsTo(SubSeq(input', string_start' + 1, lexpos'), Quote',
              LiteralMode(in_charconst', string_escape'), string_buf')
  <2>1. string_start' + 1 = lexpos + 2
    BY <1>1, <1>3
  <2>2. QED
    BY <1>3, <1>4, <1>5, <1>6, <2>1
<1>8. OpenValue'
  <2>1. string_start' \in 1..lexpos' /\ string_buf' \in Seq(Values)
    BY <1>1, <1>3
  <2>2. input'[string_start'] = Quote'
    BY <1>2, <1>3, <1>4
  <2>3. QED
    BY <1>7, <2>1, <2>2 DEF OpenValue
<1>9. ClosedValues'
  BY <1>3 DEF ValueInv, ClosedValues, TokenValue, Constant
<1>10. QED
  BY <1>8, <1>9 DEF ValueInv

(* The constant goes on.                                                   *)
LEMMA ValueGoesOn ==
  ASSUME ValueInv, StateInv', InString, Consume(1),
         UNCHANGED <<lexstate, string_start, in_charconst, tokens>>,
         After(LiteralMode(in_charconst, string_escape), next)
           = LiteralMode(in_charconst, string_escape'),
         string_escape' \in BOOLEAN, string_buf' \in Seq(Values),
         string_buf' = string_buf \o Meaning(LiteralMode(in_charconst, string_escape), next)
  PROVE  ValueInv'
<1>1. /\ TypeInv /\ lexpos \in Nat /\ lexstate = "string" /\ next \in Symbols /\ next # "eof"
  BY InStringMode DEF ValueInv
<1>2. OpenValue
  BY <1>1 DEF ValueInv
<1>3. string_start + 1 \in 1..lexpos + 1 /\ string_start \in Nat
  BY <1>1, <1>2 DEF OpenValue
<1>4. PICK m : m = LiteralMode(in_charconst, string_escape)
  OBVIOUS
<1>5. PICK text : text = SubSeq(input, string_start + 1, lexpos)
  OBVIOUS
<1>6. ReadsTo(Append(text, next), Quote, After(m, next), string_buf \o Meaning(m, next))
  <2>1. After(m, next) \in Literals
    BY <1>4 DEF LiteralMode, Literals
  <2>2. ReadsTo(text, Quote, m, string_buf)
    BY <1>2, <1>4, <1>5 DEF OpenValue
  <2>3. QED
    BY <1>1, <2>1, <2>2, QuoteType, ReadsOn
<1>7. SubSeq(input, string_start + 1, lexpos + 1) = Append(text, next)
  BY <1>1, <1>3, <1>5, TextGrows
<1>8. input' = input /\ lexpos' = lexpos + 1 /\ Quote' = Quote
  BY DEF Consume, Quote
<1>9. ReadsTo(SubSeq(input', string_start' + 1, lexpos'), Quote',
              LiteralMode(in_charconst', string_escape'), string_buf')
  BY <1>4, <1>6, <1>7, <1>8
<1>10. OpenValue'
  <2>1. string_start' \in 1..lexpos' /\ input'[string_start'] = Quote'
    BY <1>1, <1>2, <1>8 DEF OpenValue
  <2>2. QED
    BY <1>9, <2>1 DEF OpenValue
<1>11. ClosedValues'
  BY <1>8 DEF ValueInv, ClosedValues, TokenValue, Constant
<1>12. QED
  BY <1>10, <1>11 DEF ValueInv

LEMMA NewlineValue ==
  ASSUME ValueInv, StateInv', t_ANY_newline
  PROVE  ValueInv'
<1> DEFINE S == {"nl"}
<1>1. TypeInv /\ lexpos \in Nat /\ Len(input) \in Nat
  BY InputType DEF ValueInv, StateInv, TypeInv
<1>2. PICK k \in Nat : /\ k = RunOf(S) /\ k <= Len(input) - lexpos
                       /\ \A i \in 1..k : input[lexpos + i] = "nl"
  <2>1. /\ RunOf(S) \in 0..Len(input) - lexpos
        /\ \A i \in 1..RunOf(S) : input[lexpos + i] = "nl"
    BY <1>1, RunLength
  <2>2. RunOf(S) \in Nat /\ RunOf(S) <= Len(input) - lexpos
    BY <1>1, <2>1
  <2>3. QED
    BY <2>1, <2>2
<1>3. /\ input' = input /\ lexpos' = lexpos + k /\ lexstate' = lexstate
      /\ UNCHANGED string /\ tokens' = tokens
  BY <1>2 DEF t_ANY_newline, Consume
<1>4. CASE lexstate # "string"
  BY <1>3, <1>4, KeepsOtherValues
<1>5. CASE lexstate = "string"
  <2>1. OpenValue
    BY <1>5 DEF ValueInv
  <2>2. /\ UNCHANGED <<string_start, string_buf, string_escape, in_charconst>> /\ Quote' = Quote
    BY <1>3 DEF string, Quote
  <2>3. ReadsTo(SubSeq(input, string_start + 1, lexpos + k), Quote,
                LiteralMode(in_charconst, string_escape), string_buf)
    <3>1. string_start + 1 \in 1..lexpos + 1 /\ string_buf \in Seq(Characters)
      BY <1>1, <2>1 DEF OpenValue, TypeInv
    <3>2. LiteralMode(in_charconst, string_escape) \in Literals
      BY DEF LiteralMode, Literals
    <3>3. ReadsTo(SubSeq(input, string_start + 1, lexpos), Quote,
                  LiteralMode(in_charconst, string_escape), string_buf)
      BY <2>1 DEF OpenValue
    <3>4. QED
      BY <1>1, <1>2, <3>1, <3>2, <3>3, QuoteType, ReadsLineEnds
  <2>4. OpenValue'
    <3>1. string_start' \in 1..lexpos' /\ input'[string_start'] = Quote'
          /\ string_buf' \in Seq(Values)
      BY <1>1, <1>2, <1>3, <2>1, <2>2 DEF OpenValue
    <3>2. ReadsTo(SubSeq(input', string_start' + 1, lexpos'), Quote',
                  LiteralMode(in_charconst', string_escape'), string_buf')
      BY <1>3, <2>2, <2>3
    <3>3. QED
      BY <3>1, <3>2 DEF OpenValue
  <2>5. ClosedValues'
    BY <1>3 DEF ValueInv, ClosedValues, TokenValue, Constant
  <2>6. QED
    BY <2>4, <2>5 DEF ValueInv
<1>6. QED
  BY <1>4, <1>5

(* Nothing is read.                                                        *)
LEMMA IdleValue ==
  ASSUME ValueInv, StateInv', UNCHANGED <<input, lexpos, lexstate, string, tokens>>
  PROVE  ValueInv'
<1>1. UNCHANGED <<string_start, string_buf, string_escape, in_charconst>> /\ Quote' = Quote
  BY DEF string, Quote
<1>2. lexstate' = "string" => OpenValue'
  BY <1>1 DEF ValueInv, OpenValue
<1>3. ClosedValues'
  BY DEF ValueInv, ClosedValues, TokenValue, Constant
<1>4. QED
  BY <1>2, <1>3 DEF ValueInv

LEMMA EscapedCharValue ==
  ASSUME ValueInv, StateInv', EscapedChar
  PROVE  ValueInv'
<1>1. InString /\ string_escape
  BY DEF EscapedChar
<1>2. CASE next = "1"
  BY <1>2, IdleValue DEF EscapedChar
<1>3. CASE next # "1"
  <2>1. /\ string_buf' = Append(string_buf, Unescaped(next)) /\ string_escape' = FALSE
        /\ Consume(1) /\ UNCHANGED <<lexstate, string_start, in_charconst, tokens>>
    BY <1>3 DEF EscapedChar
  <2>2. next \in Symbols /\ next # "nl" /\ OpenValue
    BY <1>1, InStringMode DEF ValueInv
  <2>3. string_buf \in Seq(Values) /\ Unescaped(next) \in Values
    BY <2>2 DEF OpenValue, Unescaped, Values, Characters
  <2>4. string_buf' \in Seq(Values) /\ string_buf' = string_buf \o <<Unescaped(next)>>
    BY <2>1, <2>3
  <2>5. /\ After(LiteralMode(in_charconst, string_escape), next) = LiteralMode(in_charconst, FALSE)
        /\ Meaning(LiteralMode(in_charconst, string_escape), next) = <<Unescaped(next)>>
    BY <1>1, <2>2 DEF LiteralMode, After, Meaning
  <2>6. QED
    BY <1>1, <2>1, <2>4, <2>5, ValueGoesOn
<1>4. QED
  BY <1>2, <1>3

LEMMA BeginEscapeValue ==
  ASSUME ValueInv, StateInv', BeginEscape
  PROVE  ValueInv'
<1>1. InString /\ ~ string_escape /\ next = "bs" /\ string_escape' = TRUE /\ Consume(1)
      /\ UNCHANGED <<lexstate, string_start, in_charconst, tokens>> /\ string_buf' = string_buf
  BY DEF BeginEscape
<1>2. string_buf \in Seq(Values) /\ string_buf \o <<>> = string_buf
  <2>1. string_buf \in Seq(Values)
    BY <1>1, InStringMode DEF ValueInv, OpenValue
  <2>2. QED
    BY <2>1
<1>3. /\ After(LiteralMode(in_charconst, string_escape), next) = LiteralMode(in_charconst, TRUE)
      /\ Meaning(LiteralMode(in_charconst, string_escape), next) = <<>>
  BY <1>1 DEF LiteralMode, After, Meaning
<1>4. QED
  BY <1>1, <1>2, <1>3, ValueGoesOn

LEMMA PlainCharValue ==
  ASSUME ValueInv, StateInv', PlainChar
  PROVE  ValueInv'
<1>1. InString /\ ~ string_escape /\ next \notin {"bs", Quote}
  BY DEF PlainChar, Plain
<1>2. CASE in_charconst /\ string_buf # <<>>
  BY <1>2, IdleValue, TokenErrorFails DEF PlainChar
<1>3. CASE ~ (in_charconst /\ string_buf # <<>>)
  <2>1. /\ string_buf' = Append(string_buf, next) /\ Consume(1)
        /\ UNCHANGED <<lexstate, string_start, string_escape, in_charconst, tokens>>
    BY <1>3 DEF PlainChar
  <2>2. next \in Symbols /\ next # "nl" /\ OpenValue /\ string_escape \in BOOLEAN
    BY <1>1, InStringMode DEF ValueInv, TypeInv
  <2>3. string_buf \in Seq(Values) /\ next \in Values
    BY <2>2 DEF OpenValue, Values, Characters
  <2>4. string_buf' \in Seq(Values) /\ string_buf' = string_buf \o <<next>>
    BY <2>1, <2>3
  <2>5. /\ After(LiteralMode(in_charconst, string_escape), next)
             = LiteralMode(in_charconst, string_escape')
        /\ Meaning(LiteralMode(in_charconst, string_escape), next) = <<next>>
    BY <1>1, <2>1, <2>2 DEF LiteralMode, After, Meaning, Quote
  <2>6. QED
    BY <1>1, <2>1, <2>2, <2>4, <2>5, ValueGoesOn
<1>4. QED
  BY <1>2, <1>3

LEMMA EndOfStringValue ==
  ASSUME ValueInv, StateInv', EndOfString
  PROVE  ValueInv'
<1>1. InString /\ ~ string_escape /\ next = Quote
  BY DEF EndOfString
<1>2. CASE in_charconst /\ Len(string_buf) # 1
  BY <1>2, IdleValue DEF EndOfString
<1>3. CASE ~ (in_charconst /\ Len(string_buf) # 1)
  <2> DEFINE type == IF in_charconst THEN "CHARCONST" ELSE "STRINGCONST"
             token == Token(type, string_start, string_buf, lexpos + 1)
  <2>1. lexstate' = "INITIAL" /\ tokens' = Append(tokens, token) /\ input' = input
    BY <1>3 DEF EndOfString, Consume
  <2>2. TypeInv /\ OpenValue /\ lexpos \in Nat /\ tokens \in Seq(TokenSet)
        /\ lexpos <= Len(input) /\ Len(input) \in Nat
    BY <1>1, InStringMode DEF ValueInv, TypeInv
  <2>3. /\ token.lexpos = string_start /\ token.value = string_buf /\ token.end = lexpos + 1
        /\ token.type = type
    BY DEF Token
  <2>4. token.type = "CHARCONST" => Len(token.value) = 1
    BY <1>3, <2>3
  <2>5. TokenValue(token)
    <3>1. token.end - 1 = lexpos
      BY <2>2, <2>3
    <3>2. string_buf = ValueOf(SubSeq(input, string_start + 1, lexpos), Quote)
          /\ input[string_start] = Quote /\ string_start \in 1..Len(input)
          /\ string_buf \in Seq(Values)
      BY <2>2 DEF OpenValue, ReadsTo
    <3> HIDE DEF token
    <3>3. QED
      BY <2>3, <2>4, <3>1, <3>2, QuoteType DEF TokenValue
  <2> HIDE DEF token
  <2>6. \A i \in DOMAIN tokens' : tokens'[i] = token \/ \E j \in DOMAIN tokens : tokens'[i] = tokens[j]
    BY <2>1, <2>2
  <2>7. ASSUME NEW i \in DOMAIN tokens', Constant(tokens'[i]) PROVE TokenValue(tokens'[i])
    BY <2>5, <2>6, <2>7 DEF ValueInv, ClosedValues
  <2>8. ClosedValues'
    BY <2>1, <2>7 DEF ClosedValues, TokenValue, Constant
  <2>9. QED
    BY <2>1, <2>8 DEF ValueInv
<1>4. QED
  BY <1>2, <1>3

(* What a rule outside of constants emits.                                 *)
LEMMA EmitsPlain ==
  ASSUME NEW type \in PlainTypes, NEW k, Emit(type, k), lexstate = "INITIAL"
  PROVE  /\ input' = input /\ lexstate' # "string"
         /\ \E ty \in PlainTypes : \E pos, value, end :
              tokens' = Append(tokens, Token(ty, pos, value, end))
BY DEF Emit, Consume

LEMMA OperatorsValue ==
  ASSUME ValueInv, StateInv', Operators
  PROVE  ValueInv'
<1>1. lexstate = "INITIAL" /\ next \in {"/", "*", "%", "="}
  BY DEF Operators, InState
<1>2. CASE Pair[2] = "="
  <2>1. Emit(IF next = "=" THEN "EQ" ELSE "MODIFY", 2)
    <3>1. Pair # <<"/", "/">>
      BY <1>2 DEF Pair
    <3>2. QED
      BY <1>2, <3>1 DEF Operators
  <2>2. (IF next = "=" THEN "EQ" ELSE "MODIFY") \in PlainTypes
    BY DEF PlainTypes, TokenTypes
  <2>3. QED
    BY <1>1, <2>1, <2>2, EmitsPlain, KeepsOtherValues
<1>3. CASE Pair = <<"/", "/">>
  <2>1. Skip(RunOf(Symbols \ {"nl"}))
    <3>1. Pair[2] # "="
      BY <1>3
    <3>2. QED
      BY <1>3, <3>1 DEF Operators
  <2>2. QED
    BY <1>1, <2>1, KeepsOtherValues DEF Skip, Consume
<1>4. CASE Pair[2] # "=" /\ Pair # <<"/", "/">>
  <2>1. Emit(next, 1)
    BY <1>4 DEF Operators
  <2>2. next \in PlainTypes
    BY <1>1 DEF PlainTypes, TokenTypes
  <2>3. QED
    BY <1>1, <2>1, <2>2, EmitsPlain, KeepsOtherValues
<1>5. QED
  BY <1>2, <1>3, <1>4

LEMMA ValueInvariant == Spec => []ValueInv
<1>1. Init /\ StateInv => ValueInv
  BY DEF Init, ValueInv, ClosedValues
<1>2. ASSUME ValueInv, StateInv', [Next]_vars PROVE ValueInv'
  <2>1. CASE t_ID
    <3>1. "ID" \in PlainTypes
      BY DEF PlainTypes, TokenTypes
    <3>2. QED
      BY <1>2, <2>1, <3>1, EmitsPlain, KeepsOtherValues DEF t_ID, InState
  <2>2. CASE t_number
    <3>1. "INTCONST" \in PlainTypes
      BY DEF PlainTypes, TokenTypes
    <3>2. QED
      BY <1>2, <2>2, <3>1, EmitsPlain, KeepsOtherValues DEF t_number, InState
  <2>3. CASE t_string
    BY <1>2, <2>3, BeginValue DEF t_string
  <2>4. CASE t_char
    BY <1>2, <2>4, BeginValue DEF t_char
  <2>5. CASE t_comment
    BY <1>2, <2>5, KeepsOtherValues DEF t_comment, Consume
  <2>6. CASE Operators
    BY <1>2, <2>6, OperatorsValue
  <2>7. CASE t_cpp_line_marker
    BY <1>2, <2>7, KeepsOtherValues DEF t_cpp_line_marker, Consume, InState
  <2>8. CASE t_error
    BY <1>2, <2>8, IdleValue, TokenErrorFails DEF t_error
  <2>9. CASE t_ANY_newline
    BY <1>2, <2>9, NewlineValue
  <2>10. CASE t_comment_end
    <3>1. input' = input /\ lexstate' # "string" /\ tokens' = tokens
      BY <2>10 DEF t_comment_end, InState, Consume, Skip
    <3>2. QED
      BY <1>2, <3>1, KeepsOtherValues
  <2>11. CASE t_string_char
    BY <1>2, <2>11, EscapedCharValue, BeginEscapeValue, EndOfStringValue, PlainCharValue
       DEF t_string_char
  <2>12. CASE End
    BY <1>2, <2>12, IdleValue DEF End
  <2>13. CASE UNCHANGED vars
    BY <1>2, <2>13, IdleValue DEF vars
  <2>14. QED
    BY <1>2, <2>1, <2>2, <2>3, <2>4, <2>5, <2>6, <2>7, <2>8, <2>9, <2>10, <2>11, <2>12,
       <2>13 DEF Next
<1>3. QED
  BY <1>1, <1>2, StateInvariant, PTL DEF Spec

(* The value of each constant is what its text stands for, and what it is  *)
(* printed as is read back as the same value.                              *)
THEOREM ValuesCorrect == Spec => []ValuesExact
<1>1. ValueInv => ValuesExact
  <2> SUFFICES ASSUME ValueInv, NEW i \in DOMAIN tokens, Constant(tokens[i])
               PROVE  LET token == tokens[i]
                          quote == input[token.lexpos]
                          printed == escape(token.value, quote)
                          mode == Mode(<<quote>> \o printed \o <<quote>>)
                      IN /\ token.value = ValueOf(SubSeq(input, token.lexpos + 1, token.end - 1), quote)
                         /\ token.type = "CHARCONST" => Len(token.value) = 1
                         /\ ValueOf(printed, quote) = token.value
                         /\ \A p \in DOMAIN printed : mode[p + 1] \in Literals
                         /\ mode[Len(printed) + 2] = "code"
    BY DEF ValuesExact
  <2>1. PICK token : token = tokens[i]
    OBVIOUS
  <2>2. PICK quote : quote = input[token.lexpos]
    OBVIOUS
  <2>3. TokenValue(token)
    BY <2>1 DEF ValueInv, ClosedValues
  <2>4. /\ token.value \in Seq(Values) /\ quote \in Quotes
        /\ token.value = ValueOf(SubSeq(input, token.lexpos + 1, token.end - 1), quote)
        /\ token.type = "CHARCONST" => Len(token.value) = 1
    BY <2>2, <2>3 DEF TokenValue
  <2>5. ValueOf(escape(token.value, quote), quote) = token.value
    BY <2>4, PrintedReadsBack DEF ReadsAs
  <2>6. LET printed == escape(token.value, quote)
            mode == Mode(<<quote>> \o printed \o <<quote>>)
        IN /\ \A p \in DOMAIN printed : mode[p + 1] \in Literals
           /\ mode[Len(printed) + 2] = "code"
    BY <2>4, PrintedEnds
  <2>7. QED
    BY <2>1, <2>2, <2>4, <2>5, <2>6
<1>2. QED
  BY <1>1, ValueInvariant, PTL

----------------------------------------------------------------------------
(* Lines and columns                                                       *)

\* SwallowedLine, TrueLine and what TrueColumn counts from, of a text.
Swallowed(text, p) ==
  \E m \in 1..p : /\ text[m] = "marker"
                  /\ m + 1 \in DOMAIN text /\ text[m + 1] = "nl"
                  /\ m + 2 \in DOMAIN text /\ text[m + 2] = "1"
Markers(text, p) == {m \in 1..p : text[m] = "marker"}
LastMarker(text, p) == IF Markers(text, p) = {} THEN 0 ELSE Max(Markers(text, p))
FirstLine(text, p) == IF Markers(text, p) = {} THEN 1 ELSE MarkerLine - 1
LineEnds(text, from, p) == {q \in from..p : text[q] = "nl"}
Line(text, p) ==
  FirstLine(text, p) + Cardinality(LineEnds(text, LastMarker(text, p) + 1, p))
LastEnd(text, p) == Max({0} \cup LineEnds(text, 1, p))

LEMMA SameLines ==
  /\ \A p : SwallowedLine(p) = Swallowed(input, p)
  /\ \A p : TrueLine(p) = Line(input, p)
  /\ \A p : TrueColumn(p) = p - LastEnd(input, p) + 1
<1>1. \A p : SwallowedLine(p) = Swallowed(input, p)
  BY DEF SwallowedLine, Swallowed, Symbol
<1>2. \A p : TrueLine(p) = Line(input, p)
  BY DEF TrueLine, Line, FirstLine, LastMarker, Markers, LineEnds
<1>3. \A p : TrueColumn(p) = p - LastEnd(input, p) + 1
  BY DEF TrueColumn, LastEnd, LineEnds
<1>4. QED
  BY <1>1, <1>2, <1>3

LEMMA LastEndIs ==
  ASSUME NEW text, NEW p \in Nat
  PROVE  /\ LastEnd(text, p) \in {0} \cup LineEnds(text, 1, p)
         /\ LastEnd(text, p) \in 0..p
         /\ \A q \in LineEnds(text, 1, p) : LastEnd(text, p) >= q
<1> DEFINE T == {0} \cup LineEnds(text, 1, p)
<1>1. T \subseteq 0..p /\ T # {}
  BY DEF LineEnds
<1> HIDE DEF T
<1>2. Max(T) \in T /\ \A y \in T : Max(T) >= y
  BY <1>1, MaxIsGreatest
<1>3. QED
  BY <1>1, <1>2 DEF LastEnd, T

LEMMA LastMarkerIs ==
  ASSUME NEW text, NEW p \in Nat
  PROVE  /\ LastMarker(text, p) \in 0..p
         /\ \A m \in Markers(text, p) : LastMarker(text, p) >= m
<1> DEFINE T == Markers(text, p)
<1>1. T \subseteq 0..p /\ T \subseteq 1..p
  BY DEF Markers
<1> HIDE DEF T
<1>2. T # {} => Max(T) \in T /\ \A y \in T : Max(T) >= y
  BY <1>1, MaxIsGreatest
<1>3. QED
  BY <1>1, <1>2 DEF LastMarker, T

(* Lines go on over what is neither a line end nor a marker.               *)
LEMMA SameLine ==
  ASSUME NEW text, NEW a \in Nat, NEW b \in Nat, a <= b,
         \A p \in a + 1..b : text[p] \notin {"nl", "marker"}
  PROVE  /\ Line(text, b) = Line(text, a) /\ LastEnd(text, b) = LastEnd(text, a)
         /\ Swallowed(text, b) => Swallowed(text, a)
<1>1. \A p \in 1..b : p \in 1..a \/ p \in a + 1..b
  OBVIOUS
<1>2. Markers(text, b) = Markers(text, a)
  BY <1>1 DEF Markers
<1>3. LastMarker(text, b) = LastMarker(text, a) /\ FirstLine(text, b) = FirstLine(text, a)
  BY <1>2 DEF LastMarker, FirstLine
<1>4. \A from \in Nat : LineEnds(text, from, b) = LineEnds(text, from, a)
  BY DEF LineEnds
<1>5. LastMarker(text, a) + 1 \in Nat
  BY LastMarkerIs
<1>6. Line(text, b) = Line(text, a)
  BY <1>3, <1>4, <1>5 DEF Line
<1>7. LastEnd(text, b) = LastEnd(text, a)
  BY <1>4 DEF LastEnd
<1>8. ASSUME Swallowed(text, b) PROVE Swallowed(text, a)
  <2>1. PICK m \in 1..b : /\ text[m] = "marker"
                          /\ m + 1 \in DOMAIN text /\ text[m + 1] = "nl"
                          /\ m + 2 \in DOMAIN text /\ text[m + 2] = "1"
    BY <1>8 DEF Swallowed
  <2>2. m \in 1..a
    BY <1>1, <2>1
  <2>3. QED
    BY <2>1, <2>2 DEF Swallowed
<1>9. QED
  BY <1>6, <1>7, <1>8

LEMMA SwallowedGrows ==
  ASSUME NEW text, NEW a \in Nat, NEW b \in Nat, a <= b, Swallowed(text, a)
  PROVE  Swallowed(text, b)
<1>1. PICK m \in 1..a : /\ text[m] = "marker"
                        /\ m + 1 \in DOMAIN text /\ text[m + 1] = "nl"
                        /\ m + 2 \in DOMAIN text /\ text[m + 2] = "1"
  BY DEF Swallowed
<1>2. m \in 1..b
  OBVIOUS
<1>3. QED
  BY <1>1, <1>2 DEF Swallowed

(* Each line end begins a line.                                            *)
LEMMA NextLines ==
  ASSUME NEW text, NEW a \in Nat, NEW k \in Nat, k > 0,
         \A p \in a + 1..a + k : text[p] = "nl"
  PROVE  Line(text, a + k) = Line(text, a) + k /\ LastEnd(text, a + k) = a + k
<1>1. \A p \in 1..a + k : p \in 1..a \/ p \in a + 1..a + k
  OBVIOUS
<1>2. Markers(text, a + k) = Markers(text, a)
  BY <1>1 DEF Markers
<1>3. LastMarker(text, a + k) = LastMarker(text, a) /\ FirstLine(text, a + k) = FirstLine(text, a)
  BY <1>2 DEF LastMarker, FirstLine
<1>4. PICK from \in 1..a + 1 : from = LastMarker(text, a) + 1
  BY LastMarkerIs
<1> DEFINE A == LineEnds(text, from, a)
           B == a + 1..a + k
<1>5. LineEnds(text, from, a + k) = A \cup B
  BY DEF LineEnds
<1>6. A \subseteq from..a /\ A \cap B = {}
  BY DEF LineEnds
<1> HIDE DEF A
<1>7. IsFiniteSet(from..a) /\ IsFiniteSet(B) /\ Cardinality(B) = k
  BY FS_Interval
<1>8. IsFiniteSet(A)
  BY <1>6, <1>7, FS_Subset
<1>9. Cardinality(A \cup B) = Cardinality(A) + k
  <2> HIDE DEF B
  <2>1. Cardinality(A \cap B) = 0
    BY <1>6, FS_EmptySet
  <2>2. Cardinality(A \cup B) = Cardinality(A) + Cardinality(B) - Cardinality(A \cap B)
    BY <1>7, <1>8, FS_Union
  <2>3. Cardinality(A) \in Nat
    BY <1>8, FS_CardinalityType
  <2>4. QED
    BY <1>7, <2>1, <2>2, <2>3
<1>10. Line(text, a + k) = Line(text, a) + k
  <2>1. Line(text, a + k) = FirstLine(text, a) + Cardinality(A \cup B)
    BY <1>3, <1>4, <1>5 DEF Line
  <2>2. Line(text, a) = FirstLine(text, a) + Cardinality(A)
    BY <1>4 DEF Line, A
  <2>3. Cardinality(A) \in Nat /\ FirstLine(text, a) \in Nat
    BY <1>8, FS_CardinalityType DEF FirstLine, MarkerLine
  <2>4. QED
    BY <1>9, <2>1, <2>2, <2>3
<1>11. LastEnd(text, a + k) = a + k
  <2>1. a + k \in LineEnds(text, 1, a + k)
    BY DEF LineEnds
  <2>2. LastEnd(text, a + k) \in 0..a + k /\ LastEnd(text, a + k) >= a + k
    BY <2>1, LastEndIs
  <2>3. QED
    BY <2>2
<1>12. QED
  BY <1>10, <1>11

(* A marker says what its line is, which is before the line end after it.  *)
LEMMA MarkedLine ==
  ASSUME NEW text, NEW p \in Nat \ {0}, text[p] = "marker"
  PROVE  Line(text, p) = MarkerLine - 1 /\ LastEnd(text, p) = LastEnd(text, p - 1)
<1>1. p \in Markers(text, p)
  BY DEF Markers
<1>2. LastMarker(text, p) = p
  <2>1. LastMarker(text, p) \in 0..p /\ LastMarker(text, p) >= p
    BY <1>1, LastMarkerIs
  <2>2. QED
    BY <2>1
<1>3. LineEnds(text, p + 1, p) = {}
  BY DEF LineEnds
<1>4. Cardinality(LineEnds(text, p + 1, p)) = 0
  BY <1>3, FS_EmptySet
<1>5. Line(text, p) = MarkerLine - 1
  BY <1>1, <1>2, <1>4 DEF Line, FirstLine, MarkerLine
<1>6. LineEnds(text, 1, p) = LineEnds(text, 1, p - 1)
  BY DEF LineEnds
<1>7. QED
  BY <1>5, <1>6 DEF LastEnd

(* The parser's own columns.                                               *)
LEMMA ParserColumn ==
  ASSUME NEW token, token.lexpos \in Nat
  PROVE  LET before == {p \in 1..token.lexpos : input[p] = "nl"}
         IN column(token) = TrueColumn(token.lexpos)
                              - (IF before = {} THEN 2 ELSE IF before = {1} THEN 1 ELSE 0)
<1> DEFINE pos == token.lexpos
           before == {p \in 1..pos : input[p] = "nl"}
           last == LastEnd(input, pos)
           last_cr == IF before = {} THEN -1 ELSE Max(before) - 1
<1>1. before = LineEnds(input, 1, pos)
  BY DEF LineEnds
<1>2. last \in {0} \cup before /\ last \in 0..pos /\ \A q \in before : last >= q
  BY <1>1, LastEndIs
<1>3. before \subseteq 1..pos /\ before \subseteq 0..pos
  OBVIOUS
<1>4. column(token) = pos - Max({last_cr, 1})
  BY DEF column
<1>5. TrueColumn(pos) = pos - last + 1
  BY SameLines
<1> HIDE DEF before, last, pos
<1>6. pos \in Nat
  BY DEF pos
<1>7. before # {} => Max(before) = last
  <2>1. before # {} => Max(before) \in before /\ \A y \in before : Max(before) >= y
    BY <1>3, <1>6, MaxIsGreatest
  <2>2. SUFFICES ASSUME before # {} PROVE Max(before) = last
    OBVIOUS
  <2>3. PICK m : m = Max(before) /\ m \in 1..pos /\ m \in before /\ \A y \in before : m >= y
    BY <1>3, <2>1, <2>2
  <2>4. last >= m /\ last # 0
    BY <1>2, <1>6, <2>3
  <2>5. last \in before /\ m >= last
    BY <1>2, <2>3, <2>4
  <2>6. QED
    BY <1>2, <1>6, <2>3, <2>4, <2>5
<1>8. last_cr \in Int
  BY <1>2, <1>7
<1> HIDE DEF last_cr
<1>9. Max({last_cr, 1}) = IF last_cr >= 1 THEN last_cr ELSE 1
  BY <1>8 DEF Max
<1>10. CASE before = {}
  <2>1. last = 0 /\ last_cr = -1
    BY <1>2, <1>10 DEF last_cr
  <2>2. QED
    BY <1>4, <1>5, <1>6, <1>9, <1>10, <2>1 DEF before, pos
<1>11. CASE before = {1}
  <2>1. last = 1 /\ last_cr = 0
    BY <1>2, <1>3, <1>7, <1>11 DEF last_cr
  <2>2. QED
    BY <1>4, <1>5, <1>6, <1>9, <1>11, <2>1 DEF before, pos
<1>12. CASE before # {} /\ before # {1}
  <2>1. PICK q \in before : q # 1
    BY <1>12
  <2>2. last >= 2 /\ last_cr = last - 1
    BY <1>2, <1>3, <1>7, <1>12, <2>1 DEF last_cr
  <2>3. QED
    BY <1>2, <1>4, <1>5, <1>6, <1>9, <1>12, <2>2 DEF before, pos
<1>13. QED
  BY <1>10, <1>11, <1>12

NoLineEnd(text, a, b) == \A p \in a..b : text[p] # "nl"
NoMarker(text, a, b) == \A p \in a..b : text[p] # "marker"
\* Only what has to be is escaped.
Needful(text, a, b) ==
  \A p \in a..b : text[p - 1] = "bs" /\ text[p] # "bs" => text[p] \in {"n", "dq"}

LineInv ==
  ~ Swallowed(input, lexpos) =>
    lineno = Line(input, lexpos) /\ last_newline_pos = LastEnd(input, lexpos) - 1

(* As long as there are only needful escapes, each symbol since the quote  *)
(* is printed as it was; a backslash has no character yet.                 *)
Printed(text, start, pos, char, escaping, value) ==
  NoLineEnd(text, start + 1, pos) =>
    /\ escaping => start < pos /\ text[pos] = "bs"
    /\ ~ char /\ Needful(text, start + 2, pos) =>
         Len(escape(value, "dq")) = pos - start - (IF escaping THEN 1 ELSE 0)

OpenPosition ==
  /\ string_start \in 1..lexpos
  /\ NoMarker(input, string_start + 1, lexpos)
  /\ Printed(input, string_start, lexpos, in_charconst, string_escape, string_buf)

TokenPosition(text, token) ==
  LET pos == token.lexpos
      end == token.end
  IN /\ pos \in Nat
     /\ ~ Swallowed(text, pos) =>
          IF NoLineEnd(text, pos + 1, end)
            THEN token.lineno = Line(text, pos) /\ token.column = pos - LastEnd(text, pos) + 1
            ELSE token.lineno = Line(text, end) /\ token.column < 1
     /\ token.type = "STRINGCONST" /\ NoLineEnd(text, pos + 1, end)
          /\ Needful(text, pos + 2, end - 1) =>
            Len(escape(token.value, "dq")) = end - pos - 1

PositionInv ==
  /\ ValueInv /\ LineInv
  /\ lexstate = "string" => OpenPosition
  /\ \A i \in DOMAIN tokens : TokenPosition(input, tokens[i])

(* Over symbols that are on the line the count is true.                    *)
LEMMA LineGoesOn ==
  ASSUME TypeInv, LineInv, NEW k \in Nat,
         \A i \in 1..k : input[lexpos + i] \notin {"nl", "marker"},
         input' = input, lexpos' = lexpos + k, UNCHANGED lines
  PROVE  LineInv'
<1>1. lexpos \in Nat
  BY InputType DEF TypeInv
<1>2. \A p \in lexpos + 1..lexpos + k : input[p] \notin {"nl", "marker"}
  <2>1. TAKE p \in lexpos + 1..lexpos + k
  <2>2. p - lexpos \in 1..k /\ lexpos + (p - lexpos) = p
    BY <1>1
  <2>3. QED
    BY <2>2
<1>3. PICK b \in Nat : b = lexpos + k /\ lexpos <= b
  BY <1>1
<1>4. /\ Line(input, b) = Line(input, lexpos) /\ LastEnd(input, b) = LastEnd(input, lexpos)
  BY <1>1, <1>2, <1>3, SameLine
<1>5. Swallowed(input, lexpos) => Swallowed(input, b)
  BY <1>1, <1>3, SwallowedGrows
<1>6. QED
  BY <1>3, <1>4, <1>5 DEF LineInv, lines

LEMMA NewlineLines ==
  ASSUME TypeInv, LineInv, t_ANY_newline
  PROVE  LineInv'
<1> DEFINE S == {"nl"}
<1>1. lexpos \in Nat /\ Len(input) \in Nat /\ next \in S
  BY InputType DEF TypeInv, t_ANY_newline
<1>2. PICK k \in Nat : k = RunOf(S) /\ k > 0 /\ \A i \in 1..k : input[lexpos + i] = "nl"
  <2>1. /\ RunOf(S) \in 0..Len(input) - lexpos /\ RunOf(S) > 0
        /\ \A i \in 1..RunOf(S) : input[lexpos + i] = "nl"
    BY <1>1, RunLength
  <2>2. RunOf(S) \in Nat
    BY <1>1, <2>1
  <2>3. QED
    BY <2>1, <2>2
<1>3. /\ input' = input /\ lexpos' = lexpos + k
      /\ lineno' = lineno + k /\ last_newline_pos' = lexpos + k - 1
  BY <1>2 DEF t_ANY_newline, Consume
<1>4. \A p \in lexpos + 1..lexpos + k : input[p] = "nl"
  <2>1. TAKE p \in lexpos + 1..lexpos + k
  <2>2. p - lexpos \in 1..k /\ lexpos + (p - lexpos) = p
    BY <1>1
  <2>3. QED
    BY <1>2, <2>2
<1>5. PICK b \in Nat : b = lexpos + k /\ lexpos <= b
  BY <1>1
<1>6. Line(input, b) = Line(input, lexpos) + k /\ LastEnd(input, b) = b
  BY <1>1, <1>2, <1>4, <1>5, NextLines
<1>7. Swallowed(input, lexpos) => Swallowed(input, b)
  BY <1>1, <1>5, SwallowedGrows
<1>8. lexpos' = b /\ lineno' = lineno + k /\ last_newline_pos' = b - 1
  BY <1>1, <1>3, <1>5
<1>9. QED
  BY <1>3, <1>6, <1>7, <1>8 DEF LineInv

(* A marker whose flags are on the next line says nothing of that line.    *)
LEMMA MarkerLines ==
  ASSUME TypeInv, LineInv, t_cpp_line_marker
  PROVE  LineInv'
<1>1. /\ lexpos \in Nat /\ Len(input) \in Nat /\ lexpos <= Len(input) /\ next = "marker"
      /\ InState("INITIAL") /\ DOMAIN input = 1..Len(input)
  BY InputType DEF TypeInv, t_cpp_line_marker
<1>2. PICK k \in Nat :
        /\ FlagPairs(k) /\ 1 + 2 * k <= Len(input) - lexpos
        /\ Consume(1 + 2 * k)
        /\ lineno' = MarkerLine - 1
        /\ UNCHANGED <<lexstate, string, last_newline_pos, tokens>>
  BY <1>1, MarkerReads
<1>3. input' = input /\ lexpos' = lexpos + (1 + 2 * k) /\ last_newline_pos' = last_newline_pos
  BY <1>2 DEF Consume
<1>4. input[lexpos + 1] = "marker"
  BY <1>1, ReadsFirst
<1>5. CASE k = 0
  <2>1. PICK b \in Nat \ {0} : b = lexpos + 1 /\ b - 1 = lexpos /\ lexpos <= b
    BY <1>1
  <2>2. Line(input, b) = MarkerLine - 1 /\ LastEnd(input, b) = LastEnd(input, lexpos)
    BY <1>4, <2>1, MarkedLine
  <2>3. Swallowed(input, lexpos) => Swallowed(input, b)
    BY <1>1, <2>1, SwallowedGrows
  <2>4. lexpos' = b
    BY <1>1, <1>3, <1>5, <2>1
  <2>5. QED
    BY <1>2, <1>3, <2>2, <2>3, <2>4 DEF LineInv
<1>6. CASE k > 0
  <2>1. 1 \in 1..k /\ lexpos + 2 * 1 = lexpos + 2 /\ lexpos + 2 * 1 + 1 = lexpos + 3
    BY <1>1, <1>6
  <2>2. Symbol(lexpos + 2) = "nl" /\ Symbol(lexpos + 3) = "1"
    BY <1>2, <2>1 DEF FlagPairs
  <2>3. PICK m : m = lexpos + 1 /\ m + 1 = lexpos + 2 /\ m + 2 = lexpos + 3
    BY <1>1
  <2>4. m \in 1..lexpos'
    BY <1>1, <1>3, <1>6, <2>3
  <2>5. m + 1 \in DOMAIN input /\ m + 2 \in DOMAIN input
    BY <1>1, <1>2, <1>6, <2>3
  <2>6. Swallowed(input, lexpos')
    BY <1>4, <2>2, <2>3, <2>4, <2>5 DEF Swallowed, Symbol
  <2>7. QED
    BY <1>3, <2>6 DEF LineInv
<1>7. QED
  BY <1>2, <1>5, <1>6

(* Outside of constants only a new token has a position to be checked.     *)
LEMMA KeepsPositions ==
  ASSUME PositionInv, ValueInv', LineInv', input' = input, lexstate' # "string",
         \/ tokens' = tokens
         \/ \E token : TokenPosition(input, token) /\ tokens' = Append(tokens, token)
  PROVE  PositionInv'
<1>1. CASE tokens' = tokens
  BY <1>1 DEF PositionInv
<1>2. CASE \E token : TokenPosition(input, token) /\ tokens' = Append(tokens, token)
  <2>1. PICK token : TokenPosition(input, token) /\ tokens' = Append(tokens, token)
    BY <1>2
  <2>2. tokens \in Seq(TokenSet)
    BY DEF PositionInv, ValueInv, StateInv, TypeInv
  <2>3. \A i \in DOMAIN tokens' : tokens'[i] = token \/ \E j \in DOMAIN tokens : tokens'[i] = tokens[j]
    BY <2>1, <2>2
  <2>4. \A i \in DOMAIN tokens' : TokenPosition(input, tokens'[i])
    BY <2>1, <2>3 DEF PositionInv
  <2>5. QED
    BY <2>4 DEF PositionInv
<1>3. QED
  BY <1>1, <1>2

(* Tokens that are one match of a rule.                                    *)
LEMMA EmitPosition ==
  ASSUME PositionInv, ValueInv', lexstate = "INITIAL",
         NEW k \in Nat, \A i \in 1..k : input[lexpos + i] \notin {"nl", "marker"},
         NEW type \in PlainTypes, Emit(type, k)
  PROVE  PositionInv'
<1> DEFINE value == SubSeq(input, lexpos + 1, lexpos + k)
           token == Token(type, lexpos, value, lexpos + k)
<1>1. TypeInv /\ LineInv /\ lexpos \in Nat
  BY InputType DEF PositionInv, ValueInv, StateInv, TypeInv
<1>2. /\ input' = input /\ lexpos' = lexpos + k /\ UNCHANGED lines /\ lexstate' # "string"
      /\ tokens' = Append(tokens, token)
  BY DEF Emit, Consume
<1>3. LineInv'
  BY <1>1, <1>2, LineGoesOn
<1>4. /\ token.type = type /\ token.lexpos = lexpos /\ token.end = lexpos + k
      /\ token.lineno = lineno /\ token.column = lexpos - last_newline_pos
  BY DEF Token
<1> HIDE DEF token
<1>5. token.type # "STRINGCONST"
  BY <1>4 DEF PlainTypes
<1>6. NoLineEnd(input, token.lexpos + 1, token.end)
  <2>1. \A p \in lexpos + 1..lexpos + k : input[p] # "nl"
    <3>1. TAKE p \in lexpos + 1..lexpos + k
    <3>2. p - lexpos \in 1..k /\ lexpos + (p - lexpos) = p
      BY <1>1
    <3>3. QED
      BY <3>2
  <2>2. QED
    BY <1>4, <2>1 DEF NoLineEnd
<1>7. ~ Swallowed(input, lexpos) =>
        token.lineno = Line(input, lexpos) /\ token.column = lexpos - LastEnd(input, lexpos) + 1
  <2>1. LastEnd(input, lexpos) \in 0..lexpos
    BY <1>1, LastEndIs
  <2>2. QED
    BY <1>1, <1>4, <2>1 DEF LineInv
<1>8. TokenPosition(input, token)
  BY <1>1, <1>4, <1>5, <1>6, <1>7 DEF TokenPosition
<1>9. QED
  BY <1>2, <1>3, <1>8, KeepsPositions

LEMMA WordPosition ==
  ASSUME PositionInv, ValueInv', lexstate = "INITIAL", NEW S, S \subseteq {"n", "1"},
         NEW type \in PlainTypes, Emit(type, RunOf(S))
  PROVE  PositionInv'
<1>1. TypeInv /\ lexpos \in Nat /\ Len(input) \in Nat /\ "eof" \notin S
  BY InputType DEF PositionInv, ValueInv, StateInv, TypeInv
<1>2. PICK k \in Nat : k = RunOf(S) /\ \A i \in 1..k : input[lexpos + i] \in S
  <2>1. RunOf(S) \in 0..Len(input) - lexpos /\ \A i \in 1..RunOf(S) : input[lexpos + i] \in S
    BY <1>1, RunLength
  <2>2. RunOf(S) \in Nat
    BY <1>1, <2>1
  <2>3. QED
    BY <2>1, <2>2
<1>3. \A i \in 1..k : input[lexpos + i] \notin {"nl", "marker"}
  BY <1>2
<1>4. QED
  BY <1>2, <1>3, EmitPosition

\* The next symbols, one or two, by number.
LEMMA FirstTwo ==
  ASSUME TypeInv, next # "eof"
  PROVE  /\ \A i \in 1..1 : input[lexpos + i] = next
         /\ Symbol(lexpos + 2) # "eof" =>
              \A i \in 1..2 : input[lexpos + i] \in {next, Symbol(lexpos + 2)}
<1>1. input[lexpos + 1] = next
  BY ReadsFirst
<1>2. Symbol(lexpos + 2) # "eof" => input[lexpos + 2] = Symbol(lexpos + 2)
  BY ReadsSecond
<1>3. \A i \in 1..1 : i = 1
  OBVIOUS
<1>4. \A i \in 1..2 : i = 1 \/ i = 2
  OBVIOUS
<1>5. QED
  BY <1>1, <1>2, <1>3, <1>4

LEMMA OperatorsPosition ==
  ASSUME PositionInv, ValueInv', Operators
  PROVE  PositionInv'
<1>1. /\ StateInv /\ TypeInv /\ LineInv /\ lexpos \in Nat /\ Len(input) \in Nat
      /\ lexstate = "INITIAL" /\ InState("INITIAL") /\ next \in {"/", "*", "%", "="}
  BY InputType DEF PositionInv, ValueInv, StateInv, TypeInv, Operators, InState
<1>2. CASE Symbol(lexpos + 2) = "="
  <2>1. Emit(IF next = "=" THEN "EQ" ELSE "MODIFY", 2)
    <3>1. Pair[2] = "=" /\ Pair # <<"/", "/">>
      BY <1>2 DEF Pair
    <3>2. QED
      BY <3>1 DEF Operators
  <2>2. PICK type \in PlainTypes : Emit(type, 2)
    BY <2>1 DEF PlainTypes, TokenTypes
  <2>3. \A i \in 1..2 : input[lexpos + i] \in {next, "="}
    BY <1>1, <1>2, FirstTwo
  <2>4. \A i \in 1..2 : input[lexpos + i] \notin {"nl", "marker"}
    BY <1>1, <2>3
  <2>5. QED
    BY <1>1, <2>2, <2>4, EmitPosition
<1>3. CASE next = "/" /\ Symbol(lexpos + 2) = "/"
  <2>1. Skip(RunOf(Symbols \ {"nl"}))
    <3>1. Pair[2] # "=" /\ Pair = <<"/", "/">>
      BY <1>3 DEF Pair
    <3>2. QED
      BY <3>1 DEF Operators
  <2>2. PICK k \in Nat :
          /\ k = RunOf(Symbols \ {"nl"}) /\ k \in 2..Len(input) - lexpos
          /\ \A i \in 1..k : input[lexpos + i] # "nl"
          /\ \A p \in lexpos + 2..lexpos + k : Mode(input)[p] = "line"
    BY <1>1, <1>3, LineComment
  <2>3. \A i \in 1..k : input[lexpos + i] # "marker"
    <3>1. TAKE i \in 1..k
    <3>2. CASE i \in 1..2
      <4>1. input[lexpos + i] \in {"/"}
        BY <1>1, <1>3, <3>2, FirstTwo
      <4>2. QED
        BY <4>1
    <3>3. CASE i > 2
      <4>1. lexpos + i - 1 \in lexpos + 2..lexpos + k /\ lexpos + i \in 1..Len(input)
        BY <1>1, <2>2, <3>3
      <4>2. Mode(input)[lexpos + i - 1] # "code"
        BY <2>2, <4>1
      <4>3. QED
        BY <1>1, <4>1, <4>2, InputType DEF TypeInv
    <3>4. QED
      BY <3>2, <3>3
  <2>4. /\ input' = input /\ lexpos' = lexpos + k /\ lexstate' # "string"
        /\ UNCHANGED lines /\ tokens' = tokens
    BY <1>1, <2>1, <2>2 DEF Skip, Consume
  <2>5. LineInv'
    BY <1>1, <2>2, <2>3, <2>4, LineGoesOn
  <2>6. QED
    BY <2>4, <2>5, KeepsPositions
<1>4. CASE Symbol(lexpos + 2) # "=" /\ ~ (next = "/" /\ Symbol(lexpos + 2) = "/")
  <2>1. Emit(next, 1)
    <3>1. Pair[2] # "=" /\ Pair # <<"/", "/">>
      BY <1>4 DEF Pair
    <3>2. QED
      BY <3>1 DEF Operators
  <2>2. \A i \in 1..1 : input[lexpos + i] \notin {"nl", "marker"}
    BY <1>1, FirstTwo
  <2>3. next \in PlainTypes
    BY <1>1 DEF PlainTypes, TokenTypes
  <2>4. QED
    BY <1>1, <2>1, <2>2, <2>3, EmitPosition
<1>5. QED
  BY <1>2, <1>3, <1>4

LEMMA BeginPosition ==
  ASSUME PositionInv, ValueInv', InState("INITIAL"), NEW char \in BOOLEAN,
         next = (IF char THEN "sq" ELSE "dq"), Begin(char)
  PROVE  PositionInv'
<1>1. TypeInv /\ LineInv /\ lexpos \in Nat
  BY InputType DEF PositionInv, ValueInv, StateInv, TypeInv
<1>2. /\ input' = input /\ lexpos' = lexpos + 1 /\ string_start' = lexpos + 1
      /\ string_buf' = <<>> /\ string_escape' = FALSE
      /\ UNCHANGED lines /\ tokens' = tokens
  BY DEF Begin, Consume
<1>3. LineInv'
  <2>1. \A i \in 1..1 : input[lexpos + i] \notin {"nl", "marker"}
    BY <1>1, FirstTwo
  <2>2. QED
    BY <1>1, <1>2, <2>1, LineGoesOn
<1>4. OpenPosition'
  <2>1. NoMarker(input', string_start' + 1, lexpos')
    BY <1>1, <1>2 DEF NoMarker
  <2>2. string_start' \in 1..lexpos'
    BY <1>1, <1>2
  <2>3. Len(escape(string_buf', "dq")) = 0
    <3>1. DOMAIN string_buf' = {}
      BY <1>2
    <3>2. escape(string_buf', "dq") = FlattenSeq(<<>>)
      BY <3>1 DEF escape
    <3>3. QED
      BY <3>2, FlattenEmpty
  <2>4. lexpos' - string_start' - 0 = 0
    BY <1>1, <1>2
  <2>5. QED
    BY <1>2, <2>1, <2>2, <2>3, <2>4 DEF OpenPosition, Printed
<1>5. QED
  BY <1>2, <1>3, <1>4 DEF PositionInv

LEMMA CommentPosition ==
  ASSUME PositionInv, ValueInv', t_comment
  PROVE  PositionInv'
<1>1. TypeInv /\ LineInv /\ next = "/" /\ Symbol(lexpos + 2) = "*"
  BY DEF PositionInv, ValueInv, StateInv, t_comment, Pair
<1>2. /\ input' = input /\ lexpos' = lexpos + 2 /\ lexstate' # "string"
      /\ UNCHANGED lines /\ tokens' = tokens
  BY DEF t_comment, Consume
<1>3. \A i \in 1..2 : input[lexpos + i] \in {"/", "*"}
  BY <1>1, FirstTwo
<1>4. \A i \in 1..2 : input[lexpos + i] \notin {"nl", "marker"}
  BY <1>3
<1>5. LineInv'
  BY <1>1, <1>2, <1>4, LineGoesOn
<1>6. QED
  BY <1>2, <1>5, KeepsPositions

(* Markers are where the mode is "code".                                   *)
LEMMA NextIsNoMarker ==
  ASSUME TypeInv, Mode(input)[lexpos] # "code", next # "eof"
  PROVE  next # "marker"
<1>1. lexpos \in Nat /\ Len(input) \in Nat /\ lexpos + 1 \in 1..Len(input)
      /\ next = input[lexpos + 1] /\ lexpos + 1 - 1 = lexpos
  <2>1. lexpos \in Nat /\ Len(input) \in Nat
    BY InputType DEF TypeInv
  <2>2. 1 <= Len(input) - lexpos /\ next = input[lexpos + 1]
    BY ReadsFirst
  <2>3. QED
    BY <2>1, <2>2
<1>2. QED
  BY <1>1, InputType DEF TypeInv

LEMMA CommentEndPosition ==
  ASSUME PositionInv, ValueInv', t_comment_end
  PROVE  PositionInv'
<1>1. /\ StateInv /\ TypeInv /\ LineInv /\ next \notin {"nl", "eof"}
      /\ lexstate = "comment"
  BY DEF PositionInv, ValueInv, StateInv, t_comment_end, InState
<1>2. next # "marker"
  <2>1. Mode(input)[lexpos] # "code"
    BY <1>1 DEF StateInv, ModeInv, Reads
  <2>2. QED
    BY <1>1, <2>1, NextIsNoMarker
<1>3. /\ input' = input /\ lexstate' # "string" /\ UNCHANGED lines /\ tokens' = tokens
  BY <1>1 DEF t_comment_end, Consume, Skip
<1>4. CASE Pair = <<"*", "/">>
  <2>1. \A i \in 1..2 : input[lexpos + i] \in {"*", "/"}
    BY <1>1, <1>4, FirstTwo DEF Pair
  <2>2. \A i \in 1..2 : input[lexpos + i] \notin {"nl", "marker"}
    BY <2>1
  <2>3. lexpos' = lexpos + 2
    BY <1>4 DEF t_comment_end, Consume
  <2>4. LineInv'
    BY <1>1, <1>3, <2>2, <2>3, LineGoesOn
  <2>5. QED
    BY <1>3, <2>4, KeepsPositions
<1>5. CASE Pair # <<"*", "/">>
  <2>1. \A i \in 1..1 : input[lexpos + i] \notin {"nl", "marker"}
    BY <1>1, <1>2, FirstTwo
  <2>2. lexpos' = lexpos + 1
    BY <1>5 DEF t_comment_end, Consume, Skip
  <2>3. LineInv'
    BY <1>1, <1>3, <2>1, <2>2, LineGoesOn
  <2>4. QED
    BY <1>3, <2>3, KeepsPositions
<1>6. QED
  BY <1>4, <1>5

LEMMA NewlinePosition ==
  ASSUME PositionInv, ValueInv', t_ANY_newline
  PROVE  PositionInv'
<1> DEFINE S == {"nl"}
<1>1. TypeInv /\ LineInv /\ lexpos \in Nat /\ Len(input) \in Nat /\ next \in S
  BY InputType DEF PositionInv, ValueInv, StateInv, TypeInv, t_ANY_newline
<1>2. PICK k \in Nat : k = RunOf(S) /\ k > 0 /\ \A i \in 1..k : input[lexpos + i] = "nl"
  <2>1. /\ RunOf(S) \in 0..Len(input) - lexpos /\ RunOf(S) > 0
        /\ \A i \in 1..RunOf(S) : input[lexpos + i] = "nl"
    BY <1>1, RunLength
  <2>2. RunOf(S) \in Nat
    BY <1>1, <2>1
  <2>3. QED
    BY <2>1, <2>2
<1>3. /\ input' = input /\ lexpos' = lexpos + k /\ tokens' = tokens /\ lexstate' = lexstate
      /\ string_start' = string_start
  BY <1>2 DEF t_ANY_newline, Consume, string
<1>4. LineInv'
  BY <1>1, NewlineLines
<1>5. CASE lexstate # "string"
  BY <1>3, <1>4, <1>5, KeepsPositions
<1>6. CASE lexstate = "string"
  <2>1. OpenPosition
    BY <1>6 DEF PositionInv
  <2>2. PICK s \in 1..lexpos : s = string_start
    BY <2>1 DEF OpenPosition, Printed
  <2>3. NoMarker(input, s + 1, lexpos + k)
    <3>1. ASSUME NEW p \in s + 1..lexpos + k PROVE input[p] # "marker"
      <4>1. CASE p <= lexpos
        BY <1>1, <2>1, <2>2, <4>1 DEF OpenPosition, NoMarker
      <4>2. CASE p > lexpos
        <5>1. p - lexpos \in 1..k /\ lexpos + (p - lexpos) = p
          BY <1>1, <2>2, <4>2
        <5>2. QED
          BY <1>2, <5>1
      <4>3. QED
        BY <1>1, <2>2, <4>1, <4>2
    <3>2. QED
      BY <3>1 DEF NoMarker
  <2>4. ~ NoLineEnd(input, s + 1, lexpos + k)
    <3>1. lexpos + 1 \in s + 1..lexpos + k
      BY <1>1, <1>2, <2>2
    <3>2. 1 \in 1..k
      BY <1>2
    <3>3. input[lexpos + 1] = "nl"
      BY <1>2, <3>2
    <3>4. QED
      BY <3>1, <3>3 DEF NoLineEnd
  <2>5. s \in 1..lexpos + k
    BY <1>1, <2>2
  <2>6. OpenPosition'
    BY <1>3, <2>2, <2>3, <2>4, <2>5 DEF OpenPosition, Printed
  <2>7. QED
    BY <1>3, <1>4, <2>6 DEF PositionInv
<1>7. QED
  BY <1>5, <1>6

LEMMA MarkerPosition ==
  ASSUME PositionInv, ValueInv', t_cpp_line_marker
  PROVE  PositionInv'
<1>1. TypeInv /\ LineInv /\ InState("INITIAL")
  BY DEF PositionInv, ValueInv, StateInv, t_cpp_line_marker
<1>2. LineInv'
  BY <1>1, MarkerLines
<1>3. input' = input /\ lexstate' # "string" /\ tokens' = tokens
  BY <1>1 DEF t_cpp_line_marker, Consume, InState
<1>4. QED
  BY <1>2, <1>3, KeepsPositions

LEMMA IdlePosition ==
  ASSUME PositionInv, ValueInv', UNCHANGED <<input, lexpos, lexstate, string, lines, tokens>>
  PROVE  PositionInv'
<1>1. UNCHANGED <<string_start, string_buf, string_escape, in_charconst>>
      /\ UNCHANGED <<lineno, last_newline_pos>>
  BY DEF string, lines
<1>2. LineInv'
  BY <1>1 DEF PositionInv, LineInv
<1>3. lexstate' = "string" => OpenPosition'
  BY <1>1 DEF PositionInv, OpenPosition
<1>4. QED
  BY <1>2, <1>3 DEF PositionInv

(* The constant goes on.                                                   *)
LEMMA PositionGoesOn ==
  ASSUME PositionInv, ValueInv', InString, Consume(1),
         UNCHANGED <<lexstate, string_start, in_charconst, lines, tokens>>,
         string_escape' => next = "bs",
         NoLineEnd(input, string_start + 1, lexpos) /\ ~ in_charconst
           /\ Needful(input, string_start + 2, lexpos + 1) =>
           Len(escape(string_buf', "dq"))
             = lexpos + 1 - string_start - (IF string_escape' THEN 1 ELSE 0)
  PROVE  PositionInv'
<1>1. /\ StateInv /\ TypeInv /\ LineInv /\ lexpos \in Nat /\ next \notin {"nl", "eof"}
      /\ lexstate = "string" /\ OpenPosition
  BY InStringMode DEF PositionInv, ValueInv
<1>2. input' = input /\ lexpos' = lexpos + 1 /\ UNCHANGED lines /\ tokens' = tokens
  BY DEF Consume
<1>3. next # "marker"
  <2>1. Mode(input)[lexpos] # "code"
    BY <1>1 DEF StateInv, ModeInv, Reads, LiteralMode
  <2>2. QED
    BY <1>1, <2>1, NextIsNoMarker
<1>4. LineInv'
  <2>1. \A i \in 1..1 : input[lexpos + i] \notin {"nl", "marker"}
    BY <1>1, <1>3, FirstTwo
  <2>2. QED
    BY <1>1, <1>2, <2>1, LineGoesOn
<1>5. PICK s \in 1..lexpos : s = string_start
  BY <1>1 DEF OpenPosition, Printed
<1>6. input[lexpos + 1] = next
  BY <1>1, ReadsFirst
<1>7. \A p \in s + 1..lexpos + 1 : p = lexpos + 1 \/ p \in s + 1..lexpos
  BY <1>1, <1>5
<1>8. NoMarker(input, s + 1, lexpos + 1)
  BY <1>1, <1>3, <1>5, <1>6, <1>7 DEF OpenPosition, NoMarker
<1>9. NoLineEnd(input, s + 1, lexpos + 1) => NoLineEnd(input, s + 1, lexpos)
  <2>1. \A p \in s + 1..lexpos : p \in s + 1..lexpos + 1
    BY <1>1, <1>5
  <2>2. QED
    BY <2>1 DEF NoLineEnd
<1>10. s \in 1..lexpos + 1 /\ s < lexpos + 1
  BY <1>1, <1>5
<1>11. OpenPosition'
  <2>1. string_start' = s /\ in_charconst' = in_charconst
    BY <1>5
  <2>2. Printed(input, s, lexpos + 1, in_charconst, string_escape', string_buf')
    <3>1. PICK escaping : escaping = string_escape'
      OBVIOUS
    <3>2. PICK value : value = string_buf'
      OBVIOUS
    <3>3. PICK end \in Nat : end = lexpos + 1
      BY <1>1
    <3>4. Printed(input, s, end, in_charconst, escaping, value)
      <4>1. escaping => s < end /\ input[end] = "bs"
        BY <1>6, <1>10, <3>1, <3>3
      <4>2. ASSUME NoLineEnd(input, s + 1, end), ~ in_charconst, Needful(input, s + 2, end)
            PROVE  Len(escape(value, "dq")) = end - s - (IF escaping THEN 1 ELSE 0)
        <5>1. Len(escape(string_buf', "dq"))
                = lexpos + 1 - s - (IF string_escape' THEN 1 ELSE 0)
          BY <1>5, <1>9, <3>3, <4>2
        <5>2. QED
          BY <1>1, <3>1, <3>2, <3>3, <5>1
      <4>3. QED
        BY <4>1, <4>2 DEF Printed
    <3>5. QED
      BY <3>1, <3>2, <3>3, <3>4
  <2>3. Printed(input', string_start', lexpos', in_charconst', string_escape', string_buf')
    BY <1>2, <2>1, <2>2
  <2>4. QED
    BY <1>2, <1>8, <1>10, <2>1, <2>3 DEF OpenPosition
<1>12. QED
  BY <1>2, <1>4, <1>11 DEF PositionInv

LEMMA PrintedLength ==
  ASSUME NEW value \in Seq(Values), NEW c \in Values
  PROVE  /\ Len(escape(value, "dq")) \in Nat
         /\ Len(escape(Append(value, c), "dq"))
              = Len(escape(value, "dq")) + (IF c \in {"newline", "bs", "dq"} THEN 2 ELSE 1)
<1>1. PICK quote \in Quotes : quote = "dq"
  BY DEF Quotes
<1>2. PICK x : x = escape(value, quote)
  OBVIOUS
<1>3. PICK y : y = EscapedForm(c, quote)
  OBVIOUS
<1>4. x \in Seq(Symbols) /\ y \in Seq(Symbols)
  BY <1>2, <1>3, EscapedFormsType, EscapedFormType
<1>5. escape(Append(value, c), quote) = x \o y
  BY <1>2, <1>3, EscapeAppend
<1>6. Len(y) = IF c \in {"newline", "bs", "dq"} THEN 2 ELSE 1
  <2>1. y = IF c = "newline" THEN <<"bs", "n">>
            ELSE IF c \in {"bs", "dq"} THEN <<"bs", c>> ELSE <<c>>
    BY <1>1, <1>3 DEF EscapedForm
  <2>2. QED
    BY <2>1
<1>7. Len(x \o y) = Len(x) + Len(y) /\ Len(x) \in Nat
  BY <1>4
<1>8. QED
  BY <1>1, <1>2, <1>5, <1>6, <1>7

LEMMA EscapedCharPosition ==
  ASSUME PositionInv, ValueInv', EscapedChar
  PROVE  PositionInv'
<1>1. InString /\ string_escape
  BY DEF EscapedChar
<1>2. CASE next = "1"
  BY <1>2, IdlePosition DEF EscapedChar
<1>3. CASE next # "1"
  <2>1. /\ string_buf' = Append(string_buf, Unescaped(next)) /\ string_escape' = FALSE
        /\ Consume(1) /\ UNCHANGED <<lexstate, string_start, in_charconst, lines, tokens>>
    BY <1>3 DEF EscapedChar
  <2>2. /\ next \in Symbols /\ next # "nl" /\ next # "eof" /\ OpenValue /\ OpenPosition
        /\ lexpos \in Nat /\ TypeInv
    BY <1>1, InStringMode DEF PositionInv, ValueInv
  <2>3. string_buf \in Seq(Values) /\ Unescaped(next) \in Values
    BY <2>2 DEF OpenValue, Unescaped, Values, Characters
  <2>4. PICK s \in 1..lexpos : s = string_start
    BY <2>2 DEF OpenPosition, Printed
  <2>5. ASSUME NoLineEnd(input, s + 1, lexpos), ~ in_charconst,
               Needful(input, s + 2, lexpos + 1)
        PROVE  Len(escape(string_buf', "dq")) = lexpos + 1 - s - 0
    <3>1. s < lexpos /\ input[lexpos] = "bs"
      BY <1>1, <2>2, <2>4, <2>5 DEF OpenPosition, Printed
    <3>2. input[lexpos + 1] = next
      BY <2>2, ReadsFirst
    <3>3. PICK p \in s + 2..lexpos + 1 : p = lexpos + 1 /\ p - 1 = lexpos
      BY <2>2, <2>4, <3>1
    <3>4. next \in {"bs", "n", "dq"}
      <4>1. input[p - 1] = "bs" /\ input[p] = next
        BY <3>1, <3>2, <3>3
      <4>2. QED
        BY <2>5, <4>1 DEF Needful
    <3>5. Unescaped(next) \in {"newline", "bs", "dq"}
      BY <3>4 DEF Unescaped
    <3>6. Needful(input, s + 2, lexpos)
      <4>1. \A q \in s + 2..lexpos : q \in s + 2..lexpos + 1
        BY <2>2, <2>4
      <4>2. QED
        BY <2>5, <4>1 DEF Needful
    <3>7. Len(escape(string_buf, "dq")) = lexpos - s - 1
      BY <1>1, <2>2, <2>4, <2>5, <3>6 DEF OpenPosition, Printed
    <3>8. Len(escape(string_buf', "dq")) = Len(escape(string_buf, "dq")) + 2
      BY <2>1, <2>3, <3>5, PrintedLength
    <3>9. QED
      BY <2>2, <2>4, <3>7, <3>8
  <2>6. QED
    BY <1>1, <2>1, <2>4, <2>5, PositionGoesOn
<1>4. QED
  BY <1>2, <1>3

LEMMA BeginEscapePosition ==
  ASSUME PositionInv, ValueInv', BeginEscape
  PROVE  PositionInv'
<1>1. InString /\ ~ string_escape /\ next = "bs" /\ string_escape' = TRUE /\ Consume(1)
      /\ UNCHANGED <<lexstate, string_start, in_charconst, lines, tokens>>
      /\ string_buf' = string_buf
  BY DEF BeginEscape
<1>2. OpenPosition /\ lexpos \in Nat
  BY <1>1, InStringMode DEF PositionInv, ValueInv
<1>3. PICK s \in 1..lexpos : s = string_start
  BY <1>2 DEF OpenPosition, Printed
<1>4. ASSUME NoLineEnd(input, s + 1, lexpos), ~ in_charconst, Needful(input, s + 2, lexpos + 1)
      PROVE  Len(escape(string_buf', "dq")) = lexpos + 1 - s - 1
  <2>1. Needful(input, s + 2, lexpos)
    <3>1. \A p \in s + 2..lexpos : p \in s + 2..lexpos + 1
      BY <1>2, <1>3
    <3>2. QED
      BY <1>4, <3>1 DEF Needful
  <2>2. Len(escape(string_buf, "dq")) = lexpos - s - 0
    BY <1>1, <1>2, <1>3, <1>4, <2>1 DEF OpenPosition, Printed
  <2>3. QED
    BY <1>1, <1>2, <1>3, <2>2
<1>5. QED
  BY <1>1, <1>3, <1>4, PositionGoesOn

LEMMA PlainCharPosition ==
  ASSUME PositionInv, ValueInv', PlainChar
  PROVE  PositionInv'
<1>1. InString /\ ~ string_escape /\ next \notin {"bs", Quote}
  BY DEF PlainChar, Plain
<1>2. CASE in_charconst /\ string_buf # <<>>
  BY <1>2, IdlePosition, TokenErrorFails DEF PlainChar
<1>3. CASE ~ (in_charconst /\ string_buf # <<>>)
  <2>1. /\ string_buf' = Append(string_buf, next) /\ Consume(1)
        /\ UNCHANGED <<lexstate, string_start, string_escape, in_charconst, lines, tokens>>
    BY <1>3 DEF PlainChar
  <2>2. /\ next \in Symbols /\ next # "nl" /\ OpenValue /\ OpenPosition /\ lexpos \in Nat
    BY <1>1, InStringMode DEF PositionInv, ValueInv
  <2>3. string_buf \in Seq(Values) /\ next \in Values
    BY <2>2 DEF OpenValue, Values, Characters
  <2>4. PICK s \in 1..lexpos : s = string_start
    BY <2>2 DEF OpenPosition, Printed
  <2>5. ASSUME NoLineEnd(input, s + 1, lexpos), ~ in_charconst,
               Needful(input, s + 2, lexpos + 1)
        PROVE  Len(escape(string_buf', "dq")) = lexpos + 1 - s - 0
    <3>1. Needful(input, s + 2, lexpos)
      <4>1. \A p \in s + 2..lexpos : p \in s + 2..lexpos + 1
        BY <2>2, <2>4
      <4>2. QED
        BY <2>5, <4>1 DEF Needful
    <3>2. Len(escape(string_buf, "dq")) = lexpos - s - 0
      BY <1>1, <2>2, <2>4, <2>5, <3>1 DEF OpenPosition, Printed
    <3>3. next \notin {"newline", "bs", "dq"}
      BY <1>1, <2>2, <2>5 DEF Quote, Symbols
    <3>4. Len(escape(string_buf', "dq")) = Len(escape(string_buf, "dq")) + 1
      BY <2>1, <2>3, <3>3, PrintedLength
    <3>5. QED
      BY <2>2, <2>4, <3>2, <3>4
  <2>6. QED
    BY <1>1, <2>1, <2>4, <2>5, PositionGoesOn
<1>4. QED
  BY <1>2, <1>3

LEMMA EndOfStringPosition ==
  ASSUME PositionInv, ValueInv', EndOfString
  PROVE  PositionInv'
<1>1. InString /\ ~ string_escape /\ next = Quote
  BY DEF EndOfString
<1>2. CASE in_charconst /\ Len(string_buf) # 1
  BY <1>2, IdlePosition DEF EndOfString
<1>3. CASE ~ (in_charconst /\ Len(string_buf) # 1)
  <2> DEFINE type == IF in_charconst THEN "CHARCONST" ELSE "STRINGCONST"
             token == Token(type, string_start, string_buf, lexpos + 1)
  <2>1. /\ lexstate' # "string" /\ tokens' = Append(tokens, token)
        /\ input' = input /\ lexpos' = lexpos + 1 /\ UNCHANGED lines
    BY <1>3 DEF EndOfString, Consume
  <2>2. /\ TypeInv /\ OpenPosition /\ LineInv /\ lexpos \in Nat
        /\ lexpos <= Len(input) /\ Len(input) \in Nat /\ next # "eof"
    BY <1>1, InStringMode DEF PositionInv, ValueInv
  <2>3. /\ token.type = type /\ token.lexpos = string_start /\ token.value = string_buf
        /\ token.end = lexpos + 1
        /\ token.lineno = lineno /\ token.column = string_start - last_newline_pos
    BY DEF Token
  <2> HIDE DEF token
  <2>4. input[lexpos + 1] = next /\ next \in {"sq", "dq"}
    BY <1>1, <2>2, ReadsFirst DEF Quote
  <2>5. PICK s \in 1..lexpos : s = string_start
    BY <2>2 DEF OpenPosition, Printed
  <2>6. PICK end \in Nat : end = lexpos + 1
    BY <2>2
  <2>7. \A p \in s + 1..end : p = lexpos + 1 \/ p \in s + 1..lexpos
    BY <2>2, <2>5, <2>6
  <2>8. LineInv'
    <3>1. \A i \in 1..1 : input[lexpos + i] \notin {"nl", "marker"}
      BY <2>2, <2>4, FirstTwo
    <3>2. QED
      BY <2>1, <2>2, <3>1, LineGoesOn
  <2>9. ASSUME ~ Swallowed(input, s), NoLineEnd(input, s + 1, end)
        PROVE  token.lineno = Line(input, s) /\ token.column = s - LastEnd(input, s) + 1
    <3>1. \A p \in s + 1..lexpos : input[p] \notin {"nl", "marker"}
      <4>1. \A p \in s + 1..lexpos : p \in s + 1..end
        BY <2>2, <2>5, <2>6
      <4>2. QED
        BY <2>2, <2>5, <2>9, <4>1 DEF OpenPosition, NoMarker, NoLineEnd
    <3>2. s \in Nat /\ s <= lexpos
      BY <2>2, <2>5
    <3>3. /\ Line(input, lexpos) = Line(input, s) /\ LastEnd(input, lexpos) = LastEnd(input, s)
          /\ ~ Swallowed(input, lexpos)
      BY <2>2, <2>9, <3>1, <3>2, SameLine
    <3>4. lineno = Line(input, s) /\ last_newline_pos = LastEnd(input, s) - 1
      BY <2>2, <3>3 DEF LineInv
    <3>5. LastEnd(input, s) \in 0..s
      BY <3>2, LastEndIs
    <3>6. s - (LastEnd(input, s) - 1) = s - LastEnd(input, s) + 1
      BY <3>2, <3>5
    <3>7. QED
      BY <2>3, <2>5, <3>4, <3>6
  <2>10. ASSUME ~ Swallowed(input, s), ~ NoLineEnd(input, s + 1, end)
         PROVE  token.lineno = Line(input, end) /\ token.column < 1
    <3>1. PICK q \in s + 1..lexpos : input[q] = "nl"
      <4>1. PICK q \in s + 1..end : input[q] = "nl"
        BY <2>10 DEF NoLineEnd
      <4>2. q \in s + 1..lexpos
        BY <2>4, <2>7, <4>1
      <4>3. QED
        BY <4>1, <4>2
    <3>2. ~ Swallowed(input, lexpos)
      <4>1. ASSUME Swallowed(input, lexpos) PROVE FALSE
        <5>1. PICK m \in 1..lexpos :
                /\ input[m] = "marker"
                /\ m + 1 \in DOMAIN input /\ input[m + 1] = "nl"
                /\ m + 2 \in DOMAIN input /\ input[m + 2] = "1"
          BY <4>1 DEF Swallowed
        <5>2. m \notin s + 1..lexpos
          BY <2>2, <2>5, <5>1 DEF OpenPosition, NoMarker
        <5>3. m \in 1..s
          BY <2>2, <2>5, <5>2
        <5>4. QED
          BY <2>10, <5>1, <5>3 DEF Swallowed
      <4>2. QED
        BY <4>1
    <3>3. lineno = Line(input, lexpos) /\ last_newline_pos = LastEnd(input, lexpos) - 1
      BY <2>2, <3>2 DEF LineInv
    <3>4. Line(input, end) = Line(input, lexpos)
      <4>1. lexpos <= end /\ \A p \in lexpos + 1..end : input[p] \notin {"nl", "marker"}
        BY <2>2, <2>4, <2>6
      <4>2. QED
        BY <2>2, <4>1, SameLine
    <3>5. LastEnd(input, lexpos) >= q /\ LastEnd(input, lexpos) \in 0..lexpos
      <4>1. q \in LineEnds(input, 1, lexpos)
        BY <2>2, <2>5, <3>1 DEF LineEnds
      <4>2. QED
        BY <2>2, <4>1, LastEndIs
    <3>6. s - (LastEnd(input, lexpos) - 1) < 1
      BY <2>2, <2>5, <3>1, <3>5
    <3>7. QED
      BY <2>3, <2>5, <3>3, <3>4, <3>6
  <2>11. ASSUME token.type = "STRINGCONST", NoLineEnd(input, s + 1, end),
                Needful(input, s + 2, end - 1)
         PROVE  Len(escape(token.value, "dq")) = end - s - 1
    <3>1. ~ in_charconst
      BY <2>3, <2>11
    <3>2. NoLineEnd(input, s + 1, lexpos)
      <4>1. \A p \in s + 1..lexpos : p \in s + 1..end
        BY <2>2, <2>5, <2>6
      <4>2. QED
        BY <2>11, <4>1 DEF NoLineEnd
    <3>3. end - 1 = lexpos
      BY <2>2, <2>6
    <3>4. Len(escape(string_buf, "dq")) = lexpos - s - 0
      BY <1>1, <2>2, <2>5, <2>11, <3>1, <3>2, <3>3 DEF OpenPosition, Printed
    <3>5. lexpos - s - 0 = end - s - 1
      BY <2>2, <2>5, <2>6
    <3>6. QED
      BY <2>3, <3>4, <3>5
  <2>12. TokenPosition(input, token)
    <3>1. token.lexpos = s /\ token.end = end /\ s \in Nat
      BY <2>2, <2>3, <2>5, <2>6
    <3>2. QED
      BY <2>9, <2>10, <2>11, <3>1 DEF TokenPosition
  <2>13. QED
    BY <2>1, <2>8, <2>12, KeepsPositions
<1>4. QED
  BY <1>2, <1>3

LEMMA PositionInvariant == Spec => []PositionInv
<1>1. Init /\ ValueInv => PositionInv
  <2> SUFFICES ASSUME Init, ValueInv PROVE PositionInv
    OBVIOUS
  <2>1. LineInv
    <3>1. Markers(input, 0) = {} /\ LineEnds(input, 1, 0) = {}
      BY DEF Markers, LineEnds
    <3>2. LastEnd(input, 0) \in 0..0
      BY LastEndIs
    <3>3. LastMarker(input, 0) = 0 /\ FirstLine(input, 0) = 1
      BY <3>1 DEF LastMarker, FirstLine
    <3>4. LineEnds(input, 0 + 1, 0) = {} /\ Cardinality({}) = 0
      BY <3>1, FS_EmptySet
    <3>5. Line(input, 0) = 1
      BY <3>3, <3>4 DEF Line
    <3>6. LastEnd(input, 0) - 1 = -1
      BY <3>2
    <3>7. QED
      BY <3>5, <3>6 DEF Init, LineInv
  <2>2. QED
    BY <2>1 DEF Init, PositionInv
<1>2. ASSUME PositionInv, ValueInv', [Next]_vars PROVE PositionInv'
  <2>1. CASE t_ID
    <3>1. "ID" \in PlainTypes /\ {"n", "1"} \subseteq {"n", "1"}
      BY DEF PlainTypes, TokenTypes
    <3>2. QED
      BY <1>2, <2>1, <3>1, WordPosition DEF t_ID, InState
  <2>2. CASE t_number
    <3>1. "INTCONST" \in PlainTypes /\ {"1"} \subseteq {"n", "1"}
      BY DEF PlainTypes, TokenTypes
    <3>2. QED
      BY <1>2, <2>2, <3>1, WordPosition DEF t_number, InState
  <2>3. CASE t_string
    BY <1>2, <2>3, BeginPosition DEF t_string
  <2>4. CASE t_char
    BY <1>2, <2>4, BeginPosition DEF t_char
  <2>5. CASE t_comment
    BY <1>2, <2>5, CommentPosition
  <2>6. CASE Operators
    BY <1>2, <2>6, OperatorsPosition
  <2>7. CASE t_cpp_line_marker
    BY <1>2, <2>7, MarkerPosition
  <2>8. CASE t_error
    BY <1>2, <2>8, IdlePosition, TokenErrorFails DEF t_error
  <2>9. CASE t_ANY_newline
    BY <1>2, <2>9, NewlinePosition
  <2>10. CASE t_comment_end
    BY <1>2, <2>10, CommentEndPosition
  <2>11. CASE t_string_char
    BY <1>2, <2>11, EscapedCharPosition, BeginEscapePosition, EndOfStringPosition,
       PlainCharPosition DEF t_string_char
  <2>12. CASE End
    BY <1>2, <2>12, IdlePosition DEF End
  <2>13. CASE UNCHANGED vars
    BY <1>2, <2>13, IdlePosition DEF vars
  <2>14. QED
    BY <1>2, <2>1, <2>2, <2>3, <2>4, <2>5, <2>6, <2>7, <2>8, <2>9, <2>10, <2>11, <2>12,
       <2>13 DEF Next
<1>3. QED
  BY <1>1, <1>2, ValueInvariant, PTL DEF Spec

(* Tokens are reported on the line and in the column that they are in, by  *)
(* the lexer and the parser, with the exceptions that PositionsTrue names. *)
THEOREM PositionsCorrect == Spec => []PositionsTrue
<1>1. PositionInv => PositionsTrue
  <2> SUFFICES ASSUME PositionInv, NEW i \in DOMAIN tokens
               PROVE  LET token == tokens[i]
                          pos == token.lexpos
                          inside == {p \in (pos + 1)..token.end : input[p] = "nl"}
                          before == {p \in 1..pos : input[p] = "nl"}
                      IN /\ inside = {} /\ ~SwallowedLine(pos) =>
                              token.lineno = TrueLine(pos) /\ token.column = TrueColumn(pos)
                         /\ inside # {} /\ ~SwallowedLine(pos) =>
                              token.lineno = TrueLine(token.end) /\ token.column < 1
                         /\ column(token) = TrueColumn(pos)
                              - (IF before = {} THEN 2 ELSE IF before = {1} THEN 1 ELSE 0)
                         /\ token.type = "STRINGCONST" /\ inside = {}
                              /\ (\A p \in (pos + 2)..(token.end - 1) :
                                    input[p - 1] = "bs" /\ input[p] # "bs" => input[p] \in {"n", "dq"}) =>
                              StringSpan(token) = <<column(token) - 1,
                                                    column(token) + token.end - pos - 1>>
    BY DEF PositionsTrue
  <2>1. PICK token \in TokenSet : token = tokens[i]
    BY DEF PositionInv, ValueInv, StateInv, TypeInv
  <2>2. PICK pos \in Nat, end \in Int : pos = token.lexpos /\ end = token.end
    BY <2>1 DEF PositionInv, TokenPosition, TokenSet
  <2>3. TokenPosition(input, token)
    BY <2>1 DEF PositionInv
  <2> DEFINE inside == {p \in pos + 1..end : input[p] = "nl"}
             before == {p \in 1..pos : input[p] = "nl"}
  <2>4. inside = {} <=> NoLineEnd(input, pos + 1, end)
    BY DEF NoLineEnd
  <2>5. inside = {} /\ ~ SwallowedLine(pos) =>
          token.lineno = TrueLine(pos) /\ token.column = TrueColumn(pos)
    BY <2>2, <2>3, <2>4, SameLines DEF TokenPosition
  <2>6. inside # {} /\ ~ SwallowedLine(pos) => token.lineno = TrueLine(end) /\ token.column < 1
    BY <2>2, <2>3, <2>4, SameLines DEF TokenPosition
  <2>7. column(token) = TrueColumn(pos)
          - (IF before = {} THEN 2 ELSE IF before = {1} THEN 1 ELSE 0)
    BY <2>2, ParserColumn
  <2>8. ASSUME token.type = "STRINGCONST", inside = {},
               \A p \in pos + 2..end - 1 :
                 input[p - 1] = "bs" /\ input[p] # "bs" => input[p] \in {"n", "dq"}
        PROVE  StringSpan(token) = <<column(token) - 1, column(token) + end - pos - 1>>
    <3>1. Len(escape(token.value, "dq")) = end - pos - 1
      BY <2>2, <2>3, <2>4, <2>8 DEF TokenPosition, Needful
    <3>2. PICK c \in Int : c = column(token)
      <4>1. TrueColumn(pos) \in Int
        BY SameLines, LastEndIs
      <4>2. QED
        BY <2>7, <4>1
    <3>3. end \in Int
      BY <2>1, <2>2 DEF TokenSet
    <3>4. StringSpan(token) = <<c - 1, c - 1 + (end - pos - 1) + 1>>
      BY <3>1, <3>2 DEF StringSpan
    <3>5. c - 1 + (end - pos - 1) + 1 = c + end - pos - 1
      BY <2>2, <3>2, <3>3
    <3>6. QED
      BY <3>2, <3>4, <3>5
  <2>9. QED
    BY <2>1, <2>2, <2>5, <2>6, <2>7, <2>8
<1>2. QED
  BY <1>1, PositionInvariant, PTL

----------------------------------------------------------------------------
(* Nothing is lost                                                         *)

From(token) == token.lexpos + IF Constant(token) THEN 0 ELSE 1

\* Of what was read, what no open constant is part of.
Settled == IF lexstate = "string" THEN string_start - 1 ELSE lexpos

(* Tokens are in their order, and apart.                                   *)
OrderInv ==
  /\ \A i \in DOMAIN tokens : From(tokens[i]) \in 1..tokens[i].end /\ tokens[i].end <= Settled
  /\ \A i, j \in DOMAIN tokens : i < j => tokens[i].end < From(tokens[j])

CoverInv ==
  ~ Swallowed(input, Settled) =>
    \A p \in 1..Settled : (\E i \in DOMAIN tokens : p \in Span(tokens[i])) <=> p \in Tokens

Has(text, p, syms) == p \in DOMAIN text /\ text[p] \in syms

(* How a token begins, and what does not follow it.                        *)
TokenEdges(text, token) ==
  LET first == token.lexpos + 1
      after == token.end + 1
  IN /\ token.type = "ID" => Has(text, first, {"n"}) /\ ~ Has(text, after, {"n", "1"})
     /\ token.type = "INTCONST" => Has(text, first, {"1"}) /\ ~ Has(text, after, {"1"})
     /\ token.type \in {"=", "EQ"} => Has(text, first, {"="})
     /\ token.type \in {"/", "*", "%", "="} => ~ Has(text, after, {"="})

(* All since the quote is part of a constant; more than one character      *)
(* takes an escape.                                                        *)
OpenLiteral ==
  LET escaped == \E p \in string_start + 1..lexpos : input[p] = "bs"
  IN /\ Mode(input)[string_start - 1] \in {"code", "slash"}
     /\ \A p \in string_start..lexpos : Mode(input)[p] \in Literals
     /\ string_escape => escaped
     /\ in_charconst /\ Len(string_buf) > 1 => escaped

(* Why the lexer stopped.                                                  *)
StopInv ==
  /\ outcome = "end" => next = "eof"
  /\ outcome \in {"error", "crash"} =>
       IF lexstate = "INITIAL" THEN next = "bs"
       ELSE IF string_escape THEN outcome = "crash" /\ next = "1"
       ELSE /\ in_charconst /\ next # "bs"
            /\ outcome = "crash" <=> next \in {"sq", "%"}
            /\ string_buf = <<>> <=> next = "sq" /\ Len(string_buf) < 2
            /\ Len(string_buf) > 1 => \E p \in string_start + 1..lexpos : input[p] = "bs"

CompleteInv ==
  /\ ValueInv /\ OrderInv /\ CoverInv
  /\ lexstate = "string" => OpenLiteral
  /\ \A i \in DOMAIN tokens : TokenEdges(input, tokens[i])
  /\ StopInv

LEMMA SameTokens ==
  ASSUME input' = input
  PROVE  Tokens' = Tokens
BY DEF Tokens, Symbol

\* What is before a place is not after it.
LEMMA LessSwallowed ==
  ASSUME NEW a \in Nat, NEW b \in Nat, a <= b, ~ Swallowed(input, b)
  PROVE  ~ Swallowed(input, a)
BY SwallowedGrows

LEMMA EndsType ==
  ASSUME TypeInv, NEW i \in DOMAIN tokens
  PROVE  tokens[i].end \in Nat
<1>1. lexpos \in Nat /\ tokens[i].end \in 1..lexpos
  BY InputType DEF TypeInv
<1>2. QED
  BY <1>1

(* What is read is one token.                                              *)
LEMMA AddsToken ==
  ASSUME TypeInv, OrderInv, CoverInv, input' = input,
         NEW a \in Nat, NEW b \in Nat, a < b, a = Settled, b = Settled',
         NEW token, tokens' = Append(tokens, token), From(token) = a + 1, token.end = b,
         \A p \in a + 1..b : p \in Tokens
  PROVE  OrderInv' /\ CoverInv'
<1> DEFINE n == Len(tokens)
<1>1. /\ tokens \in Seq(TokenSet) /\ n \in Nat /\ DOMAIN tokens = 1..n
      /\ DOMAIN tokens' = 1..n + 1 /\ tokens'[n + 1] = token
      /\ \A i \in 1..n : tokens'[i] = tokens[i]
  <2>1. tokens \in Seq(TokenSet)
    BY DEF TypeInv
  <2>2. QED
    BY <2>1
<1> HIDE DEF n
<1>2. \A i \in 1..n : From(tokens[i]) \in 1..tokens[i].end /\ tokens[i].end <= a
                      /\ tokens[i].end \in Nat
  BY <1>1, EndsType DEF OrderInv
<1>3. \A i \in 1..n + 1 : i = n + 1 \/ i \in 1..n
  BY <1>1
<1>4. OrderInv'
  <2>1. ASSUME NEW i \in DOMAIN tokens'
        PROVE  From(tokens'[i]) \in 1..tokens'[i].end /\ tokens'[i].end <= b
    <3>1. CASE i = n + 1
      BY <1>1, <3>1
    <3>2. CASE i \in 1..n
      BY <1>1, <1>2, <3>2
    <3>3. QED
      BY <1>1, <1>3, <3>1, <3>2
  <2>2. ASSUME NEW i \in DOMAIN tokens', NEW j \in DOMAIN tokens', i < j
        PROVE  tokens'[i].end < From(tokens'[j])
    <3>1. i \in 1..n
      BY <1>1, <1>3, <2>2
    <3>2. CASE j = n + 1
      BY <1>1, <1>2, <3>1, <3>2
    <3>3. CASE j \in 1..n
      BY <1>1, <2>2, <3>1, <3>3 DEF OrderInv
    <3>4. QED
      BY <1>1, <1>3, <3>2, <3>3
  <2>3. QED
    BY <2>1, <2>2 DEF OrderInv
<1>5. CoverInv'
  <2>1. SUFFICES ASSUME ~ Swallowed(input, b), NEW p \in 1..b
                 PROVE  (\E i \in DOMAIN tokens' : p \in Span(tokens'[i])) <=> p \in Tokens
    <3>1. Tokens' = Tokens
      BY SameTokens
    <3>2. QED
      BY <3>1 DEF CoverInv
  <2>2. Span(token) = a + 1..b
    BY DEF Span, From
  <2>3. CASE p > a
    <3>1. p \in Span(tokens'[n + 1]) /\ n + 1 \in DOMAIN tokens'
      BY <1>1, <2>2, <2>3
    <3>2. p \in a + 1..b
      BY <2>3
    <3>3. QED
      BY <3>1, <3>2
  <2>4. CASE p <= a
    <3>1. ~ Swallowed(input, a)
      BY <2>1, LessSwallowed
    <3>2. (\E i \in DOMAIN tokens : p \in Span(tokens[i])) <=> p \in Tokens
      BY <2>4, <3>1 DEF CoverInv
    <3>3. p \notin Span(token)
      BY <2>2, <2>4
    <3>4. (\E i \in DOMAIN tokens' : p \in Span(tokens'[i]))
            <=> (\E i \in DOMAIN tokens : p \in Span(tokens[i]))
      BY <1>1, <1>3, <3>3
    <3>5. QED
      BY <3>2, <3>4
  <2>5. QED
    BY <2>3, <2>4
<1>6. QED
  BY <1>4, <1>5

(* What is read is no part of a token, or nothing that can be said.        *)
LEMMA AddsNoToken ==
  ASSUME TypeInv, OrderInv, CoverInv, input' = input, tokens' = tokens,
         NEW a \in Nat, NEW b \in Nat, a <= b, a = Settled, b = Settled',
         Swallowed(input, b) \/ \A p \in a + 1..b : p \notin Tokens
  PROVE  OrderInv' /\ CoverInv'
<1>1. \A i \in DOMAIN tokens : From(tokens[i]) \in 1..tokens[i].end /\ tokens[i].end <= a
                               /\ tokens[i].end \in Nat
  BY EndsType DEF OrderInv
<1>2. OrderInv'
  <2>1. \A i \in DOMAIN tokens' : From(tokens'[i]) \in 1..tokens'[i].end /\ tokens'[i].end <= b
    BY <1>1
  <2>2. QED
    BY <2>1 DEF OrderInv
<1>3. CoverInv'
  <2>1. SUFFICES ASSUME ~ Swallowed(input, b), NEW p \in 1..b
                 PROVE  (\E i \in DOMAIN tokens : p \in Span(tokens[i])) <=> p \in Tokens
    <3>1. Tokens' = Tokens
      BY SameTokens
    <3>2. QED
      BY <3>1 DEF CoverInv
  <2>2. CASE p > a
    <3>1. p \in a + 1..b
      BY <2>2
    <3>2. p \notin Tokens
      BY <2>1, <3>1
    <3>3. ASSUME NEW i \in DOMAIN tokens PROVE p \notin Span(tokens[i])
      BY <1>1, <2>2 DEF Span
    <3>4. QED
      BY <3>2, <3>3
  <2>3. CASE p <= a
    <3>1. ~ Swallowed(input, a)
      BY <2>1, LessSwallowed
    <3>2. QED
      BY <2>3, <3>1 DEF CoverInv
  <2>4. QED
    BY <2>2, <2>3
<1>4. QED
  BY <1>2, <1>3

(* The lexer goes on, with no token or one more.                           *)
LEMMA GoesOn ==
  ASSUME CompleteInv, ValueInv', OrderInv', CoverInv',
         outcome' = "running", input' = input, lexstate' = "string" => OpenLiteral',
         \/ tokens' = tokens
         \/ \E token : tokens' = Append(tokens, token) /\ TokenEdges(input, token)
  PROVE  CompleteInv'
<1>1. \A i \in DOMAIN tokens' : TokenEdges(input, tokens'[i])
  <2>1. CASE tokens' = tokens
    BY <2>1 DEF CompleteInv
  <2>2. CASE \E token : tokens' = Append(tokens, token) /\ TokenEdges(input, token)
    <3>1. PICK token : tokens' = Append(tokens, token) /\ TokenEdges(input, token)
      BY <2>2
    <3>2. tokens \in Seq(TokenSet)
      BY DEF CompleteInv, ValueInv, StateInv, TypeInv
    <3>3. \A i \in DOMAIN tokens' : tokens'[i] = token \/ \E j \in DOMAIN tokens : tokens'[i] = tokens[j]
      BY <3>1, <3>2
    <3>4. QED
      BY <3>1, <3>3 DEF CompleteInv
  <2>3. QED
    BY <2>1, <2>2
<1>2. StopInv'
  BY DEF StopInv
<1>3. QED
  BY <1>1, <1>2 DEF CompleteInv

(* Tokens that are one match of a rule.                                    *)
LEMMA EmitComplete ==
  ASSUME CompleteInv, ValueInv', InState("INITIAL"),
         NEW k \in Nat, k \in 1..Len(input) - lexpos,
         \A p \in lexpos + 1..lexpos + k : p \in Tokens,
         NEW type \in PlainTypes, Emit(type, k),
         type = "ID" => next = "n" /\ Symbol(lexpos + k + 1) \notin {"n", "1"},
         type = "INTCONST" => next = "1" /\ Symbol(lexpos + k + 1) # "1",
         type \in {"=", "EQ"} => next = "=",
         type \in {"/", "*", "%", "="} => Symbol(lexpos + k + 1) # "="
  PROVE  CompleteInv'
<1> DEFINE value == SubSeq(input, lexpos + 1, lexpos + k)
           token == Token(type, lexpos, value, lexpos + k)
<1>1. TypeInv /\ OrderInv /\ CoverInv /\ lexpos \in Nat /\ lexstate = "INITIAL"
      /\ outcome = "running"
  BY InputType DEF CompleteInv, ValueInv, StateInv, TypeInv, InState
<1>2. /\ input' = input /\ lexpos' = lexpos + k /\ lexstate' = "INITIAL" /\ outcome' = "running"
      /\ tokens' = Append(tokens, token)
  BY <1>1 DEF Emit, Consume
<1>3. token.type = type /\ token.lexpos = lexpos /\ token.end = lexpos + k
  BY DEF Token
<1> HIDE DEF token
<1>4. OrderInv' /\ CoverInv'
  <2>1. PICK b \in Nat : b = lexpos + k /\ lexpos < b
    BY <1>1
  <2>2. Settled = lexpos /\ Settled' = b
    BY <1>1, <1>2, <2>1 DEF Settled
  <2>3. From(token) = lexpos + 1
    BY <1>3 DEF From, Constant, PlainTypes
  <2>4. QED
    BY <1>1, <1>2, <1>3, <2>1, <2>2, <2>3, AddsToken
<1>5. TokenEdges(input, token)
  <2>1. PICK a : a = lexpos + k + 1
    OBVIOUS
  <2>2. \A p : \A syms \in SUBSET Symbols : Has(input, p, syms) <=> Symbol(p) \in syms
    BY DEF Has, Symbol, Symbols
  <2>3. /\ {"n"} \in SUBSET Symbols /\ {"n", "1"} \in SUBSET Symbols
        /\ {"1"} \in SUBSET Symbols /\ {"="} \in SUBSET Symbols
    BY DEF Symbols
  <2>4. Symbol(lexpos + 1) = next
    BY DEF next
  <2>5. type = "ID" => Has(input, lexpos + 1, {"n"}) /\ ~ Has(input, a, {"n", "1"})
    BY <2>1, <2>2, <2>3, <2>4
  <2>6. type = "INTCONST" => Has(input, lexpos + 1, {"1"}) /\ ~ Has(input, a, {"1"})
    BY <2>1, <2>2, <2>3, <2>4
  <2>7. /\ type \in {"=", "EQ"} => Has(input, lexpos + 1, {"="})
        /\ type \in {"/", "*", "%", "="} => ~ Has(input, a, {"="})
    BY <2>1, <2>2, <2>3, <2>4
  <2>8. QED
    BY <1>3, <2>1, <2>5, <2>6, <2>7 DEF TokenEdges
<1>6. QED
  BY <1>1, <1>2, <1>4, <1>5, GoesOn

(* What is part of a token, symbol by symbol.                              *)
LEMMA IsToken ==
  ASSUME TypeInv, NEW p \in 1..Len(input), NEW before, before = Mode(input)[p - 1]
  PROVE  p \in Tokens <=>
           \/ before \in Literals
           \/ /\ before \in {"code", "slash"} /\ input[p] \notin {"nl", "marker"}
              /\ ~ (before = "slash" /\ input[p] \in {"/", "*"})
              /\ ~ (Mode(input)[p] = "slash" /\ Symbol(p + 1) \in {"/", "*"})
<1>1. p \in DOMAIN input
  BY InputType DEF TypeInv
<1>2. QED
  BY <1>1 DEF Tokens

\* The next two.
LEMMA AreTokens ==
  ASSUME TypeInv, next # "eof"
  PROVE  /\ lexpos + 1 \in Tokens <=>
              \/ Mode(input)[lexpos] \in Literals
              \/ /\ Mode(input)[lexpos] \in {"code", "slash"} /\ next \notin {"nl", "marker"}
                 /\ ~ (Mode(input)[lexpos] = "slash" /\ next \in {"/", "*"})
                 /\ ~ (Mode(input)[lexpos + 1] = "slash" /\ Symbol(lexpos + 2) \in {"/", "*"})
         /\ Symbol(lexpos + 2) # "eof" =>
              (lexpos + 2 \in Tokens <=>
                 \/ Mode(input)[lexpos + 1] \in Literals
                 \/ /\ Mode(input)[lexpos + 1] \in {"code", "slash"}
                    /\ Symbol(lexpos + 2) \notin {"nl", "marker"}
                    /\ ~ (Mode(input)[lexpos + 1] = "slash" /\ Symbol(lexpos + 2) \in {"/", "*"})
                    /\ ~ (Mode(input)[lexpos + 2] = "slash"
                            /\ Symbol(lexpos + 3) \in {"/", "*"}))
<1>1. lexpos \in Nat /\ Len(input) \in Nat /\ lexpos <= Len(input)
  BY InputType DEF TypeInv
<1>2. 1 <= Len(input) - lexpos /\ input[lexpos + 1] = next
  BY ReadsFirst
<1>3. PICK p \in 1..Len(input) : p = lexpos + 1 /\ p - 1 = lexpos /\ p + 1 = lexpos + 2
  BY <1>1, <1>2
<1>4. PICK m : m = Mode(input)[lexpos]
  OBVIOUS
<1>5. p \in Tokens <=>
           \/ m \in Literals
           \/ /\ m \in {"code", "slash"} /\ input[p] \notin {"nl", "marker"}
              /\ ~ (m = "slash" /\ input[p] \in {"/", "*"})
              /\ ~ (Mode(input)[p] = "slash" /\ Symbol(p + 1) \in {"/", "*"})
  BY <1>3, <1>4, IsToken
<1>6. ASSUME Symbol(lexpos + 2) # "eof"
      PROVE  lexpos + 2 \in Tokens <=>
                 \/ Mode(input)[lexpos + 1] \in Literals
                 \/ /\ Mode(input)[lexpos + 1] \in {"code", "slash"}
                    /\ Symbol(lexpos + 2) \notin {"nl", "marker"}
                    /\ ~ (Mode(input)[lexpos + 1] = "slash" /\ Symbol(lexpos + 2) \in {"/", "*"})
                    /\ ~ (Mode(input)[lexpos + 2] = "slash"
                            /\ Symbol(lexpos + 3) \in {"/", "*"})
  <2>1. 2 <= Len(input) - lexpos /\ Symbol(lexpos + 2) = input[lexpos + 2]
    BY <1>6, ReadsSecond
  <2>2. PICK q \in 1..Len(input) : q = lexpos + 2 /\ q - 1 = lexpos + 1 /\ q + 1 = lexpos + 3
    BY <1>1, <2>1
  <2>3. PICK x : x = Mode(input)[lexpos + 1]
    OBVIOUS
  <2>4. q \in Tokens <=>
             \/ x \in Literals
             \/ /\ x \in {"code", "slash"} /\ input[q] \notin {"nl", "marker"}
                /\ ~ (x = "slash" /\ input[q] \in {"/", "*"})
                /\ ~ (Mode(input)[q] = "slash" /\ Symbol(q + 1) \in {"/", "*"})
    BY <2>2, <2>3, IsToken
  <2>5. QED
    BY <2>1, <2>2, <2>3, <2>4
<1>7. QED
  BY <1>2, <1>3, <1>4, <1>5, <1>6

LEMMA WordComplete ==
  ASSUME CompleteInv, ValueInv', InState("INITIAL"), NEW S, S \subseteq {"n", "1"}, next \in S,
         NEW type \in PlainTypes, Emit(type, RunOf(S)),
         \/ type = "ID" /\ next = "n" /\ S = {"n", "1"}
         \/ type = "INTCONST" /\ S = {"1"}
  PROVE  CompleteInv'
<1>1. StateInv /\ TypeInv /\ lexpos \in Nat /\ Len(input) \in Nat /\ lexpos <= Len(input)
      /\ lexstate = "INITIAL" /\ next \notin {"nl", "eof"}
  BY InputType DEF CompleteInv, ValueInv, StateInv, TypeInv, InState
<1>2. PICK k \in Nat : /\ k = RunOf(S) /\ k \in 1..Len(input) - lexpos
                       /\ \A i \in 1..k : input[lexpos + i] \in S
                       /\ \A p \in lexpos + 1..lexpos + k : Mode(input)[p] = "code"
                       /\ Symbol(lexpos + k + 1) \notin S
  BY <1>1, WordRun
<1>3. Mode(input)[lexpos] \in {"code", "slash"}
  BY <1>1, InitialMode
<1>4. \A p \in lexpos + 1..lexpos + k : p \in Tokens
  <2>1. TAKE p \in lexpos + 1..lexpos + k
  <2>2. p \in 1..Len(input)
    BY <1>1, <1>2
  <2>3. input[p] \in {"n", "1"}
    <3>1. p - lexpos \in 1..k /\ lexpos + (p - lexpos) = p
      BY <1>1
    <3>2. QED
      BY <1>2, <3>1
  <2>4. PICK before : before = Mode(input)[p - 1]
    OBVIOUS
  <2>5. before \in {"code", "slash"}
    <3>1. CASE p = lexpos + 1
      <4>1. p - 1 = lexpos
        BY <1>1, <3>1
      <4>2. QED
        BY <1>3, <2>4, <4>1
    <3>2. CASE p # lexpos + 1
      <4>1. p - 1 \in lexpos + 1..lexpos + k
        BY <1>1, <3>2
      <4>2. QED
        BY <1>2, <2>4, <4>1
    <3>3. QED
      BY <3>1, <3>2
  <2>6. Mode(input)[p] = "code"
    BY <1>2
  <2>7. QED
    BY <1>1, <2>2, <2>3, <2>4, <2>5, <2>6, IsToken
<1>5. Emit(type, k)
  BY <1>2
<1>6. type = "ID" => next = "n" /\ Symbol(lexpos + k + 1) \notin {"n", "1"}
  BY <1>2
<1>7. type = "INTCONST" => next = "1" /\ Symbol(lexpos + k + 1) # "1"
  BY <1>2
<1>8. QED
  BY <1>2, <1>4, <1>5, <1>6, <1>7, EmitComplete

(* Outside of tokens.                                                      *)
LEMMA SkipComplete ==
  ASSUME CompleteInv, ValueInv', outcome = "running", lexstate # "string", lexstate' # "string",
         NEW k \in Nat, lexpos' = lexpos + k, input' = input, outcome' = outcome,
         tokens' = tokens,
         Swallowed(input, lexpos + k) \/ \A p \in lexpos + 1..lexpos + k : p \notin Tokens
  PROVE  CompleteInv'
<1>1. TypeInv /\ OrderInv /\ CoverInv /\ lexpos \in Nat
  BY InputType DEF CompleteInv, ValueInv, StateInv, TypeInv
<1>2. PICK b \in Nat : b = lexpos + k /\ lexpos <= b
  BY <1>1
<1>3. Settled = lexpos /\ Settled' = b
  BY <1>2 DEF Settled
<1>4. OrderInv' /\ CoverInv'
  BY <1>1, <1>2, <1>3, AddsNoToken
<1>5. QED
  BY <1>4, GoesOn

LEMMA OperatorsComplete ==
  ASSUME CompleteInv, ValueInv', Operators
  PROVE  CompleteInv'
<1>1. /\ StateInv /\ TypeInv /\ lexpos \in Nat /\ Len(input) \in Nat /\ lexpos <= Len(input)
      /\ lexstate = "INITIAL" /\ InState("INITIAL") /\ next \in {"/", "*", "%", "="}
      /\ outcome = "running" /\ next \notin {"nl", "eof"}
      /\ ~ (next = "/" /\ Symbol(lexpos + 2) = "*")
  <2>1. /\ StateInv /\ TypeInv /\ lexpos \in Nat /\ Len(input) \in Nat
        /\ lexpos <= Len(input)
    BY InputType DEF CompleteInv, ValueInv, StateInv, TypeInv
  <2>2. /\ InState("INITIAL") /\ next \in {"/", "*", "%", "="} /\ Pair # <<"/", "*">>
    BY DEF Operators
  <2>3. QED
    BY <2>1, <2>2 DEF InState, Pair
<1>2. /\ 1 <= Len(input) - lexpos
      /\ Mode(input)[lexpos + 1] = After(Mode(input)[lexpos], next)
  BY <1>1, ReadsFirst
<1>3. /\ Mode(input)[lexpos] \in {"code", "slash"}
      /\ next \in {"/", "*"} => Mode(input)[lexpos] = "code"
  BY <1>1, InitialMode
<1>4. Mode(input)[lexpos + 1] = IF next = "/" THEN "slash" ELSE "code"
  BY <1>1, <1>2, <1>3 DEF After
<1>5. CASE Symbol(lexpos + 2) = "="
  <2>1. Emit(IF next = "=" THEN "EQ" ELSE "MODIFY", 2)
    <3>1. Pair[2] = "=" /\ Pair # <<"/", "/">>
      BY <1>5 DEF Pair
    <3>2. QED
      BY <3>1 DEF Operators
  <2>2. PICK type \in PlainTypes : Emit(type, 2) /\ type = IF next = "=" THEN "EQ" ELSE "MODIFY"
    BY <2>1 DEF PlainTypes, TokenTypes
  <2>3. /\ 2 <= Len(input) - lexpos
        /\ Mode(input)[lexpos + 2] = After(Mode(input)[lexpos + 1], "=")
    BY <1>1, <1>5, ReadsSecond
  <2>4. Mode(input)[lexpos + 2] = "code"
    BY <1>4, <2>3 DEF After
  <2>5. lexpos + 1 \in Tokens
    BY <1>1, <1>3, <1>5, AreTokens
  <2>6. lexpos + 2 \in Tokens
    <3>1. Mode(input)[lexpos + 1] \in {"code", "slash"}
      BY <1>4
    <3>2. QED
      BY <1>1, <1>5, <2>4, <3>1, AreTokens
  <2>7. \A p \in lexpos + 1..lexpos + 2 : p \in Tokens
    <3>1. \A p \in lexpos + 1..lexpos + 2 : p = lexpos + 1 \/ p = lexpos + 2
      BY <1>1
    <3>2. QED
      BY <2>5, <2>6, <3>1
  <2>8. 2 \in 1..Len(input) - lexpos
    BY <1>1, <2>3
  <2>9. QED
    BY <1>1, <2>2, <2>7, <2>8, EmitComplete
<1>6. CASE next = "/" /\ Symbol(lexpos + 2) = "/"
  <2>1. Skip(RunOf(Symbols \ {"nl"}))
    <3>1. Pair[2] # "=" /\ Pair = <<"/", "/">>
      BY <1>6 DEF Pair
    <3>2. QED
      BY <3>1 DEF Operators
  <2>2. PICK k \in Nat :
          /\ k = RunOf(Symbols \ {"nl"}) /\ k \in 2..Len(input) - lexpos
          /\ \A p \in lexpos + 2..lexpos + k : Mode(input)[p] = "line"
    BY <1>1, <1>6, LineComment
  <2>3. \A p \in lexpos + 1..lexpos + k : p \notin Tokens
    <3>1. TAKE p \in lexpos + 1..lexpos + k
    <3>2. CASE p = lexpos + 1
      <4>1. Mode(input)[lexpos] = "code" /\ Mode(input)[lexpos + 1] = "slash"
        BY <1>3, <1>4, <1>6
      <4>2. QED
        BY <1>1, <1>6, <3>2, <4>1, AreTokens DEF Literals
    <3>3. CASE p = lexpos + 2
      <4>1. Mode(input)[lexpos + 1] = "slash"
        BY <1>4, <1>6
      <4>2. QED
        BY <1>1, <1>6, <3>3, <4>1, AreTokens DEF Literals
    <3>4. CASE p \in lexpos + 3..lexpos + k
      <4>1. p \in 1..Len(input) /\ p - 1 \in lexpos + 2..lexpos + k
        BY <1>1, <2>2, <3>4
      <4>2. PICK before : before = Mode(input)[p - 1]
        OBVIOUS
      <4>3. before = "line"
        BY <2>2, <4>1, <4>2
      <4>4. QED
        BY <1>1, <4>1, <4>2, <4>3, IsToken DEF Literals
    <3>5. QED
      BY <1>1, <3>2, <3>3, <3>4
  <2>4. /\ input' = input /\ lexpos' = lexpos + k /\ lexstate' # "string"
        /\ outcome' = outcome /\ tokens' = tokens
    BY <1>1, <2>1, <2>2 DEF Skip, Consume
  <2>5. QED
    BY <1>1, <2>3, <2>4, SkipComplete
<1>7. CASE Symbol(lexpos + 2) # "=" /\ ~ (next = "/" /\ Symbol(lexpos + 2) = "/")
  <2>1. Emit(next, 1)
    <3>1. Pair[2] # "=" /\ Pair # <<"/", "/">>
      BY <1>7 DEF Pair
    <3>2. QED
      BY <3>1 DEF Operators
  <2>2. PICK type \in PlainTypes : type = next /\ Emit(type, 1)
    BY <1>1, <2>1 DEF PlainTypes, TokenTypes
  <2>3. lexpos + 1 \in Tokens
    BY <1>1, <1>3, <1>4, <1>7, AreTokens
  <2>4. \A p \in lexpos + 1..lexpos + 1 : p \in Tokens
    BY <1>1, <2>3
  <2>5. 1 \in 1..Len(input) - lexpos /\ lexpos + 1 + 1 = lexpos + 2
    BY <1>1, <1>2
  <2>6. Symbol(lexpos + 1 + 1) # "="
    BY <1>7, <2>5
  <2>7. QED
    BY <1>1, <2>2, <2>4, <2>5, <2>6, EmitComplete
<1>8. QED
  BY <1>5, <1>6, <1>7

LEMMA CommentComplete ==
  ASSUME CompleteInv, ValueInv', t_comment
  PROVE  CompleteInv'
<1>1. /\ StateInv /\ TypeInv /\ lexpos \in Nat /\ lexstate = "INITIAL" /\ outcome = "running"
      /\ next = "/" /\ Symbol(lexpos + 2) = "*"
  BY InputType DEF CompleteInv, ValueInv, StateInv, TypeInv, t_comment, InState, Pair
<1>2. Mode(input)[lexpos] = "code"
  BY <1>1, InitialMode
<1>3. Mode(input)[lexpos + 1] = "slash"
  BY <1>1, <1>2, ReadsFirst DEF After
<1>4. lexpos + 1 \notin Tokens
  BY <1>1, <1>2, <1>3, AreTokens DEF Literals
<1>5. lexpos + 2 \notin Tokens
  BY <1>1, <1>3, AreTokens DEF Literals
<1>6. \A p \in lexpos + 1..lexpos + 2 : p \notin Tokens
  <2>1. \A p \in lexpos + 1..lexpos + 2 : p = lexpos + 1 \/ p = lexpos + 2
    BY <1>1
  <2>2. QED
    BY <1>4, <1>5, <2>1
<1>7. /\ lexpos' = lexpos + 2 /\ input' = input /\ outcome' = outcome
      /\ lexstate' # "string" /\ tokens' = tokens
  BY DEF t_comment, Consume
<1>8. QED
  BY <1>1, <1>6, <1>7, SkipComplete

LEMMA CommentEndComplete ==
  ASSUME CompleteInv, ValueInv', t_comment_end
  PROVE  CompleteInv'
<1>1. /\ StateInv /\ TypeInv /\ lexpos \in Nat /\ lexstate = "comment" /\ outcome = "running"
      /\ next \notin {"nl", "eof"}
  BY InputType DEF CompleteInv, ValueInv, StateInv, TypeInv, t_comment_end, InState
<1>2. Mode(input)[lexpos] \in {"comment", "star"}
  BY <1>1 DEF StateInv, ModeInv, Reads
<1>3. lexpos + 1 \notin Tokens
  BY <1>1, <1>2, AreTokens DEF Literals
<1>4. CASE Pair = <<"*", "/">>
  <2>1. next = "*" /\ Symbol(lexpos + 2) = "/"
    BY <1>4 DEF Pair
  <2>2. Mode(input)[lexpos + 1] = "star"
    BY <1>1, <1>2, <2>1, ReadsFirst DEF After
  <2>3. lexpos + 2 \notin Tokens
    BY <1>1, <2>1, <2>2, AreTokens DEF Literals
  <2>4. \A p \in lexpos + 1..lexpos + 2 : p \notin Tokens
    <3>1. \A p \in lexpos + 1..lexpos + 2 : p = lexpos + 1 \/ p = lexpos + 2
      BY <1>1
    <3>2. QED
      BY <1>3, <2>3, <3>1
  <2>5. /\ lexpos' = lexpos + 2 /\ input' = input /\ outcome' = outcome
        /\ lexstate' # "string" /\ tokens' = tokens
    BY <1>4 DEF t_comment_end, Consume
  <2>6. QED
    BY <1>1, <2>4, <2>5, SkipComplete
<1>5. CASE Pair # <<"*", "/">>
  <2>1. \A p \in lexpos + 1..lexpos + 1 : p \notin Tokens
    BY <1>1, <1>3
  <2>2. /\ lexpos' = lexpos + 1 /\ input' = input /\ outcome' = outcome
        /\ lexstate' # "string" /\ tokens' = tokens
    BY <1>1, <1>5 DEF t_comment_end, Skip, Consume
  <2>3. QED
    BY <1>1, <2>1, <2>2, SkipComplete
<1>6. QED
  BY <1>4, <1>5

LEMMA MarkerComplete ==
  ASSUME CompleteInv, ValueInv', t_cpp_line_marker
  PROVE  CompleteInv'
<1>1. /\ StateInv /\ TypeInv /\ lexpos \in Nat /\ Len(input) \in Nat /\ lexpos <= Len(input)
      /\ lexstate = "INITIAL" /\ outcome = "running" /\ next = "marker"
      /\ InState("INITIAL") /\ DOMAIN input = 1..Len(input)
  BY InputType DEF CompleteInv, ValueInv, StateInv, TypeInv, t_cpp_line_marker, InState
<1>2. PICK k \in Nat :
        /\ FlagPairs(k) /\ 1 + 2 * k <= Len(input) - lexpos
        /\ Consume(1 + 2 * k)
        /\ UNCHANGED <<lexstate, string, last_newline_pos, tokens>>
  BY <1>1, MarkerReads
<1>3. PICK l \in Nat : l = 1 + 2 * k
  BY <1>2
<1>4. /\ lexpos' = lexpos + l /\ input' = input /\ outcome' = outcome
      /\ lexstate' # "string" /\ tokens' = tokens
  BY <1>1, <1>2, <1>3 DEF Consume
<1>5. CASE k = 0
  <2>1. lexpos + 1 \notin Tokens
    <3>1. Mode(input)[lexpos] \notin Literals
      BY <1>1 DEF StateInv, ModeInv, Reads, Literals
    <3>2. QED
      BY <1>1, <3>1, AreTokens
  <2>2. \A p \in lexpos + 1..lexpos + l : p \notin Tokens
    BY <1>1, <1>3, <1>5, <2>1
  <2>3. QED
    BY <1>1, <1>4, <2>2, SkipComplete
<1>6. CASE k > 0
  <2>1. 1 \in 1..k /\ lexpos + 2 * 1 = lexpos + 2 /\ lexpos + 2 * 1 + 1 = lexpos + 3
    BY <1>1, <1>6
  <2>2. Symbol(lexpos + 2) = "nl" /\ Symbol(lexpos + 3) = "1"
    BY <1>2, <2>1 DEF FlagPairs
  <2>3. PICK m : m = lexpos + 1 /\ m + 1 = lexpos + 2 /\ m + 2 = lexpos + 3
    BY <1>1
  <2>4. m \in 1..lexpos + l
    BY <1>1, <1>3, <1>6, <2>3
  <2>5. m + 1 \in DOMAIN input /\ m + 2 \in DOMAIN input
    BY <1>1, <1>2, <1>6, <2>3
  <2>6. input[m] = "marker"
    BY <1>1, <2>3, ReadsFirst
  <2>7. Swallowed(input, lexpos + l)
    BY <2>2, <2>3, <2>4, <2>5, <2>6 DEF Swallowed, Symbol
  <2>8. QED
    BY <1>1, <1>4, <2>7, SkipComplete
<1>7. QED
  BY <1>2, <1>5, <1>6

(* Line ends leave a mode that they do not change as it is.                *)
LEMMA NewlineRun ==
  ASSUME TypeInv, next = "nl"
  PROVE  \E k \in Nat :
           /\ k = RunOf({"nl"}) /\ k \in 1..Len(input) - lexpos
           /\ \A p \in lexpos + 1..lexpos + k : input[p] = "nl"
           /\ \A M : /\ Mode(input)[lexpos] \in M
                     /\ \A m \in M : After(m, "nl") \in M
                     => \A p \in lexpos..lexpos + k : Mode(input)[p] \in M
<1> DEFINE S == {"nl"}
<1>1. lexpos \in Nat /\ Len(input) \in Nat /\ next \in S /\ lexpos <= Len(input)
      /\ input \in Seq(Symbols)
  BY InputType DEF TypeInv
<1>2. PICK k \in Nat : /\ k = RunOf(S) /\ k \in 1..Len(input) - lexpos
                       /\ \A i \in 1..k : input[lexpos + i] = "nl"
  <2>1. /\ RunOf(S) \in 0..Len(input) - lexpos /\ RunOf(S) > 0
        /\ \A i \in 1..RunOf(S) : input[lexpos + i] = "nl"
    BY <1>1, RunLength
  <2>2. RunOf(S) \in Nat /\ RunOf(S) \in 1..Len(input) - lexpos
    BY <1>1, <2>1
  <2>3. QED
    BY <2>1, <2>2
<1>3. \A p \in lexpos + 1..lexpos + k : input[p] = "nl"
  <2>1. TAKE p \in lexpos + 1..lexpos + k
  <2>2. p - lexpos \in 1..k /\ lexpos + (p - lexpos) = p
    BY <1>1
  <2>3. QED
    BY <1>2, <2>2
<1>4. ASSUME NEW M, Mode(input)[lexpos] \in M, \A m \in M : After(m, "nl") \in M
      PROVE  \A p \in lexpos..lexpos + k : Mode(input)[p] \in M
  <2>1. lexpos \in 0..Len(input) /\ lexpos + k \in lexpos..Len(input)
    BY <1>1, <1>2
  <2>2. \A p \in lexpos + 1..lexpos + k : input[p] \in S
    BY <1>3
  <2>3. \A m \in M, sym \in S : After(m, sym) \in M
    BY <1>4
  <2> HIDE DEF S
  <2>4. QED
    BY <1>1, <1>4, <2>1, <2>2, <2>3, ModeRun
<1>5. QED
  BY <1>2, <1>3, <1>4

LEMMA NewlineComplete ==
  ASSUME CompleteInv, ValueInv', t_ANY_newline
  PROVE  CompleteInv'
<1>1. /\ StateInv /\ TypeInv /\ OrderInv /\ CoverInv /\ lexpos \in Nat /\ Len(input) \in Nat
      /\ lexpos <= Len(input) /\ next = "nl" /\ outcome = "running"
      /\ lexstate \in {"INITIAL", "string", "comment"}
  BY InputType DEF CompleteInv, ValueInv, StateInv, TypeInv, t_ANY_newline
<1>2. PICK k \in Nat :
        /\ k = RunOf({"nl"}) /\ k \in 1..Len(input) - lexpos
        /\ \A p \in lexpos + 1..lexpos + k : input[p] = "nl"
        /\ \A M : /\ Mode(input)[lexpos] \in M
                  /\ \A m \in M : After(m, "nl") \in M
                  => \A p \in lexpos..lexpos + k : Mode(input)[p] \in M
  BY <1>1, NewlineRun
<1>3. /\ input' = input /\ lexpos' = lexpos + k /\ tokens' = tokens /\ lexstate' = lexstate
      /\ outcome' = outcome /\ UNCHANGED string
  BY <1>2 DEF t_ANY_newline, Consume
<1>4. ASSUME NEW M, Mode(input)[lexpos] \in M, \A m \in M : After(m, "nl") \in M,
             M \cap Literals = {}, lexstate # "string"
      PROVE  CompleteInv'
  <2>1. \A p \in lexpos..lexpos + k : Mode(input)[p] \in M
    BY <1>2, <1>4
  <2>2. ASSUME NEW p \in lexpos + 1..lexpos + k PROVE p \notin Tokens
    <3>1. p \in 1..Len(input) /\ p - 1 \in lexpos..lexpos + k
      BY <1>1, <1>2
    <3>2. PICK before : before = Mode(input)[p - 1]
      OBVIOUS
    <3>3. before \notin Literals
      BY <1>4, <2>1, <3>1, <3>2
    <3>4. input[p] = "nl"
      BY <1>2
    <3>5. QED
      BY <1>1, <3>1, <3>2, <3>3, <3>4, IsToken
  <2>3. QED
    BY <1>1, <1>3, <1>4, <2>2, SkipComplete
<1>5. CASE lexstate = "INITIAL"
  <2> DEFINE M == {"code", "slash", "line"}
  <2>1. Mode(input)[lexpos] \in M
    BY <1>1, <1>5 DEF StateInv, ModeInv, Reads
  <2>2. (\A m \in M : After(m, "nl") \in M) /\ M \cap Literals = {}
    BY DEF After, Literals
  <2> HIDE DEF M
  <2>3. QED
    BY <1>4, <1>5, <2>1, <2>2
<1>6. CASE lexstate = "comment"
  <2> DEFINE M == {"comment", "star"}
  <2>1. Mode(input)[lexpos] \in M
    BY <1>1, <1>6 DEF StateInv, ModeInv, Reads
  <2>2. (\A m \in M : After(m, "nl") \in M) /\ M \cap Literals = {}
    BY DEF After, Literals
  <2> HIDE DEF M
  <2>3. QED
    BY <1>4, <1>6, <2>1, <2>2
<1>7. CASE lexstate = "string"
  <2>1. OpenLiteral /\ OpenValue
    BY <1>7 DEF CompleteInv, ValueInv
  <2>2. PICK s \in 1..lexpos : s = string_start
    BY <2>1 DEF OpenValue
  <2>3. UNCHANGED <<string_start, string_buf, string_escape, in_charconst>>
    BY <1>3 DEF string
  <2>4. \A p \in lexpos..lexpos + k : Mode(input)[p] \in Literals
    <3>1. Mode(input)[lexpos] \in Literals
      BY <1>1, <1>7 DEF StateInv, ModeInv, Reads, LiteralMode, Literals
    <3>2. \A m \in Literals : After(m, "nl") \in Literals
      BY DEF After, Literals
    <3>3. QED
      BY <1>2, <3>1, <3>2
  <2>5. \A p \in s..lexpos + k : Mode(input)[p] \in Literals
    <3>1. \A p \in s..lexpos + k : p \in s..lexpos \/ p \in lexpos..lexpos + k
      BY <1>1, <2>2
    <3>2. QED
      BY <2>1, <2>2, <2>4, <3>1 DEF OpenLiteral
  <2>6. (\E p \in s + 1..lexpos : input[p] = "bs") => \E p \in s + 1..lexpos + k : input[p] = "bs"
    <3>1. \A p \in s + 1..lexpos : p \in s + 1..lexpos + k
      BY <1>1, <2>2
    <3>2. QED
      BY <3>1
  <2>7. OpenLiteral'
    BY <1>3, <2>1, <2>2, <2>3, <2>5, <2>6 DEF OpenLiteral
  <2>8. OrderInv' /\ CoverInv'
    <3>1. PICK a \in Nat : a = s - 1
      BY <2>2
    <3>2. Settled = a /\ Settled' = a
      BY <1>3, <1>7, <2>2, <2>3, <3>1 DEF Settled
    <3>3. \A p \in a + 1..a : p \notin Tokens
      BY <3>1
    <3>4. QED
      BY <1>1, <1>3, <3>2, <3>3, AddsNoToken
  <2>9. QED
    BY <1>1, <1>3, <2>7, <2>8, GoesOn
<1>8. QED
  BY <1>1, <1>5, <1>6, <1>7

LEMMA BeginComplete ==
  ASSUME CompleteInv, ValueInv', InState("INITIAL"), NEW char \in BOOLEAN,
         next = (IF char THEN "sq" ELSE "dq"), Begin(char)
  PROVE  CompleteInv'
<1>1. /\ StateInv /\ TypeInv /\ OrderInv /\ CoverInv /\ lexpos \in Nat
      /\ lexstate = "INITIAL" /\ outcome = "running" /\ next \notin {"nl", "eof"}
  BY InputType DEF CompleteInv, ValueInv, StateInv, TypeInv, InState
<1>2. /\ input' = input /\ lexpos' = lexpos + 1 /\ string_start' = lexpos + 1
      /\ string_buf' = <<>> /\ string_escape' = FALSE /\ tokens' = tokens
      /\ lexstate' = "string" /\ outcome' = outcome
  BY DEF Begin, Consume
<1>3. Mode(input)[lexpos] \in {"code", "slash"}
  BY <1>1, InitialMode
<1>4. Mode(input)[lexpos + 1] \in Literals
  BY <1>1, <1>3, ReadsFirst DEF After, Literals
<1>5. OpenLiteral'
  <2>1. lexpos + 1 - 1 = lexpos /\ \A p \in lexpos + 1..lexpos + 1 : p = lexpos + 1
    BY <1>1
  <2>2. Mode(input')[string_start' - 1] \in {"code", "slash"}
    <3>1. string_start' - 1 = lexpos
      BY <1>1, <1>2, <2>1
    <3>2. QED
      BY <1>2, <1>3, <3>1
  <2>3. \A p \in string_start'..lexpos' : Mode(input')[p] \in Literals
    BY <1>2, <1>4, <2>1
  <2>4. ~ Len(string_buf') > 1
    BY <1>2
  <2>5. QED
    BY <1>2, <2>2, <2>3, <2>4 DEF OpenLiteral
<1>6. OrderInv' /\ CoverInv'
  <2>1. Settled = lexpos /\ Settled' = lexpos
    BY <1>1, <1>2 DEF Settled
  <2>2. \A p \in lexpos + 1..lexpos : p \notin Tokens
    BY <1>1
  <2>3. QED
    BY <1>1, <1>2, <2>1, <2>2, AddsNoToken
<1>7. QED
  BY <1>1, <1>2, <1>5, <1>6, GoesOn

(* The constant goes on.                                                   *)
LEMMA LiteralGoesOn ==
  ASSUME CompleteInv, ValueInv', InString, Consume(1),
         UNCHANGED <<lexstate, string_start, in_charconst, tokens>>,
         string_escape' => next = "bs",
         After(LiteralMode(in_charconst, string_escape), next) \in Literals,
         in_charconst /\ Len(string_buf') > 1 =>
           \E p \in string_start + 1..lexpos : input[p] = "bs"
  PROVE  CompleteInv'
<1>1. /\ StateInv /\ TypeInv /\ OrderInv /\ CoverInv /\ lexpos \in Nat /\ outcome = "running"
      /\ lexstate = "string" /\ OpenLiteral /\ OpenValue /\ next # "eof"
      /\ Mode(input)[lexpos + 1] \in Literals
  BY InStringMode DEF CompleteInv, ValueInv
<1>2. /\ input' = input /\ lexpos' = lexpos + 1 /\ outcome' = outcome /\ lexstate' = "string"
      /\ string_start' = string_start /\ in_charconst' = in_charconst /\ tokens' = tokens
  BY <1>1 DEF Consume
<1>3. PICK s \in 1..lexpos : s = string_start
  BY <1>1 DEF OpenValue
<1>4. \A p \in s..lexpos + 1 : Mode(input)[p] \in Literals
  <2>1. \A p \in s..lexpos + 1 : p \in s..lexpos \/ p = lexpos + 1
    BY <1>1, <1>3
  <2>2. QED
    BY <1>1, <1>3, <2>1 DEF OpenLiteral
<1>5. string_escape' => \E p \in s + 1..lexpos + 1 : input[p] = "bs"
  <2>1. lexpos + 1 \in s + 1..lexpos + 1 /\ input[lexpos + 1] = next
    BY <1>1, <1>3, ReadsFirst
  <2>2. QED
    BY <2>1
<1>6. (\E p \in s + 1..lexpos : input[p] = "bs") => \E p \in s + 1..lexpos + 1 : input[p] = "bs"
  <2>1. \A p \in s + 1..lexpos : p \in s + 1..lexpos + 1
    BY <1>1, <1>3
  <2>2. QED
    BY <2>1
<1>7. OpenLiteral'
  BY <1>1, <1>2, <1>3, <1>4, <1>5, <1>6 DEF OpenLiteral
<1>8. OrderInv' /\ CoverInv'
  <2>1. PICK a \in Nat : a = s - 1
    BY <1>3
  <2>2. Settled = a /\ Settled' = a
    BY <1>1, <1>2, <1>3, <2>1 DEF Settled
  <2>3. \A p \in a + 1..a : p \notin Tokens
    BY <2>1
  <2>4. QED
    BY <1>1, <1>2, <2>2, <2>3, AddsNoToken
<1>9. QED
  BY <1>1, <1>2, <1>7, <1>8, GoesOn

(* The lexer stops.                                                        *)
LEMMA Stops ==
  ASSUME CompleteInv, ValueInv', UNCHANGED <<input, lexpos, lexstate, string, lines, tokens>>,
         StopInv'
  PROVE  CompleteInv'
<1>1. UNCHANGED <<string_start, string_buf, string_escape, in_charconst>>
  BY DEF string
<1>2. Settled' = Settled /\ Tokens' = Tokens
  BY <1>1, SameTokens DEF Settled
<1>3. OrderInv' /\ CoverInv'
  BY <1>2 DEF CompleteInv, OrderInv, CoverInv
<1>4. lexstate' = "string" => OpenLiteral'
  BY <1>1 DEF CompleteInv, OpenLiteral
<1>5. QED
  BY <1>3, <1>4 DEF CompleteInv

LEMMA IdleComplete ==
  ASSUME CompleteInv, ValueInv', UNCHANGED vars
  PROVE  CompleteInv'
<1>1. UNCHANGED <<string_start, string_buf, string_escape, in_charconst>> /\ next' = next
  BY DEF vars, string, next, Symbol
<1>2. StopInv'
  BY <1>1 DEF CompleteInv, StopInv, vars
<1>3. QED
  BY <1>2, Stops DEF vars

LEMMA ErrorComplete ==
  ASSUME CompleteInv, ValueInv', t_error
  PROVE  CompleteInv'
<1>1. UNCHANGED <<input, lexpos, lexstate, string, lines, tokens>> /\ outcome' = "error"
      /\ lexstate = "INITIAL" /\ next = "bs"
  BY DEF t_error, token_error, InState
<1>2. next' = next
  BY <1>1 DEF next, Symbol
<1>3. StopInv'
  BY <1>1, <1>2 DEF StopInv
<1>4. QED
  BY <1>1, <1>3, Stops

LEMMA EndComplete ==
  ASSUME CompleteInv, ValueInv', End
  PROVE  CompleteInv'
<1>1. UNCHANGED <<input, lexpos, lexstate, string, lines, tokens>> /\ outcome' = "end"
      /\ next = "eof"
  BY DEF End
<1>2. next' = next
  BY <1>1 DEF next, Symbol
<1>3. StopInv'
  BY <1>1, <1>2 DEF StopInv
<1>4. QED
  BY <1>1, <1>3, Stops

LEMMA EscapedCharComplete ==
  ASSUME CompleteInv, ValueInv', EscapedChar
  PROVE  CompleteInv'
<1>1. InString /\ string_escape
  BY DEF EscapedChar
<1>2. OpenLiteral /\ lexstate = "string" /\ next \in Symbols /\ next # "nl"
  BY <1>1, InStringMode DEF CompleteInv, ValueInv
<1>3. CASE next = "1"
  <2>1. UNCHANGED <<input, lexpos, lexstate, string, lines, tokens>> /\ outcome' = "crash"
    BY <1>3 DEF EscapedChar
  <2>2. next' = next /\ string_escape' = string_escape
    BY <2>1 DEF next, Symbol, string
  <2>3. StopInv'
    BY <1>1, <1>2, <1>3, <2>1, <2>2 DEF StopInv
  <2>4. QED
    BY <2>1, <2>3, Stops
<1>4. CASE next # "1"
  <2>1. /\ string_escape' = FALSE /\ Consume(1)
        /\ UNCHANGED <<lexstate, string_start, in_charconst, tokens>>
    BY <1>4 DEF EscapedChar
  <2>2. After(LiteralMode(in_charconst, string_escape), next) \in Literals
    BY <1>1, <1>2 DEF LiteralMode, After, Literals
  <2>3. \E p \in string_start + 1..lexpos : input[p] = "bs"
    BY <1>1, <1>2 DEF OpenLiteral
  <2>4. QED
    BY <1>1, <2>1, <2>2, <2>3, LiteralGoesOn
<1>5. QED
  BY <1>3, <1>4

LEMMA BeginEscapeComplete ==
  ASSUME CompleteInv, ValueInv', BeginEscape
  PROVE  CompleteInv'
<1>1. InString /\ ~ string_escape /\ next = "bs" /\ Consume(1)
      /\ UNCHANGED <<lexstate, string_start, in_charconst, tokens>>
      /\ string_buf' = string_buf
  BY DEF BeginEscape
<1>2. OpenLiteral
  BY <1>1, InStringMode DEF CompleteInv, ValueInv
<1>3. After(LiteralMode(in_charconst, string_escape), next) \in Literals
  BY <1>1 DEF LiteralMode, After, Literals
<1>4. in_charconst /\ Len(string_buf') > 1 =>
        \E p \in string_start + 1..lexpos : input[p] = "bs"
  BY <1>1, <1>2 DEF OpenLiteral
<1>5. QED
  BY <1>1, <1>3, <1>4, LiteralGoesOn

LEMMA PlainCharComplete ==
  ASSUME CompleteInv, ValueInv', PlainChar
  PROVE  CompleteInv'
<1>1. InString /\ ~ string_escape /\ next \notin {"bs", Quote}
  BY DEF PlainChar, Plain
<1>2. /\ OpenLiteral /\ OpenValue /\ lexstate = "string" /\ next \in Symbols /\ next # "nl"
  BY <1>1, InStringMode DEF CompleteInv, ValueInv
<1>3. string_buf \in Seq(Values)
  BY <1>2 DEF OpenValue
<1>4. CASE in_charconst /\ string_buf # <<>>
  <2>1. UNCHANGED <<input, lexpos, lexstate, string, lines, tokens>>
        /\ outcome' = IF next = "%" THEN "crash" ELSE "error"
    BY <1>4 DEF PlainChar, token_error
  <2>2. next' = next /\ UNCHANGED <<string_start, string_buf, string_escape, in_charconst>>
    BY <2>1 DEF next, Symbol, string
  <2>3. next # "sq" /\ next # "bs"
    BY <1>1, <1>4 DEF Quote
  <2>4. Len(string_buf) > 1 => \E p \in string_start + 1..lexpos : input[p] = "bs"
    BY <1>2, <1>4 DEF OpenLiteral
  <2>5. outcome' # "end" /\ (outcome' = "crash" <=> next \in {"sq", "%"})
    BY <2>1, <2>3
  <2>6. StopInv'
    BY <1>1, <1>2, <1>4, <2>1, <2>2, <2>3, <2>4, <2>5 DEF StopInv
  <2>7. QED
    BY <2>1, <2>6, Stops
<1>5. CASE ~ (in_charconst /\ string_buf # <<>>)
  <2>1. /\ string_buf' = Append(string_buf, next) /\ Consume(1)
        /\ UNCHANGED <<lexstate, string_start, string_escape, in_charconst, tokens>>
    BY <1>5 DEF PlainChar
  <2>2. After(LiteralMode(in_charconst, string_escape), next) \in Literals
    BY <1>1, <1>2 DEF LiteralMode, After, Literals, Quote
  <2>3. in_charconst => ~ Len(string_buf') > 1
    BY <1>3, <1>5, <2>1
  <2>4. QED
    BY <1>1, <2>1, <2>2, <2>3, LiteralGoesOn
<1>6. QED
  BY <1>4, <1>5

LEMMA EndOfStringComplete ==
  ASSUME CompleteInv, ValueInv', EndOfString
  PROVE  CompleteInv'
<1>1. InString /\ ~ string_escape /\ next = Quote
  BY DEF EndOfString
<1>2. /\ StateInv /\ TypeInv /\ OrderInv /\ CoverInv /\ lexpos \in Nat /\ Len(input) \in Nat
      /\ 1 <= Len(input) - lexpos /\ OpenLiteral /\ OpenValue /\ outcome = "running"
      /\ lexstate = "string" /\ next # "eof"
  BY <1>1, InStringMode DEF CompleteInv, ValueInv
<1>3. string_buf \in Seq(Values)
  BY <1>2 DEF OpenValue
<1>4. CASE in_charconst /\ Len(string_buf) # 1
  <2>1. UNCHANGED <<input, lexpos, lexstate, string, lines, tokens>> /\ outcome' = "crash"
    BY <1>4 DEF EndOfString
  <2>2. next' = next /\ UNCHANGED <<string_start, string_buf, string_escape, in_charconst>>
    BY <2>1 DEF next, Symbol, string
  <2>3. next = "sq"
    BY <1>1, <1>4 DEF Quote
  <2>4. Len(string_buf) > 1 => \E p \in string_start + 1..lexpos : input[p] = "bs"
    BY <1>2, <1>4 DEF OpenLiteral
  <2>5. string_buf = <<>> <=> Len(string_buf) < 2
    BY <1>3, <1>4
  <2>6. StopInv'
    BY <1>1, <1>2, <1>4, <2>1, <2>2, <2>3, <2>4, <2>5 DEF StopInv
  <2>7. QED
    BY <2>1, <2>6, Stops
<1>5. CASE ~ (in_charconst /\ Len(string_buf) # 1)
  <2> DEFINE type == IF in_charconst THEN "CHARCONST" ELSE "STRINGCONST"
             token == Token(type, string_start, string_buf, lexpos + 1)
  <2>1. /\ lexstate' = "INITIAL" /\ tokens' = Append(tokens, token)
        /\ input' = input /\ lexpos' = lexpos + 1 /\ outcome' = "running"
    BY <1>2, <1>5 DEF EndOfString, Consume
  <2>2. token.type = type /\ token.lexpos = string_start /\ token.end = lexpos + 1
    BY DEF Token
  <2> HIDE DEF token
  <2>3. PICK s \in 1..lexpos : s = string_start
    BY <1>2 DEF OpenValue
  <2>4. PICK a \in Nat : a = s - 1 /\ a + 1 = s
    BY <2>3
  <2>5. PICK b \in Nat : b = lexpos + 1 /\ a < b
    BY <1>2, <2>3, <2>4
  <2>6. From(token) = a + 1
    BY <2>2, <2>3, <2>4 DEF From, Constant
  <2>7. Settled = a /\ Settled' = b
    BY <1>2, <2>1, <2>3, <2>4, <2>5 DEF Settled
  <2>8. \A p \in a + 1..b : p \in Tokens
    <3>1. TAKE p \in a + 1..b
    <3>2. p \in 1..Len(input)
      BY <1>2, <2>3, <2>4, <2>5
    <3>3. PICK before : before = Mode(input)[p - 1]
      OBVIOUS
    <3>4. CASE p = s
      <4>1. before \in {"code", "slash"}
        BY <1>2, <2>3, <3>3, <3>4 DEF OpenLiteral
      <4>2. input[p] \in {"sq", "dq"}
        BY <1>2, <2>3, <3>4 DEF OpenValue, Quote
      <4>3. Mode(input)[p] # "slash"
        <5>1. s \in s..lexpos
          BY <1>2, <2>3
        <5>2. Mode(input)[s] \in Literals
          BY <1>2, <2>3, <5>1 DEF OpenLiteral
        <5>3. QED
          BY <3>4, <5>2 DEF Literals
      <4>4. QED
        BY <1>2, <3>2, <3>3, <4>1, <4>2, <4>3, IsToken
    <3>5. CASE p # s
      <4>1. p - 1 \in s..lexpos
        BY <1>2, <2>3, <2>4, <2>5, <3>5
      <4>2. before \in Literals
        BY <1>2, <2>3, <3>3, <4>1 DEF OpenLiteral
      <4>3. QED
        BY <1>2, <3>2, <3>3, <4>2, IsToken
    <3>6. QED
      BY <3>4, <3>5
  <2>9. OrderInv' /\ CoverInv'
    BY <1>2, <2>1, <2>2, <2>5, <2>6, <2>7, <2>8, AddsToken
  <2>10. TokenEdges(input, token)
    BY <2>2 DEF TokenEdges
  <2>11. QED
    BY <1>2, <2>1, <2>9, <2>10, GoesOn
<1>6. QED
  BY <1>4, <1>5

LEMMA CompleteInvariant == Spec => []CompleteInv
<1>1. Init /\ ValueInv => CompleteInv
  <2> SUFFICES ASSUME Init, ValueInv PROVE CompleteInv
    OBVIOUS
  <2>1. Settled = 0 /\ DOMAIN tokens = {} /\ outcome = "running" /\ lexstate # "string"
    BY DEF Init, Settled
  <2>2. OrderInv /\ CoverInv
    BY <2>1 DEF OrderInv, CoverInv
  <2>3. StopInv
    BY <2>1 DEF StopInv
  <2>4. QED
    BY <2>1, <2>2, <2>3 DEF CompleteInv
<1>2. ASSUME CompleteInv, ValueInv', [Next]_vars PROVE CompleteInv'
  <2>1. CASE t_ID
    <3>1. "ID" \in PlainTypes /\ {"n", "1"} \subseteq {"n", "1"} /\ "n" \in {"n", "1"}
      BY DEF PlainTypes, TokenTypes
    <3>2. PICK S : S = {"n", "1"}
      OBVIOUS
    <3>3. InState("INITIAL") /\ next = "n" /\ Emit("ID", RunOf(S)) /\ next \in S
      BY <2>1, <3>2 DEF t_ID
    <3>4. QED
      BY <1>2, <3>1, <3>2, <3>3, WordComplete
  <2>2. CASE t_number
    <3>1. "INTCONST" \in PlainTypes
      BY DEF PlainTypes, TokenTypes
    <3>2. PICK S : S = {"1"} /\ S \subseteq {"n", "1"}
      OBVIOUS
    <3>3. InState("INITIAL") /\ Emit("INTCONST", RunOf(S)) /\ next \in S
      BY <2>2, <3>2 DEF t_number
    <3>4. QED
      BY <1>2, <3>1, <3>2, <3>3, WordComplete
  <2>3. CASE t_string
    BY <1>2, <2>3, BeginComplete DEF t_string
  <2>4. CASE t_char
    BY <1>2, <2>4, BeginComplete DEF t_char
  <2>5. CASE t_comment
    BY <1>2, <2>5, CommentComplete
  <2>6. CASE Operators
    BY <1>2, <2>6, OperatorsComplete
  <2>7. CASE t_cpp_line_marker
    BY <1>2, <2>7, MarkerComplete
  <2>8. CASE t_error
    BY <1>2, <2>8, ErrorComplete
  <2>9. CASE t_ANY_newline
    BY <1>2, <2>9, NewlineComplete
  <2>10. CASE t_comment_end
    BY <1>2, <2>10, CommentEndComplete
  <2>11. CASE t_string_char
    BY <1>2, <2>11, EscapedCharComplete, BeginEscapeComplete, EndOfStringComplete,
       PlainCharComplete DEF t_string_char
  <2>12. CASE End
    BY <1>2, <2>12, EndComplete
  <2>13. CASE UNCHANGED vars
    BY <1>2, <2>13, IdleComplete
  <2>14. QED
    BY <1>2, <2>1, <2>2, <2>3, <2>4, <2>5, <2>6, <2>7, <2>8, <2>9, <2>10, <2>11, <2>12,
       <2>13 DEF Next
<1>3. QED
  BY <1>1, <1>2, ValueInvariant, PTL DEF Spec

(* Every symbol of the program is part of one token, the tokens are as     *)
(* long as they can be, and the lexer stops early only for the reasons     *)
(* that NothingLost names.                                                 *)
THEOREM NothingIsLost == Spec => []NothingLost
<1>1. CompleteInv => NothingLost
  <2> SUFFICES ASSUME CompleteInv PROVE NothingLost
    OBVIOUS
  <2>1. /\ TypeInv /\ OrderInv /\ CoverInv /\ lexpos \in Nat /\ Len(input) \in Nat
        /\ lexpos <= Len(input) /\ DOMAIN input = 1..Len(input)
    BY InputType DEF CompleteInv, ValueInv, StateInv, TypeInv
  <2>2. DOMAIN tokens = 1..Len(tokens) /\ Len(tokens) \in Nat
    BY <2>1 DEF TypeInv
  <2>3. ASSUME outcome = "end", lexstate # "string", ~ SwallowedLine(Len(input)),
               NEW p \in DOMAIN input
        PROVE  Cardinality({i \in DOMAIN tokens : p \in Span(tokens[i])})
                 = IF p \in Tokens THEN 1 ELSE 0
    <3>1. lexpos = Len(input)
      <4>1. next = "eof"
        BY <2>3 DEF CompleteInv, StopInv
      <4>2. ~ lexpos + 1 \in 1..Len(input)
        <5>1. lexpos + 1 \in 1..Len(input) => input[lexpos + 1] \in Symbols
          BY InputType, <2>1 DEF TypeInv
        <5>2. QED
          BY <2>1, <4>1, <5>1, SymbolType DEF next, Symbol
      <4>3. \A m, n \in Nat : m <= n /\ ~ m + 1 \in 1..n => m = n
        OBVIOUS
      <4>4. QED
        BY <2>1, <4>2, <4>3
    <3>2. Settled = Len(input) /\ ~ Swallowed(input, Len(input))
      BY <2>3, <3>1, SameLines DEF Settled
    <3>3. (\E i \in DOMAIN tokens : p \in Span(tokens[i])) <=> p \in Tokens
      BY <2>1, <3>2 DEF CoverInv
    <3>4. CASE p \notin Tokens
      <4>1. {i \in DOMAIN tokens : p \in Span(tokens[i])} = {}
        BY <3>3, <3>4
      <4>2. QED
        BY <3>4, <4>1, FS_EmptySet
    <3>5. CASE p \in Tokens
      <4>1. PICK i \in DOMAIN tokens : p \in Span(tokens[i])
        BY <3>3, <3>5
      <4>2. ASSUME NEW j \in DOMAIN tokens, p \in Span(tokens[j]) PROVE j = i
        <5>1. ASSUME NEW x \in DOMAIN tokens, NEW y \in DOMAIN tokens, x < y,
                     p \in Span(tokens[x])
              PROVE  p \notin Span(tokens[y])
          <6>1. tokens[x].end < From(tokens[y]) /\ tokens[x].end \in Nat
            BY <2>1, <5>1, EndsType DEF OrderInv
          <6>2. From(tokens[y]) \in 1..tokens[y].end /\ tokens[y].end \in Nat
            BY <2>1, EndsType DEF OrderInv
          <6>3. p <= tokens[x].end
            BY <5>1 DEF Span
          <6>4. Span(tokens[y]) = From(tokens[y])..tokens[y].end
            BY DEF Span, From
          <6>5. p \in Nat
            BY <2>1
          <6>6. QED
            BY <6>1, <6>2, <6>3, <6>4, <6>5
        <5>2. i \in Nat /\ j \in Nat
          BY <2>2
        <5>3. i < j \/ j < i \/ i = j
          BY <5>2
        <5>4. QED
          BY <4>1, <4>2, <5>1, <5>3
      <4>3. {j \in DOMAIN tokens : p \in Span(tokens[j])} = {i}
        BY <4>1, <4>2
      <4>4. QED
        BY <3>5, <4>3, FS_Singleton
    <3>6. QED
      BY <3>4, <3>5
  <2>4. ASSUME NEW i \in 1..Len(tokens) - 1, Span(tokens[i + 1]) \cap {tokens[i].end + 1} # {}
        PROVE  <<tokens[i].type, tokens[i + 1].type>> \notin Joined
    <3>1. PICK t : t = tokens[i]
      OBVIOUS
    <3>2. PICK u : u = tokens[i + 1]
      OBVIOUS
    <3>3. i \in DOMAIN tokens /\ i + 1 \in DOMAIN tokens /\ i < i + 1
      BY <2>2
    <3>4. TokenEdges(input, t) /\ TokenEdges(input, u)
      BY <3>1, <3>2, <3>3 DEF CompleteInv
    <3>5. t.end \in Nat /\ u.end \in Nat /\ t.end < From(u) /\ From(u) \in 1..u.end
      BY <2>1, <3>1, <3>2, <3>3, EndsType DEF OrderInv
    <3>6. t.end + 1 \in From(u)..u.end
      BY <2>4, <3>1, <3>2 DEF Span, From
    <3>7. From(u) = t.end + 1
      BY <3>5, <3>6
    <3>8. ~ Constant(u) => u.lexpos + 1 = t.end + 1
      BY <3>7 DEF From
    <3>9. CASE u.type \in {"ID", "INTCONST", "=", "EQ"}
      <4>1. PICK p : p = t.end + 1 /\ p = u.lexpos + 1
        BY <3>8, <3>9 DEF Constant
      <4>2. /\ u.type = "ID" => Has(input, p, {"n"})
            /\ u.type = "INTCONST" => Has(input, p, {"1"})
            /\ u.type \in {"=", "EQ"} => Has(input, p, {"="})
        BY <3>4, <4>1 DEF TokenEdges
      <4>3. /\ t.type = "ID" => ~ Has(input, p, {"n", "1"})
            /\ t.type = "INTCONST" => ~ Has(input, p, {"1"})
            /\ t.type \in {"/", "*", "%", "="} => ~ Has(input, p, {"="})
        BY <3>4, <4>1 DEF TokenEdges
      <4>4. ~ (t.type = "ID" /\ u.type \in {"ID", "INTCONST"})
        BY <4>2, <4>3 DEF Has
      <4>5. ~ (t.type = "INTCONST" /\ u.type = "INTCONST")
        BY <4>2, <4>3
      <4>6. ~ (t.type \in {"/", "*", "%", "="} /\ u.type \in {"=", "EQ"})
        BY <4>2, <4>3
      <4>7. QED
        BY <3>1, <3>2, <4>4, <4>5, <4>6 DEF Joined
    <3>10. CASE u.type \notin {"ID", "INTCONST", "=", "EQ"}
      BY <3>1, <3>2, <3>10 DEF Joined
    <3>11. QED
      BY <3>9, <3>10
  <2>5. outcome \in {"error", "crash"} =>
          IF lexstate = "INITIAL" THEN next = "bs"
          ELSE IF string_escape THEN outcome = "crash" /\ next = "1"
          ELSE /\ in_charconst /\ next # "bs"
               /\ outcome = "crash" <=> next \in {"sq", "%"}
               /\ string_buf = <<>> <=> next = "sq" /\ Len(string_buf) < 2
               /\ Len(string_buf) > 1 =>
                    \E p \in (string_start + 1)..lexpos : input[p] = "bs"
    BY DEF CompleteInv, StopInv
  <2>6. QED
    BY <2>3, <2>4, <2>5 DEF NothingLost
<1>2. QED
  BY <1>1, CompleteInvariant, PTL
=============================================================================
