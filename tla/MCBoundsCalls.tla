--------------------------- MODULE MCBoundsCalls ---------------------------
(***************************************************************************)
(* Modules of main and two functions, which main may call twice and which  *)
(* may call each other or themselves once.                                 *)
(***************************************************************************)
EXTENDS BoundsCalls

MCOrder == <<2, 3, 1>>
MCAccessing == {{2}, {2, 3}}

\* main has argc, and may have argv; the others have few kinds of parameters
\* at a time.
OneArray == << <<"int">>, <<"ints">>, <<"ints">> >>
SecondTaken == << <<"int">>, <<"ints">>, <<"int", "int", "ints">> >>
MCSignatures ==
  {OneArray, SecondTaken, << <<"int", "ints">>, <<"ints">>, <<>> >>} \cup
  {<< <<"int">>, s[1], s[2] >> :
     s \in {<< <<>>, <<"ints">> >>, << <<"int", "ints">>, <<"ints">> >>,
            << <<"ints">>, <<"int", "ints">> >>, << <<"ints", "ints">>, <<>> >>,
            << <<"chars">>, <<>> >>}}

\* The arguments of type t in a function with parameters ps.
ArgsOf(ps, t) ==
  {Param(k) : k \in {j \in DOMAIN ps : ps[j] = t}} \cup {Other(t)}
  \cup (IF t \in Arrays THEN {Local(1, t), Local(2, t)} ELSE {})

Arguments(ps, types) ==
  CASE Len(types) = 0 -> {<<>>}
    [] Len(types) = 1 -> {<<a>> : a \in ArgsOf(ps, types[1])}
    [] Len(types) = 2 -> ArgsOf(ps, types[1]) \X ArgsOf(ps, types[2])
    [] Len(types) = 3 ->
         ArgsOf(ps, types[1]) \X ArgsOf(ps, types[2]) \X ArgsOf(ps, types[3])

CallsAt(site, signatures) ==
  UNION {[callee : {f}, args : Arguments(signatures[site[1]], signatures[f]),
          site : {site}] : f \in {2, 3}}

AtMostOne(g, signatures) == {<<>>} \cup {<<c>> : c \in CallsAt(<<g, 1>>, signatures)}

CallsOf(site, f, signatures) == {c \in CallsAt(site, signatures) : c.callee = f}

\* One function calls the other twice, or does not have its array first.
MCExceptional(signatures) ==
  LET calls(k) == CallsOf(<<3, k>>, 2, signatures) IN
  CASE signatures = OneArray ->
         AtMostOne(1, signatures) \X {<<>>} \X (calls(1) \X calls(2))
    [] signatures = SecondTaken ->
         AtMostOne(1, signatures) \X {<<>>} \X {<<c>> : c \in calls(1)}
    [] OTHER -> {}

Ordinary(signatures) ==
  (AtMostOne(1, signatures)
     \cup (CallsAt(<<1, 1>>, signatures) \X CallsAt(<<1, 2>>, signatures)))
  \X AtMostOne(2, signatures) \X AtMostOne(3, signatures)

MCBodies(signatures) ==
  MCExceptional(signatures)
    \cup (IF signatures = SecondTaken THEN {} ELSE Ordinary(signatures))

============================================================================
