------------------------------ MODULE MCParser ------------------------------
(* Programs of five kinds: expressions, statements and what is assigned to *)
(* in a function, all kinds of words, and declarations.  What only closes  *)
(* something is free.                                                      *)
EXTENDS Parser

MCKinds == {"expression", "statement", "reference", "word", "declaration"}
Header == <<"TYPE", "ID", "LPAREN", "RPAREN", "LBRACE">>
MCBeginning == [k \in MCKinds |-> IF k = "declaration" THEN <<>> ELSE Header]
Closing == {<<word>> : word \in {"RPAREN", "RBRACKET", "RBRACE", "SEMICOL", "$end"}}
Conditional(word) == <<word, "LPAREN", "ID", "RPAREN">>
MCPhrases ==
  [expression |-> {<<word>> : word \in
     {"ID", "OR", "TIMES", "MINUS", "LPAREN", "LBRACKET", "ASSIGN", "COMMA"}},
   statement |->
     {Conditional("IF"), <<"ELSE">>, Conditional("WHILE"), <<"DO">>, <<"LBRACE">>,
      <<"FOR", "LPAREN", "TYPE", "ID", "ASSIGN", "ID", "TO", "ID", "RPAREN">>,
      <<"BREAK", "SEMICOL">>, <<"ID", "MODIFY", "ID", "SEMICOL">>},
   reference |->
     {<<"LPAREN">>, <<"MINUS">>, <<"TIMES">>, <<"ID">>, <<"HUGE">>,
      <<"LBRACKET", "ID", "RBRACKET">>, <<"ASSIGN", "ID">>, <<"MODIFY", "ID">>},
   word |-> {<<word>> : word \in
     {"ID", "CONST", "TINY", "HUGE", "AND", "EQ", "LT", "PLUS", "NOT", "INV", "ASSIGN", "MODIFY",
      "XORMODIFY", "TYPE", "BRACKETS", "LBRACKET", "RETURN", "BREAK", "CONTINUE"}},
   declaration |-> {<<word>> : word \in
     {"EXTERN", "STATIC", "TYPE", "BRACKETS", "ID", "COMMA", "DOTS", "LPAREN", "LBRACE",
      "ASSIGN", "CONST"}}]
MCCost ==
  [k \in MCKinds |->
     [phrase \in MCPhrases[k] \cup Closing |->
        IF phrase \in Closing THEN 0
        ELSE IF phrase[1] \in {"WHILE", "DO", "FOR", "BREAK", "LBRACE"} /\ k = "statement" THEN 2 ELSE 1]]
MCBudget ==
  [expression |-> 6, statement |-> 6, reference |-> 6, word |-> 4, declaration |-> 7]
=============================================================================
