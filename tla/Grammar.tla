------------------------------ MODULE Grammar ------------------------------
(***************************************************************************)
(* The grammar of src/frontend/parser.py as data, and the table that ply   *)
(* makes of it.  A class of tokens that the rules treat alike is one       *)
(* terminal: OR, AND, EQ, LT, PLUS and TIMES stand for all operators of    *)
(* their level, CONST for the constants.                                   *)
(*                                                                         *)
(* ply computes LALR(1) lookaheads; here a rule is reduced on all that may *)
(* follow its head.  That is only later to notice an error, as long as no  *)
(* two rules can be reduced ("Unambiguous").                               *)
(***************************************************************************)
EXTENDS Integers, Sequences, FiniteSets, SequencesExt

(* From the weakest to the strongest.                                      *)
precedence ==
  << <<"nonassoc", {"IF"}>>, <<"nonassoc", {"ELSE"}>>, <<"nonassoc", {"DO"}>>,
     <<"nonassoc", {"WHILE"}>>, <<"nonassoc", {"FOR"}>>, <<"nonassoc", {"TO"}>>,
     <<"nonassoc", {"BREAK"}>>, <<"nonassoc", {"CONTINUE"}>>,
     <<"left", {"OR"}>>, <<"left", {"AND"}>>, <<"left", {"EQ"}>>, <<"left", {"LT"}>>,
     <<"left", {"PLUS", "MINUS"}>>, <<"left", {"TIMES"}>>,
     <<"right", {"NOT", "UMINUS", "INV"}>>, <<"left", {"LBRACKET"}>> >>

(* A rule: the function, the head, the body and what %prec says.           *)
Rule(function, head, body) ==
  [function |-> function, head |-> head, body |-> body, prec |-> "default"]
Prec(rule, prec) == [rule EXCEPT !.prec = prec]

DeclarationRules == <<
  Rule("program", "program", <<"declarations">>),
  Rule("list", "declarations", <<"declaration">>),
  Rule("list", "declarations", <<"declarations", "declaration">>),
  Rule("same", "declaration", <<"globaldec">>),
  Rule("same", "declaration", <<"globaldef">>),
  Rule("same", "declaration", <<"fundec">>),
  Rule("same", "declaration", <<"fundef">>),
  Rule("globaldec", "globaldec", <<"EXTERN", "type", "ID", "SEMICOL">>),
  Rule("globaldef", "globaldef", <<"STATIC", "type", "ID", "ASSIGN", "expr", "SEMICOL">>),
  Rule("globaldef", "globaldef", <<"type", "ID", "ASSIGN", "expr", "SEMICOL">>),
  Rule("fundec", "fundec", <<"EXTERN", "funheader", "SEMICOL">>),
  Rule("fundec", "fundec", <<"EXTERN", "funheader_varargs", "SEMICOL">>),
  Rule("fundef", "fundef", <<"funheader", "LBRACE", "RBRACE">>),
  Rule("fundef", "fundef", <<"funheader", "LBRACE", "statements", "RBRACE">>),
  Rule("fundef_static", "fundef", <<"STATIC", "funheader", "LBRACE", "RBRACE">>),
  Rule("fundef_static", "fundef",
       <<"STATIC", "funheader", "LBRACE", "statements", "RBRACE">>),
  Rule("funheader", "funheader", <<"type", "ID", "LPAREN", "RPAREN">>),
  Rule("funheader", "funheader", <<"type", "ID", "LPAREN", "params", "RPAREN">>),
  Rule("funheader_varargs", "funheader_varargs",
       <<"type", "ID", "LPAREN", "DOTS", "RPAREN">>),
  Rule("funheader_varargs", "funheader_varargs",
       <<"type", "ID", "LPAREN", "params", "COMMA", "DOTS", "RPAREN">>),
  Rule("params", "params", <<"type", "ID">>),
  Rule("params", "params", <<"params", "COMMA", "type", "ID">>),
  Rule("type", "type", <<"TYPE">>),
  Rule("type", "type", <<"type", "BRACKETS">>) >>

StatementRules == <<
  Rule("list", "statements", <<"statement">>),
  Rule("list", "statements", <<"statements", "statement">>),
  Rule("block", "statement", <<"LBRACE", "RBRACE">>),
  Rule("block", "statement", <<"LBRACE", "statements", "RBRACE">>),
  Rule("vardef", "statement", <<"type", "ID", "ASSIGN", "expr", "SEMICOL">>),
  Rule("allocation", "statement",
       <<"type", "LBRACKET", "expr", "RBRACKET", "ID", "SEMICOL">>),
  Rule("assignment", "statement", <<"ID", "ASSIGN", "expr", "SEMICOL">>),
  Rule("assignment", "statement", <<"index", "ASSIGN", "expr", "SEMICOL">>),
  Rule("modification", "statement", <<"ID", "MODIFY", "expr", "SEMICOL">>),
  Rule("modification", "statement", <<"index", "MODIFY", "expr", "SEMICOL">>),
  Rule("expr_statement", "statement", <<"expr", "SEMICOL">>),
  Prec(Rule("if", "statement", <<"IF", "LPAREN", "expr", "RPAREN", "statement">>), "IF"),
  Prec(Rule("if", "statement",
         <<"IF", "LPAREN", "expr", "RPAREN", "statement", "ELSE", "statement">>), "ELSE"),
  Rule("return", "statement", <<"RETURN", "SEMICOL">>),
  Rule("return", "statement", <<"RETURN", "expr", "SEMICOL">>) >>

LoopRules == <<
  Prec(Rule("for", "statement", <<"FOR", "LPAREN", "type", "ID", "ASSIGN", "expr", "TO",
                                  "expr", "RPAREN", "statement">>), "FOR"),
  Rule("do_while", "statement",
       <<"DO", "statement", "WHILE", "LPAREN", "expr", "RPAREN", "SEMICOL">>),
  Prec(Rule("while", "statement", <<"WHILE", "LPAREN", "expr", "RPAREN", "statement">>),
       "WHILE"),
  Rule("break", "statement", <<"BREAK", "SEMICOL">>),
  Rule("continue", "statement", <<"CONTINUE", "SEMICOL">>) >>

Binary == <<"OR", "AND", "EQ", "LT", "PLUS", "MINUS", "TIMES">>
ExpressionRules == <<
  Rule("varuse", "expr", <<"ID">>),
  Rule("index", "index", <<"expr", "LBRACKET", "expr", "RBRACKET">>),
  Rule("same", "expr", <<"index">>),
  Rule("paren", "expr", <<"LPAREN", "expr", "RPAREN">>),
  Rule("unop", "expr", <<"NOT", "expr">>),
  Prec(Rule("unop", "expr", <<"MINUS", "expr">>), "UMINUS"),
  Rule("unop", "expr", <<"INV", "expr">>),
  Rule("same", "expr", <<"funcall">>),
  Rule("funcall", "funcall", <<"ID", "LPAREN", "RPAREN">>),
  Rule("funcall", "funcall", <<"ID", "LPAREN", "exprs", "RPAREN">>),
  Rule("exprs", "exprs", <<"expr">>),
  Rule("exprs", "exprs", <<"exprs", "COMMA", "expr">>),
  Rule("const", "expr", <<"CONST">>) >>
BinaryRules == [i \in DOMAIN Binary |-> Rule("binop", "expr", <<"expr", Binary[i], "expr">>)]

Rules == <<Rule("accept", "S'", <<"program">>)>> \o DeclarationRules \o StatementRules
         \o LoopRules \o ExpressionRules \o BinaryRules
RuleNumbers == DOMAIN Rules

Nonterminals == {Rules[r].head : r \in RuleNumbers}
Terminals == UNION {ToSet(Rules[r].body) : r \in RuleNumbers} \ Nonterminals

----------------------------------------------------------------------------
(* ply.yacc: the states of the parser are sets of items, a rule and how    *)
(* much of its body has been read.                                         *)

(* The symbols that something derived from "sym" can begin, or end, with.  *)
Corners(sym, at(_)) ==
  LET step(S) == S \cup {Rules[r].body[at(r)] : r \in {q \in RuleNumbers : Rules[q].head \in S}}
      corners[n \in 0..Cardinality(Nonterminals)] ==
        IF n = 0 THEN {sym} ELSE step(corners[n - 1])
  IN corners[Cardinality(Nonterminals)]
LeftCorners == [sym \in Nonterminals \cup Terminals |-> Corners(sym, LAMBDA r : 1)]
RightCorners == [sym \in Nonterminals \cup Terminals |-> Corners(sym, LAMBDA r : Len(Rules[r].body))]

(* No rule is empty.                                                       *)
Follow ==
  [head \in Nonterminals |->
     (IF head \in RightCorners["S'"] THEN {"$end"} ELSE {})
     \cup UNION {UNION {LeftCorners[Rules[r].body[i + 1]] \cap Terminals :
                          i \in {k \in 1..(Len(Rules[r].body) - 1) :
                                   head \in RightCorners[Rules[r].body[k]]}} :
                 r \in RuleNumbers}]

Expected(item) == IF item[2] < Len(Rules[item[1]].body) THEN Rules[item[1]].body[item[2] + 1]
              ELSE "$end"
Closure(items) ==
  items \cup {<<r, 0>> : r \in {q \in RuleNumbers :
    \E item \in items : Expected(item) # "$end" /\ Rules[q].head \in LeftCorners[Expected(item)]}}
Goto(items, sym) ==
  Closure({<<item[1], item[2] + 1>> : item \in {it \in items : Expected(it) = sym}})

(* The first state is the initial one.                                     *)
Start == Closure({<<1, 0>>})
ItemSets ==
  LET successors(items) == {Goto(items, sym) : sym \in {Expected(it) : it \in items} \ {"$end"}}
      reached[n \in 0..20] ==
        IF n = 0 THEN {Start}
        ELSE LET before == reached[n - 1]
             IN before \cup UNION {successors(items) : items \in before}
  IN reached[20]
Listing(sets, first) ==
  LET listed[n \in 1..Cardinality(sets)] ==
        IF n = 1 THEN <<first>>
        ELSE LET before == listed[n - 1]
             IN Append(before, CHOOSE items \in sets \ ToSet(before) : TRUE)
  IN listed[Cardinality(sets)]
States == Listing(ItemSets, Start)
StartState == 1

ShiftTableOf(states) ==
  [s \in DOMAIN states |->
     [sym \in {Expected(it) : it \in states[s]} \ {"$end"} |->
        LET items == Goto(states[s], sym) IN CHOOSE n \in DOMAIN states : states[n] = items]]
ShiftTable == ShiftTableOf(States)
ReduceTableOf(states) ==
  [s \in DOMAIN states |->
     [t \in Terminals \cup {"$end"} |->
        {r \in RuleNumbers : <<r, Len(Rules[r].body)>> \in states[s] /\ t \in Follow[Rules[r].head]}]]
ReduceTable == ReduceTableOf(States)

(* Each state has one rule at most that a token reduces.                   *)
Unambiguous == \A row \in ToSet(ReduceTable) : \A t \in DOMAIN row : Cardinality(row[t]) <= 1

Level(t) ==
  LET levels == {n \in DOMAIN precedence : t \in precedence[n][2]}
  IN IF levels = {} THEN 0 ELSE CHOOSE n \in levels : TRUE
(* A rule is as strong as its last token, unless it says.                  *)
LevelOf(rule) ==
  LET last == {i \in DOMAIN rule.body : /\ rule.body[i] \in Terminals
                                        /\ \A j \in (i + 1)..Len(rule.body) :
                                             rule.body[j] \notin Terminals}
  IN IF rule.prec # "default" THEN Level(rule.prec)
     ELSE IF last = {} THEN 0 ELSE Level(rule.body[CHOOSE i \in last : TRUE])
LevelTable == [r \in RuleNumbers |-> LevelOf(Rules[r])]
TokenLevels == [t \in Terminals \cup {"$end"} |-> Level(t)]

(* Between reading on and reducing a rule, the stronger one wins; at the   *)
(* same level, "left" reduces.                                             *)
ReducesFirst(r, t) ==
  \/ TokenLevels[t] < LevelTable[r]
  \/ TokenLevels[t] = LevelTable[r] /\ LevelTable[r] # 0 /\ precedence[LevelTable[r]][1] = "left"

(* The entry, if there is one: the state to shift to, or minus the rule to *)
(* reduce; the first rule accepts.                                         *)
ActionOf(shifts, reduces) ==
  [s \in DOMAIN shifts |->
     [t \in DOMAIN reduces[s] |->
        IF t \in DOMAIN shifts[s] /\ \A r \in reduces[s][t] : ~ReducesFirst(r, t)
        THEN {shifts[s][t]} ELSE {-r : r \in reduces[s][t]}]]
Action == ActionOf(ShiftTable, ReduceTable)
=============================================================================
