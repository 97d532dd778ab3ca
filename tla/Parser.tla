------------------------------- MODULE Parser -------------------------------
(***************************************************************************)
(* The parser: the shift-reduce loop of ply over the table of Grammar, the *)
(* syntax tree that the functions of src/frontend/parser.py build, and the *)
(* source that the tree prints as (src/frontend/fennec_ast.py).            *)
(*                                                                         *)
(* Words are read as they are needed, any that the table has an entry for; *)
(* a program that was parsed is then printed, and parsed again.            *)
(*                                                                         *)
(* A node is a tuple of its class and its children; the value of a name or *)
(* of a constant is the place of its token in the first source.            *)
(***************************************************************************)
EXTENDS Grammar

(* Words that are told apart, by their token: numbers that Python prints   *)
(* with an exponent, or as inf, are floats, and ^= is a modification by ^. *)
Words == Terminals \cup {"TINY", "HUGE", "XORMODIFY"}
TypeOf(word) ==
  CASE word \in {"TINY", "HUGE"} -> "CONST"
    [] word = "XORMODIFY" -> "MODIFY"
    [] OTHER -> word

CONSTANTS
  Kinds,         \* kinds of programs, each with ...
  Beginning,     \* ... what it begins with,
  Cost,          \* ... what phrases may follow, with their costs,
  Budget         \* ... bound: and how much they may cost

VARIABLES
  tokens,        \* words with a value each, and "$end"
  shifted,       \* how many of them are on the stack, or were
  kind, spare,   \* what is left to spend on further words
  stack,         \* LR states, each with the node of its symbol
  tree,          \* the tree of the first source
  phase          \* "parsing", "parsed", "reparsing", "reparsed", "error" or "crash"

source == <<kind, spare>>
vars == <<tokens, shifted, source, stack, tree, phase>>

----------------------------------------------------------------------------
(* The nodes.  none stands for None.                                       *)

none == <<>>
StatementClasses ==
  {"VarDef", "ArrayDef", "Assignment", "Modification", "ExprStatement", "If", "Return",
   "Block", "For", "DoWhile", "While", "Break", "Continue"}
Block(stat) == IF stat[1] = "Block" THEN stat ELSE <<"Block", <<stat>>>>
Body(n, v) == <<"Block", IF Len(v) = n THEN none ELSE v[n]>>
Reference(v) == IF v[1] = "ID" THEN <<"VarUse", v, none>> ELSE v

(* p_program to p_params, p_type, p_statements and p_exprs: "v" are the    *)
(* values of the symbols of the rule.                                      *)
BuildDeclaration(function, v) ==
  LET n == Len(v)
  IN CASE function = "program" -> <<"Program", v[1]>>
       [] function = "list" -> IF n = 1 THEN <<v[1]>> ELSE Append(v[1], v[2])
       [] function = "same" -> v[1]
       [] function = "globaldec" -> <<"GlobalDec", v[2], v[3]>>
       [] function = "globaldef" ->
            <<"GlobalDef", n = 6, v[n - 4], v[n - 3], v[n - 1]>>
       [] function = "fundec" -> <<"FunDec", v[2][1], v[2][2]>>
       [] function = "fundef" -> <<"FunDef", FALSE, v[1][1], v[1][2], Body(3, v)>>
       [] function = "fundef_static" -> <<"FunDef", TRUE, v[2][1], v[2][2], Body(4, v)>>
       [] function = "funheader" ->
            <<v[2], <<"FunType", v[1], IF n = 5 THEN v[4] ELSE none, FALSE>>>>
       [] function = "funheader_varargs" ->
            <<v[2], <<"FunType", v[1], IF n = 7 THEN v[4] ELSE none, TRUE>>>>
       [] function = "params" ->
            IF n = 2 THEN <<<<"Param", v[1], v[2]>>>>
            ELSE Append(v[1], <<"Param", v[3], v[4]>>)
       [] function = "type" -> IF n = 1 THEN <<"Type", 0>> ELSE <<"Type", v[1][2] + 1>>

BuildStatement(function, v) ==
  LET n == Len(v)
  IN CASE function = "block" -> <<"Block", IF n = 2 THEN none ELSE v[2]>>
       [] function = "vardef" -> <<"VarDef", v[1], v[2], v[4]>>
       [] function = "allocation" -> <<"ArrayDef", <<"Type", v[1][2] + 1>>, v[3], v[5]>>
       [] function = "assignment" -> <<"Assignment", Reference(v[1]), v[3]>>
       [] function = "modification" -> <<"Modification", Reference(v[1]), v[2][1], v[3]>>
       [] function = "expr_statement" -> <<"ExprStatement", v[1]>>
       [] function = "if" ->
            <<"If", v[3], Block(v[5]), IF n = 7 THEN Block(v[7]) ELSE none>>
       [] function = "return" -> <<"Return", IF n = 3 THEN v[2] ELSE none>>

(* The type that a for loop declares is dropped.                           *)
BuildLoop(function, v) ==
  CASE function = "for" -> <<"For", v[4], v[6], v[8], Block(v[10])>>
    [] function = "do_while" -> <<"DoWhile", Block(v[2]), v[5]>>
    [] function = "while" -> <<"While", v[3], Block(v[5])>>
    [] function = "break" -> <<"Break">>
    [] function = "continue" -> <<"Continue">>

(* Mutant: an index of any VarUse replaces the one it has.                 *)
IndexedAgain(base, index) ==
  IF base[1] = "VarUse" THEN <<"VarUse", base[2], index>> ELSE <<"Index", base, index>>
(* An index of a name goes into its VarUse, also when the name is in       *)
(* parentheses.                                                            *)
Indexed(base, index) ==
  IF base[1] = "VarUse" /\ base[3] = none THEN <<"VarUse", base[2], index>>
  ELSE <<"Index", base, index>>

BuildExpression(function, v) ==
  CASE function = "varuse" -> <<"VarUse", v[1], none>>
    [] function = "index" -> Indexed(v[1], v[3])
    [] function = "paren" -> v[2]
    [] function = "binop" -> <<"BinaryOp", v[1], v[2][1], v[3]>>
    [] function = "unop" -> <<"UnaryOp", v[1][1], v[2]>>
    [] function = "funcall" -> <<"FunCall", v[1], IF Len(v) = 3 THEN none ELSE v[3]>>
    [] function = "exprs" -> IF Len(v) = 1 THEN <<v[1]>> ELSE Append(v[1], v[3])
    [] function = "const" -> <<"Const", v[1]>>

Functions(rules) == {rules[r].function : r \in DOMAIN rules}
Build(function, v) ==
  CASE function \in Functions(DeclarationRules) -> BuildDeclaration(function, v)
    [] function \in Functions(StatementRules) \ {"list"} -> BuildStatement(function, v)
    [] function \in Functions(LoopRules) -> BuildLoop(function, v)
    [] OTHER -> BuildExpression(function, v)

(* Operator.get knows neither ~ nor ^: an AssertionError.                  *)
Fails(function, v) ==
  \/ function = "unop" /\ v[1][1] = "INV"
  \/ function = "modification" /\ v[2][1] = "XORMODIFY"

----------------------------------------------------------------------------
(* What Node.verify asks: for each class, the class of each child, and     *)
(* whether it may be None ("?"), is a list ("*") or one that is not empty  *)
(* ("+").  Strings, operators, Booleans and types are not looked into.     *)

types ==
  [Program |-> <<<<"Declaration", "+">>>>,
   GlobalDec |-> <<>>, GlobalDef |-> <<<<"data">>, <<"data">>, <<"data">>, <<"Expression", "">>>>,
   FunDec |-> <<<<"data">>, <<"FunType", "">>>>,
   FunDef |-> <<<<"data">>, <<"data">>, <<"FunType", "">>, <<"Block", "">>>>,
   FunType |-> <<<<"data">>, <<"Param", "*">>>>, Param |-> <<>>]
  @@
  [Assignment |-> <<<<"Reference", "">>, <<"Expression", "">>>>,
   Modification |-> <<<<"Reference", "">>, <<"data">>, <<"Expression", "">>>>,
   If |-> <<<<"Expression", "">>, <<"Block", "">>, <<"Block", "?">>>>,
   Return |-> <<<<"Expression", "?">>>>, Block |-> <<<<"Statement", "*">>>>,
   VarDef |-> <<<<"data">>, <<"data">>, <<"Expression", "">>>>,
   ArrayDef |-> <<<<"data">>, <<"Expression", "">>>>, ExprStatement |-> <<<<"Expression", "">>>>,
   While |-> <<<<"Expression", "">>, <<"Block", "">>>>,
   For |-> <<<<"data">>, <<"Expression", "">>, <<"Expression", "">>, <<"Block", "">>>>,
   DoWhile |-> <<<<"Block", "">>, <<"Expression", "">>>>, Break |-> <<>>, Continue |-> <<>>]
  @@
  [VarUse |-> <<<<"data">>, <<"Expression", "?">>>>,
   Index |-> <<<<"Expression", "">>, <<"Expression", "">>>>,
   BinaryOp |-> <<<<"Expression", "">>, <<"data">>, <<"Expression", "">>>>,
   UnaryOp |-> <<<<"data">>, <<"Expression", "">>>>,
   FunCall |-> <<<<"data">>, <<"Expression", "*">>>>, Const |-> <<>>]

Subclasses(class) ==
  CASE class = "Declaration" -> {"GlobalDec", "GlobalDef", "FunDec", "FunDef"}
    [] class = "Statement" -> StatementClasses
    [] class = "Expression" -> {"VarUse", "Index", "BinaryOp", "UnaryOp", "FunCall", "Const"}
    [] class = "Reference" -> {"VarUse", "Index"}
    [] OTHER -> {class}

(* The children of a node that are nodes, with their places.               *)
NodePlaces(node) == {k \in DOMAIN types[node[1]] : types[node[1]][k][1] # "data"}
NodesAt(node, k) ==
  IF types[node[1]][k][2] \in {"*", "+"} THEN ToSet(node[k + 1])
  ELSE IF node[k + 1] = none THEN {} ELSE {node[k + 1]}
RECURSIVE Nodes(_)
Nodes(node) == {node} \cup UNION {UNION {Nodes(c) : c \in NodesAt(node, k)} : k \in NodePlaces(node)}
verify(root) ==
  \A node \in Nodes(root) : \A k \in NodePlaces(node) :
    LET type == types[node[1]][k]
    IN /\ type[2] \in {"", "+"} => NodesAt(node, k) # {}
       /\ \A c \in NodesAt(node, k) : c[1] \in Subclasses(type[1])

----------------------------------------------------------------------------
(* The loop                                                                *)

Parsing == phase \in {"parsing", "reparsing"}
top == stack[Len(stack)][1]
lookahead == TypeOf(tokens[shifted + 1][1])

Init ==
  /\ kind \in Kinds
  /\ tokens = [i \in DOMAIN Beginning[kind] |-> <<Beginning[kind][i], i>>]
  /\ spare = Budget[kind]
  /\ shifted = 0
  /\ stack = <<<<StartState, none>>>>
  /\ tree = none /\ phase = "parsing"

(* The lexer is asked for the next token, and here gives a phrase of them. *)
HasEntry(word) == Action[top][TypeOf(word)] # {}
Read ==
  /\ phase = "parsing" /\ shifted = Len(tokens)
  /\ \E phrase \in DOMAIN Cost[kind] :
       /\ Cost[kind][phrase] <= spare /\ HasEntry(phrase[1])
       /\ tokens' = tokens \o [i \in DOMAIN phrase |-> <<phrase[i], Len(tokens) + i>>]
       /\ spare' = spare - Cost[kind][phrase]
  /\ UNCHANGED <<shifted, kind, stack, tree, phase>>

Shift ==
  /\ Parsing /\ shifted < Len(tokens)
  /\ \E entry \in Action[top][lookahead] :
       entry > 0 /\ stack' = Append(stack, <<entry, tokens[shifted + 1]>>)
  /\ shifted' = shifted + 1
  /\ UNCHANGED <<tokens, source, tree, phase>>

Reduce ==
  /\ Parsing /\ shifted < Len(tokens)
  /\ \E entry \in Action[top][lookahead] :
       LET rule == Rules[-entry]
           rest == SubSeq(stack, 1, Len(stack) - Len(rule.body))
           v == [i \in DOMAIN rule.body |-> stack[Len(rest) + i][2]]
       IN /\ entry < -1
          /\ IF Fails(rule.function, v)
             THEN phase' = "crash" /\ UNCHANGED stack
             ELSE /\ stack' = Append(rest, <<ShiftTable[rest[Len(rest)][1]][rule.head],
                                             Build(rule.function, v)>>)
                  /\ UNCHANGED phase
  /\ UNCHANGED <<tokens, shifted, source, tree>>

Accept ==
  /\ Parsing /\ shifted < Len(tokens) /\ -1 \in Action[top][lookahead]
  /\ IF phase = "parsing" THEN phase' = "parsed" /\ tree' = stack[2][2]
     ELSE phase' = "reparsed" /\ UNCHANGED tree
  /\ UNCHANGED <<tokens, shifted, source, stack>>

(* p_error, and the EOFError at the end of the source.                     *)
SyntaxError ==
  /\ Parsing
  /\ \E word \in IF shifted < Len(tokens) THEN {tokens[shifted + 1][1]} ELSE Words \cup {"$end"} :
       ~HasEntry(word)
  /\ phase' = "error"
  /\ UNCHANGED <<tokens, shifted, source, stack, tree>>

----------------------------------------------------------------------------
(* Printing: the words of the source                                       *)

Word(word) == <<<<word, 0>>>>
CommaList(seqs) ==
  FlattenSeq([i \in DOMAIN seqs |-> (IF i = 1 THEN <<>> ELSE Word("COMMA")) \o seqs[i]])

(* str of a float: 1e-05 is read as a number, a name, a minus and a number *)
(* again, and inf, which all too large floats become, as a name.           *)
PrintConst(token) ==
  CASE token[1] = "TINY" -> Word("CONST") \o Word("ID") \o Word("MINUS") \o Word("CONST")
    [] token[1] = "HUGE" -> Word("ID")
    [] OTHER -> <<token>>
PrintType(type) == Word("TYPE") \o [i \in 1..type[2] |-> <<"BRACKETS", 0>>]

RECURSIVE PrintExpression(_)
PrintExpression(e) ==
  CASE e[1] = "VarUse" ->
         IF e[3] = none THEN <<e[2]>>
         ELSE <<e[2]>> \o Word("LBRACKET") \o PrintExpression(e[3]) \o Word("RBRACKET")
    [] e[1] = "Index" ->
         PrintExpression(e[2]) \o Word("LBRACKET") \o PrintExpression(e[3]) \o Word("RBRACKET")
    [] e[1] = "BinaryOp" ->
         Word("LPAREN") \o PrintExpression(e[2]) \o Word(e[3]) \o PrintExpression(e[4])
         \o Word("RPAREN")
    [] e[1] = "UnaryOp" -> Word(e[2]) \o PrintExpression(e[3])
    [] e[1] = "FunCall" ->
         <<e[2]>> \o Word("LPAREN")
         \o CommaList([i \in DOMAIN e[3] |-> PrintExpression(e[3][i])]) \o Word("RPAREN")
    [] e[1] = "Const" -> PrintConst(e[2])

RECURSIVE PrintStatement(_)
PrintStatements(stats) == FlattenSeq([i \in DOMAIN stats |-> PrintStatement(stats[i])])
(* Mutant: no braces around a single statement.                            *)
PrintBlockBare(b) ==
  IF Len(b[2]) = 1 THEN PrintStatement(b[2][1])
  ELSE Word("LBRACE") \o PrintStatements(b[2]) \o Word("RBRACE")
PrintBlock(b) == Word("LBRACE") \o PrintStatements(b[2]) \o Word("RBRACE")
Condition(e) == Word("LPAREN") \o PrintExpression(e) \o Word("RPAREN")
Definition(type, name, e) ==
  PrintType(type) \o <<name>> \o Word("ASSIGN") \o PrintExpression(e)
PrintLoop(s) ==
  CASE s[1] = "While" -> Word("WHILE") \o Condition(s[2]) \o PrintBlock(s[3])
    [] s[1] = "For" ->
         Word("FOR") \o Word("LPAREN") \o Definition(<<"Type", 0>>, s[2], s[3])
         \o Word("TO") \o PrintExpression(s[4]) \o Word("RPAREN") \o PrintBlock(s[5])
    [] s[1] = "DoWhile" ->
         Word("DO") \o PrintBlock(s[2]) \o Word("WHILE") \o Condition(s[3]) \o Word("SEMICOL")
    [] s[1] = "Break" -> Word("BREAK") \o Word("SEMICOL")
    [] s[1] = "Continue" -> Word("CONTINUE") \o Word("SEMICOL")
PrintStatement(s) ==
  CASE s[1] = "Assignment" ->
         PrintExpression(s[2]) \o Word("ASSIGN") \o PrintExpression(s[3]) \o Word("SEMICOL")
    [] s[1] = "Modification" ->
         PrintExpression(s[2]) \o Word(s[3]) \o PrintExpression(s[4]) \o Word("SEMICOL")
    [] s[1] = "If" ->
         Word("IF") \o Condition(s[2]) \o PrintBlock(s[3])
         \o IF s[4] = none THEN <<>> ELSE Word("ELSE") \o PrintBlock(s[4])
    [] s[1] = "Return" ->
         Word("RETURN") \o (IF s[2] = none THEN <<>> ELSE PrintExpression(s[2]))
         \o Word("SEMICOL")
    [] s[1] = "Block" -> PrintBlock(s)
    [] s[1] = "VarDef" -> Definition(s[2], s[3], s[4]) \o Word("SEMICOL")
    [] s[1] = "ArrayDef" ->
         PrintType(<<"Type", s[2][2] - 1>>) \o Word("LBRACKET") \o PrintExpression(s[3])
         \o Word("RBRACKET") \o <<s[4]>> \o Word("SEMICOL")
    [] s[1] = "ExprStatement" -> PrintExpression(s[2]) \o Word("SEMICOL")
    [] OTHER -> PrintLoop(s)

(* FunType.tostring                                                        *)
PrintHeader(type, name) ==
  LET params == [i \in DOMAIN type[3] |-> PrintType(type[3][i][2]) \o <<type[3][i][3]>>]
      dots == IF type[4] THEN <<Word("DOTS")>> ELSE <<>>
  IN PrintType(type[2]) \o <<name>> \o Word("LPAREN") \o CommaList(params \o dots)
     \o Word("RPAREN")
Static(static) == IF static THEN Word("STATIC") ELSE <<>>
PrintDeclaration(d) ==
  CASE d[1] = "GlobalDec" -> Word("EXTERN") \o PrintType(d[2]) \o <<d[3]>> \o Word("SEMICOL")
    [] d[1] = "GlobalDef" -> Static(d[2]) \o Definition(d[3], d[4], d[5]) \o Word("SEMICOL")
    [] d[1] = "FunDec" -> Word("EXTERN") \o PrintHeader(d[3], d[2]) \o Word("SEMICOL")
    [] d[1] = "FunDef" -> Static(d[2]) \o PrintHeader(d[4], d[3]) \o PrintBlock(d[5])
PrintProgram(program) == FlattenSeq([i \in DOMAIN program[2] |-> PrintDeclaration(program[2][i])])

(* The tree is printed, with --dump-after or -v, and that source parsed.   *)
Reparse ==
  /\ phase = "parsed" /\ phase' = "reparsing"
  /\ tokens' = PrintProgram(tree) \o Word("$end")
  /\ shifted' = 0 /\ stack' = <<<<StartState, none>>>>
  /\ UNCHANGED <<source, tree>>

Next == Read \/ Shift \/ Reduce \/ Accept \/ SyntaxError \/ Reparse

Spec == Init /\ [][Next]_vars

----------------------------------------------------------------------------
(* How a program reads, without a table: names, operators and brackets in  *)
(* the order of the words.                                                 *)

At(i) == TypeOf(tokens[i][1])
Opening == {"LPAREN", "LBRACKET", "LBRACE"}
ClosingOf == [LPAREN |-> "RPAREN", LBRACKET |-> "RBRACKET", LBRACE |-> "RBRACE"]
Depth(i, k) ==
  Cardinality({n \in i..(k - 1) : At(n) \in Opening})
  - Cardinality({n \in i..(k - 1) : At(n) \in {"RPAREN", "RBRACKET", "RBRACE"}})
Least(S) == CHOOSE i \in S : \A j \in S : i <= j
Greatest(S) == CHOOSE i \in S : \A j \in S : i >= j
CloserOf(i) == Least({k \in (i + 1)..Len(tokens) : At(k) = ClosingOf[At(i)] /\ Depth(i, k) = 1})
OpenerOf(k) == Greatest({i \in 1..(k - 1) : At(i) \in Opening /\ CloserOf(i) = k})
NextOf(t, i) == Least({k \in i..Len(tokens) : At(k) = t})
(* The parts of i..j between the outermost commas.                         *)
Parts(i, j) ==
  LET ends == {k \in i..j : At(k) = "COMMA" /\ Depth(i, k) = 0} \cup {j + 1}
      sorted == SetToSortSeq(ends, LAMBDA a, b : a < b)
  IN IF i > j THEN <<>>
     ELSE [n \in DOMAIN sorted |-> <<IF n = 1 THEN i ELSE sorted[n - 1] + 1, sorted[n] - 1>>]

Strength == [t \in ToSet(Binary) |->
  CASE t = "OR" -> 1 [] t = "AND" -> 2 [] t = "EQ" -> 3 [] t = "LT" -> 4
    [] t \in {"PLUS", "MINUS"} -> 5 [] t = "TIMES" -> 6]
(* A name, possibly in parentheses.                                        *)
IsName(i, j) ==
  /\ (i + j) % 2 = 0 /\ At((i + j) \div 2) = "ID"
  /\ \A k \in i..((i + j) \div 2 - 1) : At(k) = "LPAREN"

RECURSIVE ReadExpression(_, _)
ReadExpression(i, j) ==
  LET binary == {k \in (i + 1)..(j - 1) :
                   /\ At(k) \in ToSet(Binary) /\ Depth(i, k) = 0
                   /\ At(k - 1) \in {"ID", "CONST", "RPAREN", "RBRACKET"}}
      weakest == {k \in binary : \A n \in binary : Strength[At(k)] <= Strength[At(n)]}
      last == Greatest(weakest)
      open == OpenerOf(j)
  IN CASE binary # {} ->
            <<"BinaryOp", ReadExpression(i, last - 1), tokens[last][1],
              ReadExpression(last + 1, j)>>
       [] binary = {} /\ At(i) \in {"NOT", "MINUS"} ->
            <<"UnaryOp", tokens[i][1], ReadExpression(i + 1, j)>>
       [] i = j -> IF At(i) = "ID" THEN <<"VarUse", tokens[i], none>> ELSE <<"Const", tokens[i]>>
       [] OTHER ->
            IF At(j) = "RBRACKET"
            THEN IF IsName(i, open - 1)
                 THEN <<"VarUse", tokens[(i + open - 1) \div 2], ReadExpression(open + 1, j - 1)>>
                 ELSE <<"Index", ReadExpression(i, open - 1), ReadExpression(open + 1, j - 1)>>
            ELSE IF At(i) = "LPAREN" THEN ReadExpression(i + 1, j - 1)
            ELSE <<"FunCall", tokens[i],
                   LET args == Parts(i + 2, j - 1)
                   IN [n \in DOMAIN args |-> ReadExpression(args[n][1], args[n][2])]>>

(* A type begins at i; what follows it.                                    *)
AfterType(i) == Least({k \in (i + 1)..Len(tokens) : At(k) # "BRACKETS"})
ReadType(i) == <<"Type", AfterType(i) - i - 1>>

(* A statement, and where the next one begins.  An else belongs to the     *)
(* last if that it can belong to.                                          *)
InBlock(stat) == IF stat[1] = "Block" THEN stat ELSE <<"Block", <<stat>>>>
RECURSIVE ReadStatement(_), ReadStatements(_, _)
ReadStatements(i, end) ==
  IF i = end THEN <<>>
  ELSE LET first == ReadStatement(i) IN <<first[1]>> \o ReadStatements(first[2], end)
ReadStatement(i) ==
  LET semicolon == NextOf("SEMICOL", i)
      close == CloserOf(i + 1)
      yes == ReadStatement(close + 1)
      no == ReadStatement(yes[2] + 1)
      done == ReadStatement(i + 1)
      name == AfterType(i)
      loopname == AfterType(i + 2)
      to == NextOf("TO", i)
      assign == {k \in i..semicolon : At(k) \in {"ASSIGN", "MODIFY"}}
      sign == Least(assign)
  IN CASE At(i) = "LBRACE" ->
            <<<<"Block", ReadStatements(i + 1, CloserOf(i))>>, CloserOf(i) + 1>>
       [] At(i) = "IF" ->
            LET cond == ReadExpression(i + 2, close - 1)
            IN IF At(yes[2]) = "ELSE"
               THEN <<<<"If", cond, InBlock(yes[1]), InBlock(no[1])>>, no[2]>>
               ELSE <<<<"If", cond, InBlock(yes[1]), none>>, yes[2]>>
       [] At(i) = "WHILE" ->
            <<<<"While", ReadExpression(i + 2, close - 1), InBlock(yes[1])>>, yes[2]>>
       [] At(i) = "FOR" ->
            <<<<"For", tokens[loopname], ReadExpression(loopname + 2, to - 1),
                ReadExpression(to + 1, close - 1), InBlock(yes[1])>>, yes[2]>>
       [] At(i) = "DO" ->
            LET end == CloserOf(done[2] + 1)
            IN <<<<"DoWhile", InBlock(done[1]), ReadExpression(done[2] + 2, end - 1)>>, end + 2>>
       [] At(i) = "BREAK" -> <<<<"Break">>, i + 2>>
       [] At(i) = "CONTINUE" -> <<<<"Continue">>, i + 2>>
       [] At(i) = "RETURN" ->
            <<<<"Return", IF semicolon = i + 1 THEN none ELSE ReadExpression(i + 1, semicolon - 1)>>,
              semicolon + 1>>
       [] At(i) = "TYPE" ->
            IF At(name) = "ID"
            THEN <<<<"VarDef", ReadType(i), tokens[name], ReadExpression(name + 2, semicolon - 1)>>,
                   semicolon + 1>>
            ELSE <<<<"ArrayDef", <<"Type", ReadType(i)[2] + 1>>,
                     ReadExpression(name + 1, semicolon - 3), tokens[semicolon - 1]>>, semicolon + 1>>
       [] OTHER ->
            IF assign = {} THEN <<<<"ExprStatement", ReadExpression(i, semicolon - 1)>>, semicolon + 1>>
            ELSE LET ref == ReadExpression(i, sign - 1)
                     value == ReadExpression(sign + 1, semicolon - 1)
                 IN IF At(sign) = "ASSIGN"
                    THEN <<<<"Assignment", ref, value>>, semicolon + 1>>
                    ELSE <<<<"Modification", ref, tokens[sign][1], value>>, semicolon + 1>>

(* A declaration, that may begin with extern or static.                    *)
ReadDeclaration(i) ==
  LET first == IF At(i) \in {"EXTERN", "STATIC"} THEN i + 1 ELSE i
      name == AfterType(first)
      close == CloserOf(name + 1)
      semicolon == NextOf("SEMICOL", i)
      parts == Parts(name + 2, close - 1)
      params == SelectSeq(parts, LAMBDA p : At(p[1]) # "DOTS")
      type == <<"FunType", ReadType(first),
                [n \in DOMAIN params |-> <<"Param", ReadType(params[n][1]), tokens[params[n][2]]>>],
                Len(params) # Len(parts)>>
  IN CASE At(i) = "EXTERN" /\ At(name + 1) = "SEMICOL" ->
            <<<<"GlobalDec", ReadType(first), tokens[name]>>, semicolon + 1>>
       [] At(i) = "EXTERN" /\ At(name + 1) # "SEMICOL" ->
            <<<<"FunDec", tokens[name], type>>, semicolon + 1>>
       [] OTHER ->
            IF At(name + 1) = "ASSIGN"
            THEN <<<<"GlobalDef", At(i) = "STATIC", ReadType(first), tokens[name],
                     ReadExpression(name + 2, semicolon - 1)>>, semicolon + 1>>
            ELSE <<<<"FunDef", At(i) = "STATIC", tokens[name], type,
                     <<"Block", ReadStatements(close + 2, CloserOf(close + 1))>>>>,
                   CloserOf(close + 1) + 1>>
RECURSIVE ReadDeclarations(_)
ReadDeclarations(i) ==
  IF At(i) = "$end" THEN <<>>
  ELSE LET first == ReadDeclaration(i) IN <<first[1]>> \o ReadDeclarations(first[2])

----------------------------------------------------------------------------
(* Properties                                                              *)

(* The table has no two rules to choose from, so nothing depends on the    *)
(* order of the functions (and no better lookahead is needed).             *)
ASSUME TableUnambiguous == Unambiguous

(* The tree of a program is the one its words mean (parser.py:39-320), for *)
(* each program within the bounds: operators group by their precedence and *)
(* to the left, an index binds stronger than an operator before it and     *)
(* goes into the name it follows, an else belongs to the nearest if, and   *)
(* blocks are put around single statements.  The verification of the tree  *)
(* (fennec_ast.py:150-195) finds nothing.  The parser fails only at ~ and  *)
(* at ^=, which the lexer lets through but Operator.get asserts are not    *)
(* there (parser.py:157, :230; fennec_ast.py:67).                          *)
ParsesAsWritten ==
  /\ phase = "parsed" => tree = <<"Program", ReadDeclarations(1)>> /\ verify(tree)
  /\ phase = "crash" => \E i \in 1..shifted : tokens[i][1] \in {"INV", "XORMODIFY"}

(* What a tree prints as is a program again, with the same tree            *)
(* (fennec_ast.py:228, "pretty-printing the AST as (legal) source code").  *)
(* It is not where an index of a unary operator is printed without         *)
(* parentheses (:404, :425): read again, the operator is the one of the    *)
(* element, and no assignment can begin with it.  Nor is it for a float    *)
(* that Python prints with an exponent, which the lexer does not know, or  *)
(* as inf, which is a name (:461).                                         *)
Negated(e) == e[1] = "Index" /\ e[2][1] = "UnaryOp"
RECURSIVE BeginsNegated(_)
BeginsNegated(e) == e[1] = "Index" /\ (Negated(e) \/ BeginsNegated(e[2]))
Constant(e, word) == e[1] = "Const" /\ e[2][1] = word
Unreadable(node) ==
  \/ Constant(node, "TINY")
  \/ node[1] \in {"Assignment", "Modification"} /\ BeginsNegated(node[2])
PrintsBack ==
  tree # none /\ phase \in {"reparsed", "error", "crash"} =>
    LET nodes == Nodes(tree)
    IN IF \E node \in nodes : Unreadable(node) THEN phase = "error"
       ELSE /\ phase = "reparsed"
            /\ (stack[2][2] = tree) =
                 (\A node \in nodes : ~Negated(node) /\ ~Constant(node, "HUGE"))
=============================================================================
