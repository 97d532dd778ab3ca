------------------------------- MODULE Scopes -------------------------------
(***************************************************************************)
(* Names through the front end: src/frontend/desugar.py expands for loops  *)
(* and modifications, context.py binds uses to definitions, typecheck.py   *)
(* checks the kinds of names and that jumps are in loops, and irgen.py     *)
(* looks definitions up in its tables.                                     *)
(*                                                                         *)
(* All visitors walk the desugared tree in one order, so the tree of a     *)
(* declaration is the sequence of what they come to.  The program is       *)
(* chosen while context analysis walks it; "todo" is what the visit        *)
(* methods that are active have still to visit.  Types of values, arrays,  *)
(* arguments and returns are left out: variables are integers, arguments   *)
(* fit.                                                                    *)
(***************************************************************************)
EXTENDS Integers, SequencesExt, TLC

CONSTANTS
  Names,
  FirstNames,     \* bound: names of the first declaration; as names can be
                  \* exchanged, one stands for all
  MaxGlobals,     \* bound: declarations of a program
  MaxStatements,  \* bound: statements of all its functions
  MaxUses         \* bound: uses of names in all its functions

VARIABLES
  program,        \* the declarations, each of a kind and a name
  source,         \* the tokens of each as written
  statements,     \* number of statements chosen
  uses,           \* number of uses in them
  tree,           \* what a visitor comes to in the desugared tree of each
  definition,     \* node.definition, of uses
  scopes,         \* the stack of scopes
  todo,
  body,           \* the function whose body context analysis has come to
  in_loop, loop_inside_loop,
  outer,          \* the local in_loop of the visits of loops that are active
  globalsAndLocals, fns,     \* IRGen.vars, IRGen.fns
  phase

choice == <<program, source, statements, uses>>
context == <<tree, definition, scopes, body>>
checker == <<in_loop, loop_inside_loop, outer>>
tables == <<globalsAndLocals, fns>>
vars == <<choice, context, todo, checker, tables, phase>>

(* What a visitor comes to: op, name, and the token of the source it stands *)
(* for.  The uses a for loop or modification is expanded to share a node,   *)
(* so they have the same token.                                             *)
Step(op, name, token) == [op |-> op, name |-> name, token |-> token]
Open == Step("open", "", 0)
Close == Step("close", "", 0)
BeginLoop == Step("loop", "", 0)
EndLoop == Step("endloop", "", 0)
UseOps == {"use", "call", "stop"}
Statements(closers) == Step("statements", "", closers)

(* A declaration is <<0, i>>, the i-th of the program, or <<i, p>>, made by *)
(* token p of function i.  A function's first token is its own name.        *)
Declaration(i, p) == IF p = 1 THEN <<0, i>> ELSE <<i, p>>
IsFunction(node) == node[1] = 0 /\ program[node[2]].kind \in {"FunDec", "FunDef"}

Init ==
  /\ program = <<>> /\ source = <<>> /\ statements = 0 /\ uses = 0
  /\ tree = <<>> /\ definition = <<>>
  /\ scopes = << <<>> >>
  /\ todo = <<>>
  /\ body = 0
  /\ in_loop = FALSE /\ loop_inside_loop = 0 /\ outer = <<>>
  /\ globalsAndLocals = {} /\ fns = {}
  /\ phase = "globals"

----------------------------------------------------------------------------
(* Context analysis: globals                                               *)

Defined(name) == name \in DOMAIN Last(scopes)
add_to_scope(node, name) ==
  scopes' = Append(Front(scopes), Last(scopes) @@ (name :> node))

(* visitGlobalDec, visitGlobalDef, visitFunDec, visitFunDef: of a function  *)
(* only the name is added; its body is put off.                             *)
visitGlobal(kind, name, params) ==
  /\ phase = "globals" /\ Len(program) < MaxGlobals
  /\ program' = Append(program, [kind |-> kind, name |-> name])
  /\ source' = Append(source,
       IF kind = "FunDef"
         THEN <<Step("def", name, 1)>>
                \o [k \in DOMAIN params |-> Step("def", params[k], k + 1)]
         ELSE <<>>)
  /\ tree' = Append(tree, <<Step(kind, name, 1)>>)
  /\ IF Defined(name)
       THEN phase' = "scope error" /\ UNCHANGED scopes
       ELSE add_to_scope(<<0, Len(program) + 1>>, name) /\ UNCHANGED phase
  /\ UNCHANGED <<statements, uses, definition, todo, body, checker, tables>>

Globals ==
  \E name \in IF program = <<>> THEN FirstNames ELSE Names :
    \/ \E kind \in {"Global", "FunDec"} : visitGlobal(kind, name, <<>>)
    \/ \E params \in {<<>>} \cup {<<p>> : p \in Names} : visitGlobal("FunDef", name, params)

----------------------------------------------------------------------------
(* Context analysis: bodies                                                *)

\* The next function from i on, or none.
NextBody(i) ==
  LET later == {j \in DOMAIN program : j >= i /\ program[j].kind = "FunDef"}
  IN IF later = {} THEN 0 ELSE Min(later)

\* What later visitors come to in the whole program, of the kinds that they
\* have visit methods for.
Walk(ops) ==
  FlattenSeq([i \in DOMAIN tree |->
    LET steps == SelectSeq(tree[i], LAMBDA step : step.op \in ops)
    IN [k \in DOMAIN steps |-> [fn |-> i] @@ steps[k]]])
Checked == {"use", "call", "loop", "endloop", "break"}
Generated == {"Global", "FunDec", "FunDef", "def", "use", "call"}

\* Name and parameters of the function are in the scope of its statements.
EnterBody(i) ==
  /\ body' = i
  /\ IF i = 0
       THEN phase' = "typecheck" /\ todo' = Walk(Checked) /\ UNCHANGED scopes
       ELSE /\ phase' = "bodies"
            /\ scopes' = Append(SubSeq(scopes, 1, 1), program[i].name :> <<0, i>>)
            /\ todo' = Tail(source[i]) \o <<Statements(0)>>
  /\ UNCHANGED <<choice, tree, definition, checker, tables>>

CollectedGlobals ==
  /\ phase = "globals" /\ program # <<>>
  /\ EnterBody(NextBody(1))

EndBody ==
  /\ phase = "bodies" /\ todo = <<>>
  /\ EnterBody(NextBody(body + 1))

Visits(ops) == phase = "bodies" /\ todo # <<>> /\ Head(todo).op \in ops
Walked == tree' = [tree EXCEPT ![body] = Append(@, Head(todo))]

visitVarDef ==
  /\ Visits({"def"})
  /\ IF Defined(Head(todo).name)
       THEN phase' = "scope error" /\ UNCHANGED scopes
       ELSE add_to_scope(<<body, Head(todo).token>>, Head(todo).name) /\ UNCHANGED phase
  /\ Walked /\ todo' = Tail(todo)
  /\ UNCHANGED <<choice, definition, body, checker, tables>>

\* find_in_scope: the place of the innermost scope with the name, or 0.
find_in_scope(name) == SelectLastInSeq(scopes, LAMBDA scope : name \in DOMAIN scope)

visitVarUse ==
  /\ Visits({"use", "call"})
  /\ LET use == Head(todo)  k == find_in_scope(use.name) IN
     IF k = 0
       THEN phase' = "scope error" /\ UNCHANGED definition
       ELSE /\ definition' = (<<body, use.token>> :> scopes[k][use.name]) @@ definition
            /\ UNCHANGED phase
  /\ Walked /\ todo' = Tail(todo)
  /\ UNCHANGED <<choice, scopes, body, checker, tables>>

enterBlock ==
  /\ Visits({"open"})
  /\ scopes' = Append(scopes, <<>>)
  /\ Walked /\ todo' = Tail(todo)
  /\ UNCHANGED <<choice, definition, body, checker, tables, phase>>

leaveBlock ==
  /\ Visits({"close"})
  /\ scopes' = Front(scopes)
  /\ Walked /\ todo' = Tail(todo)
  /\ UNCHANGED <<choice, definition, body, checker, tables, phase>>

\* visit_children is all there is to do.
visitOther ==
  /\ Visits({"loop", "endloop", "break"})
  /\ Walked /\ todo' = Tail(todo)
  /\ UNCHANGED <<choice, definition, scopes, body, checker, tables, phase>>

----------------------------------------------------------------------------
(* Desugaring.  A statement is chosen: its tokens as written, and what its  *)
(* desugared form makes a visitor come to.                                  *)

Choose(tokens, steps) ==
  /\ Visits({"statements"}) /\ statements < MaxStatements
  /\ statements' = statements + 1
  /\ uses' = uses + Cardinality({k \in DOMAIN tokens : tokens[k].op \in UseOps})
  /\ uses' <= MaxUses
  /\ source' = [source EXCEPT ![body] = @ \o tokens]
  /\ todo' = steps \o todo
  /\ UNCHANGED <<program, tree, definition, scopes, body, checker, tables, phase>>

EndStatements ==
  /\ Visits({"statements"})
  /\ source' = [source EXCEPT ![body] = @ \o [k \in 1 .. Head(todo).token |-> Close]]
  /\ todo' = Tail(todo)
  /\ UNCHANGED <<program, statements, uses, tree, definition, scopes, body, checker,
                 tables, phase>>

\* The place of the k-th token of the statement.
Token(k) == Len(source[body]) + k

\* An expression, in its place: a constant or a use.
Expr(name, k) == IF name \in Names THEN <<Step("use", name, Token(k))>> ELSE <<>>
Expressions == Names \cup {""}
AsStop(expr) == [k \in DOMAIN expr |-> [expr[k] EXCEPT !.op = "stop"]]

ExprStatement(op, name) ==
  LET use == <<Step(op, name, Token(1))>> IN Choose(use, use)

VarDef(name, value) ==
  LET use == Expr(value, 1)
      def == <<Step("def", name, Token(Len(use) + 1))>>
  IN Choose(use \o def, use \o def)

\* name op= value becomes name = name op value, with one node for name.
visitModification(name, value) ==
  LET ref == <<Step("use", name, Token(1))>>
      use == Expr(value, 2)
  IN Choose(ref \o use, ref \o ref \o use)

Block == Choose(<<Open>>, <<Open, Statements(1), Close>>)

While(cond) ==
  LET use == Expr(cond, 1) IN
  Choose(use \o <<BeginLoop>>,
         <<BeginLoop>> \o use \o <<Open, Statements(1), Close, EndLoop>>)

Break == LET jump == <<Step("break", "", Token(1))>> IN Choose(jump, jump)

\* Mutant: the increment is put behind the statements of the body's block.
visitForFlat(entry, start, stop) ==
  LET lexpr == Expr(start, 1)
      rexpr == Expr(stop, Len(lexpr) + 1)
      token == Token(Len(lexpr \o rexpr) + 2)
      def == <<Step("def", entry, token)>>
      use == <<Step("use", entry, token)>>
  IN Choose(lexpr \o AsStop(rexpr) \o <<Open>> \o def \o <<BeginLoop>>,
            <<Open>> \o lexpr \o def
              \o <<BeginLoop>> \o use \o rexpr
              \o <<Open, Statements(2)>> \o use \o use \o <<Close, EndLoop, Close>>)

(* for (int entry = start to stop) body becomes                             *)
(* { int entry = start; while (entry < stop) { body entry = entry + 1; } }, *)
(* with one node for entry.                                                 *)
visitFor(entry, start, stop) ==
  LET lexpr == Expr(start, 1)
      rexpr == Expr(stop, Len(lexpr) + 1)
      token == Token(Len(lexpr \o rexpr) + 2)
      def == <<Step("def", entry, token)>>
      use == <<Step("use", entry, token)>>
  IN Choose(lexpr \o AsStop(rexpr) \o <<Open>> \o def \o <<BeginLoop>>,
            <<Open>> \o lexpr \o def
              \o <<BeginLoop>> \o use \o rexpr
              \o <<Open, Open, Statements(2), Close>> \o use \o use
              \o <<Close, EndLoop, Close>>)

Statement ==
  \/ \E name \in Names :
       \/ \E op \in {"use", "call"} : ExprStatement(op, name)
       \/ \E value \in Expressions : VarDef(name, value) \/ visitModification(name, value)
       \/ \E start, stop \in Expressions : visitFor(name, start, stop)
  \/ \E cond \in Expressions : While(cond)
  \/ Block
  \/ Break

----------------------------------------------------------------------------
(* Type checking                                                           *)

Current == Head(todo)
Node == <<Current.fn, Current.token>>

Checks(ops) == phase = "typecheck" /\ todo # <<>> /\ Current.op \in ops
Accept(ok) ==
  IF ok THEN todo' = Tail(todo) /\ UNCHANGED phase
        ELSE phase' = "type error" /\ UNCHANGED todo

\* Mutant: a variable may be called.
IsKindCallable(op, node) == op = "use" => ~ IsFunction(node)

\* Variables are used, functions are called.
IsKind(op, node) == (op = "call") = IsFunction(node)

checkVarUse ==
  /\ Checks({"use", "call"})
  /\ Accept(IsKind(Current.op, definition[Node]))
  /\ UNCHANGED <<choice, context, checker, tables>>

checkLoop ==
  /\ Checks({"loop"})
  /\ outer' = Append(outer, in_loop)
  /\ in_loop' = TRUE
  /\ loop_inside_loop' = loop_inside_loop + 1
  /\ Accept(TRUE)
  /\ UNCHANGED <<choice, context, tables>>

\* Mutant: the end of an inner loop is taken for the end of all.
checkEndLoopReset ==
  /\ Checks({"endloop"})
  /\ outer' = Front(outer)
  /\ in_loop' = FALSE /\ loop_inside_loop' = 0
  /\ Accept(TRUE)
  /\ UNCHANGED <<choice, context, tables>>

checkEndLoop ==
  /\ Checks({"endloop"})
  /\ outer' = Front(outer)
  /\ IF Last(outer) THEN UNCHANGED <<in_loop, loop_inside_loop>>
                    ELSE in_loop' = FALSE /\ loop_inside_loop' = 0
  /\ Accept(TRUE)
  /\ UNCHANGED <<choice, context, tables>>

checkBreak ==
  /\ Checks({"break"})
  /\ Accept(in_loop \/ loop_inside_loop # 0)
  /\ UNCHANGED <<choice, context, checker, tables>>

EndTypecheck ==
  /\ phase = "typecheck" /\ todo = <<>>
  /\ phase' = "irgen" /\ todo' = Walk(Generated)
  /\ UNCHANGED <<choice, context, checker, tables>>

----------------------------------------------------------------------------
(* IR generation                                                           *)

Generates(ops) == phase = "irgen" /\ todo # <<>> /\ Current.op \in ops

generateFunction ==
  /\ Generates({"FunDec", "FunDef"})
  /\ fns' = fns \cup {<<0, Current.fn>>}
  /\ todo' = Tail(todo)
  /\ UNCHANGED <<choice, context, checker, globalsAndLocals, phase>>

generateVariable ==
  /\ Generates({"Global", "def"})
  /\ globalsAndLocals' = globalsAndLocals \cup
       {IF Current.op = "Global" THEN <<0, Current.fn>> ELSE Node}
  /\ todo' = Tail(todo)
  /\ UNCHANGED <<choice, context, checker, fns, phase>>

\* A node that is not in the table is a KeyError.
generateUse ==
  /\ Generates({"use", "call"})
  /\ IF definition[Node] \in (IF Current.op = "call" THEN fns ELSE globalsAndLocals)
       THEN todo' = Tail(todo) /\ UNCHANGED phase
       ELSE phase' = "key error" /\ UNCHANGED todo
  /\ UNCHANGED <<choice, context, checker, tables>>

EndGeneration ==
  /\ phase = "irgen" /\ todo = <<>>
  /\ phase' = "done"
  /\ UNCHANGED <<choice, context, todo, checker, tables>>

Ended ==
  /\ phase \in {"scope error", "type error", "key error", "done"}
  /\ UNCHANGED vars

Next ==
  \/ Globals \/ CollectedGlobals \/ EndBody
  \/ visitVarDef \/ visitVarUse \/ enterBlock \/ leaveBlock \/ visitOther
  \/ Statement \/ EndStatements
  \/ checkVarUse \/ checkLoop \/ checkEndLoop \/ checkBreak \/ EndTypecheck
  \/ generateFunction \/ generateVariable \/ generateUse \/ EndGeneration
  \/ Ended

Spec == Init /\ [][Next]_vars

----------------------------------------------------------------------------
(* Properties                                                              *)

(* Types; between functions only the scope of the globals is left.         *)
TypeOK ==
  /\ DOMAIN source = DOMAIN program /\ DOMAIN tree = DOMAIN program
  /\ in_loop \in BOOLEAN /\ loop_inside_loop \in Nat
  /\ \A k \in DOMAIN scopes : DOMAIN scopes[k] \subseteq Names
  /\ CASE phase = "globals" -> Len(scopes) = 1
       [] phase = "bodies" -> Len(scopes) >= 2 /\ (todo = <<>> => Len(scopes) = 2)
       [] OTHER -> phase \in {"scope error", "typecheck", "type error", "irgen",
                             "key error", "done"}

(* The scoping rules on the program as written.  A definition is visible   *)
(* from its token to the end of the block, or the loop, it is in.          *)
Depth(i, p) ==
  Cardinality({q \in 1 .. p : source[i][q].op \in {"open", "loop"}})
    - Cardinality({q \in 1 .. p : source[i][q].op = "close"})
Within(i, q, p) == q < p /\ \A r \in q .. p : Depth(i, r) >= Depth(i, q)
Visible(i, p) == {q \in 1 .. p - 1 : /\ source[i][q].op = "def"
                                     /\ source[i][q].name = source[i][p].name
                                     /\ Within(i, q, p)}
InScope(i, p) ==
  IF Visible(i, p) # {} THEN {Declaration(i, Max(Visible(i, p)))}
  ELSE {<<0, j>> : j \in {k \in DOMAIN program : program[k].name = source[i][p].name}}

Uses == {<<i, p>> \in (DOMAIN program) \X (1 .. 40) :
           p \in DOMAIN source[i] /\ source[i][p].op \in UseOps}
Definitions == {<<i, p>> \in (DOMAIN program) \X (1 .. 40) :
                  p \in DOMAIN source[i] /\ source[i][p].op = "def"}

\* A for loop whose stop expression has the name of its variable: the
\* expanded loop visits it in the scope of the variable.
StopsAtItself(i, p) ==
  source[i][p].op = "stop" /\ source[i][p + 2].name = source[i][p].name

\* Context analysis is over, and so are the later phases.
Accepted == phase \in {"type error", "key error", "done"}

(* Every use is bound to the innermost visible definition, and the uses a  *)
(* for loop is expanded to, to its variable, whatever its body defines.    *)
BindsInnermost ==
  /\ TypeOK
  /\ Accepted => \A <<i, p>> \in DOMAIN definition :
       \/ StopsAtItself(i, p)
       \/ IF source[i][p].op = "def" THEN definition[<<i, p>>] = <<i, p>>
          ELSE definition[<<i, p>>] \in InScope(i, p)

(* Exactly the wrong programs are rejected: by context analysis those with *)
(* a use of an undefined name or two definitions of a name in one scope,   *)
(* by the type checker those that use a function, call a variable, or have *)
(* a break outside loops - after loops, nested or not, and loops of other  *)
(* functions.                                                              *)
WronglyScoped ==
  \/ \E i, j \in DOMAIN program : i # j /\ program[i].name = program[j].name
  \/ \E <<i, p>> \in Uses : InScope(i, p) = {} /\ ~ StopsAtItself(i, p)
  \/ \E <<i, p>> \in Definitions : \E q \in Visible(i, p) : Depth(i, q) = Depth(i, p)
WronglyUsed ==
  \/ \E <<i, p>> \in Uses : ~ IsKind(source[i][p].op, definition[<<i, p>>])
  \/ \E i \in DOMAIN program : \E p \in DOMAIN source[i] :
       /\ source[i][p].op = "break"
       /\ ~ \E q \in DOMAIN source[i] : source[i][q] = BeginLoop /\ Within(i, q, p)
ErrorsExact ==
  /\ phase = "scope error" => WronglyScoped
  /\ Accepted => ~ WronglyScoped
  /\ phase = "type error" => WronglyUsed
  /\ phase \in {"key error", "done"} => ~ WronglyUsed

(* What passes all checks fails to compile exactly if a body uses a global *)
(* or calls a function that is declared after it; everything local is in   *)
(* the table when it is used.  (So a program that was checked is not       *)
(* always "ready for IR generation", as typecheck.py:9 says it is.)        *)
UsedAhead == \E <<i, p>> \in DOMAIN definition :
               definition[<<i, p>>][1] = 0 /\ definition[<<i, p>>][2] > i
FailsOnlyAhead ==
  /\ phase = "key error" => UsedAhead
  /\ phase = "done" => ~ UsedAhead

=============================================================================
