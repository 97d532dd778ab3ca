------------------------------- MODULE IRGen -------------------------------
(***************************************************************************)
(* Control flow in the IR generator, src/frontend/irgen.py: the basic      *)
(* blocks it creates, their order, their terminators, and the stacks it    *)
(* keeps while it walks a function body.                                   *)
(*                                                                         *)
(* The generator is a recursive tree walk.  Here the calls that the active *)
(* visit methods have still to make are the sequence "todo", and a visit   *)
(* method is the sequence of calls in its body: visiting a node replaces   *)
(* the head of todo by them, and every other call is a step.  The program  *)
(* compiled is chosen on the way: an item "stmts" stands for a statement   *)
(* list whose next statement is any statement of the language, an item     *)
(* "expr" for any expression.  Statements and expressions that create no   *)
(* block change nothing modelled here and are left out.                    *)
(*                                                                         *)
(* The input is a program the type checker has accepted: break and         *)
(* continue occur inside loops only, and for loops have been desugared.    *)
(***************************************************************************)
EXTENDS Naturals, SequencesExt

CONSTANTS
  MaxFunctions,   \* bound: function definitions in the module
  MaxStatements,  \* bound: statements in the module
  MaxLazy         \* bound: uses of && and || in the module

ASSUME BoundsAssumption ==
  MaxFunctions \in Nat /\ MaxStatements \in Nat /\ MaxLazy \in Nat

VARIABLES
  functions,      \* function definitions begun so far
  statements,     \* statements visited so far
  lazies,         \* lazy conditionals visited so far
  created,        \* basic blocks created so far; they are numbered
  entry,          \* entry block of the current function
  layout,         \* its basic_blocks, in order
  open,           \* those without a terminator
  successors,     \* what the terminators of the others branch to
  phis,           \* <<b, c>>: the phi of "endcond" block b has incoming block c
  block,          \* builder.block, where instructions go
  insert_blocks, loops, for_loop_incrementor,  \* the generator's stacks
  todo,           \* calls still to be made for the current function
  nest,           \* (history) the loops around the current statement
  failed          \* an assertion of llvmlite has failed

vars == <<functions, statements, lazies, created, entry, layout, open,
          successors, phis, block, insert_blocks, loops, for_loop_incrementor,
          todo, nest, failed>>

graph == <<created, entry, layout, open, successors, phis>>
stacks == <<insert_blocks, loops, for_loop_incrementor>>
counts == <<functions, statements, lazies>>

Blocks == 1 .. created
Empty == 0                  \* the "empty" of for_loop_incrementor

Call(name, a, b) == [name |-> name, a |-> a, b |-> b]
Branch(b) == <<Call("branch", b, 0)>>
BranchIfOpen(b) == <<Call("branchIfOpen", b, 0)>>
CBranch(b, c) == <<Call("cbranch", b, c)>>
Position(b) == <<Call("position", b, 0)>>
AddIncoming(b) == <<Call("add_incoming", b, 0)>>
PushIncrementor(b) == <<Call("incrementor", b, 0)>>
NewBlock == <<Call("newBlock", 0, 0)>>
Return == <<Call("ret", 0, 0)>>
LeaveLoop == <<Call("leave", 0, 0)>>
Statements == <<Call("stmts", 0, 0)>>
Expression == <<Call("expr", 0, 0)>>
FinishFunction == <<Call("finish", 0, 0)>>

\* visit_before(node, before_block)
VisitBefore(node, b) ==
  <<Call("pushInsert", b, 0)>> \o node \o <<Call("popInsert", 0, 0)>>

Is(name) == todo # <<>> /\ Head(todo).name = name

----------------------------------------------------------------------------
(* Blocks                                                                  *)

Place(b) == CHOOSE k \in DOMAIN layout : layout[k] = b

\* The k-th of the blocks a visit method is about to create.
Fresh(k) == created + k

\* Mutant: blocks are always appended.
AppendBlocks(n) ==
  LET new == [k \in 1 .. n |-> Fresh(k)] IN
  /\ created' = created + n
  /\ layout' = layout \o new
  /\ open' = open \cup (Fresh(1) .. Fresh(n))
  /\ successors' = [b \in 1 .. Fresh(n) |->
                      IF b \in Blocks THEN successors[b] ELSE {}]
  /\ UNCHANGED <<entry, phis>>

\* n calls of add_block: all go before the current insert block, or last.
AddBlocks(n) ==
  LET new == [k \in 1 .. n |-> Fresh(k)]
      at == IF insert_blocks = <<>> THEN Len(layout) + 1
                                    ELSE Place(Last(insert_blocks))
  IN /\ created' = created + n
     /\ layout' = SubSeq(layout, 1, at - 1) \o new
                    \o SubSeq(layout, at, Len(layout))
     /\ open' = open \cup (Fresh(1) .. Fresh(n))
     /\ successors' = [b \in 1 .. Fresh(n) |->
                         IF b \in Blocks THEN successors[b] ELSE {}]
     /\ UNCHANGED <<entry, phis>>

\* The current block gets a terminator; llvmlite asserts it has none.
Terminate(targets, rest) ==
  IF block \in open
    THEN /\ open' = open \ {block}
         /\ successors' = [successors EXCEPT ![block] = targets]
         /\ todo' = rest
         /\ UNCHANGED failed
    ELSE /\ failed' = TRUE
         /\ todo' = <<>>
         /\ UNCHANGED <<open, successors>>

----------------------------------------------------------------------------
(* Visiting a statement: what comes next is Head(todo) = Statements.       *)

Visit(calls) ==
  /\ todo' = calls \o todo
  /\ statements' = statements + 1
  /\ UNCHANGED <<functions, lazies, failed>>

MayVisit == Is("stmts") /\ statements < MaxStatements

visitIf ==
  /\ MayVisit
  /\ LET bif == Fresh(1)  bend == Fresh(2) IN
       Visit(VisitBefore(Expression, bif) \o CBranch(bif, bend)
             \o Position(bif) \o VisitBefore(Statements, bend) \o Branch(bend)
             \o Position(bend))
  /\ AddBlocks(2)
  /\ UNCHANGED <<block, stacks, nest>>

visitIfElse ==
  /\ MayVisit
  /\ LET bif == Fresh(1)  belse == Fresh(2)  bend == Fresh(3) IN
       Visit(VisitBefore(Expression, bif) \o CBranch(bif, belse)
             \o Position(bif) \o VisitBefore(Statements, belse) \o Branch(bend)
             \o Position(belse) \o VisitBefore(Statements, bend) \o Branch(bend)
             \o Position(bend))
  /\ AddBlocks(3)
  /\ UNCHANGED <<block, stacks, nest>>

\* The history record of a loop: where its condition and its end are, where
\* continue should go, and whether no loop inside it has been visited yet.
Loop(kind, start, end, continueAt) ==
  [kind |-> kind, start |-> start, end |-> end, continueAt |-> continueAt,
   clean |-> TRUE]

BeginLoop(loop) ==
  /\ loops' = Append(loops, <<loop.start, loop.end>>)
  /\ nest' = Append(nest, loop)
  /\ UNCHANGED <<block, insert_blocks, for_loop_incrementor>>

\* The second definition of visitDoWhile, which replaces the first.
visitDoWhile ==
  /\ MayVisit
  /\ LET cond == Fresh(1)  body == Fresh(2)  end == Fresh(3) IN
       /\ BeginLoop(Loop("dowhile", cond, end, cond))
       /\ Visit(Branch(body) \o Position(cond)
                \o VisitBefore(Expression, body) \o CBranch(body, end)
                \o Position(body) \o VisitBefore(Statements, end)
                \o BranchIfOpen(cond) \o LeaveLoop \o Position(end))
  /\ AddBlocks(3)

visitWhile ==
  /\ MayVisit
  /\ LET cond == Fresh(1)  body == Fresh(2)  end == Fresh(3) IN
       /\ BeginLoop(Loop("while", cond, end, cond))
       /\ Visit(Branch(cond) \o Position(cond)
                \o VisitBefore(Expression, body) \o CBranch(body, end)
                \o Position(body) \o PushIncrementor(Empty)
                \o VisitBefore(Statements, end)
                \o BranchIfOpen(cond) \o LeaveLoop \o Position(end))
  /\ AddBlocks(3)

\* visitWhile of a node that was a for loop: its body is the body of the for
\* loop, and last the increment, which is generated in a block of its own.
visitWhileFor ==
  /\ MayVisit
  /\ LET cond == Fresh(1)  body == Fresh(2)  increment == Fresh(3)
         end == Fresh(4) IN
       /\ BeginLoop(Loop("for", cond, end, increment))
       /\ Visit(Branch(cond) \o Position(cond)
                \o VisitBefore(Expression, body) \o CBranch(body, end)
                \o Position(body) \o PushIncrementor(increment)
                \o VisitBefore(Statements, increment) \o Branch(increment)
                \o Position(increment) \o VisitBefore(<<>>, end)
                \o BranchIfOpen(cond) \o LeaveLoop \o Position(end))
  /\ AddBlocks(4)

\* Mutant: no block for what follows.
OnlyJumpTo(target) ==
  /\ Visit(Branch(target))
  /\ UNCHANGED <<graph, block, stacks, nest>>

\* A jump ends the current block; what follows goes to a new block.
JumpTo(target) ==
  /\ Visit(Branch(target) \o NewBlock)
  /\ UNCHANGED <<graph, block, stacks, nest>>

\* Mutant: the outermost loop instead of the innermost.
OutermostEnd == Head(loops)[2]

BreakTarget == Last(loops)[2]
ContinueTarget ==
  IF Last(for_loop_incrementor) # Empty THEN Last(for_loop_incrementor)
                                        ELSE Last(loops)[1]

visitBreak ==
  /\ MayVisit /\ nest # <<>>
  /\ JumpTo(BreakTarget)

visitContinue ==
  /\ MayVisit /\ nest # <<>>
  /\ JumpTo(ContinueTarget)

visitReturn ==
  /\ MayVisit
  /\ Visit(Expression \o Return \o NewBlock)
  /\ UNCHANGED <<graph, block, stacks, nest>>

\* The return that ends the body of its function (terminating_return).
visitTerminatingReturn ==
  /\ MayVisit /\ Len(todo) = 2
  /\ todo' = Expression \o Return \o Tail(todo)
  /\ statements' = statements + 1
  /\ UNCHANGED <<functions, lazies, failed, graph, block, stacks, nest>>

\* An assignment, a definition or a call.
visitExpressionStatement ==
  /\ MayVisit
  /\ Visit(Expression)
  /\ UNCHANGED <<graph, block, stacks, nest>>

EndStatements ==
  /\ Is("stmts")
  /\ todo' = Tail(todo)
  /\ UNCHANGED <<counts, graph, block, stacks, nest, failed>>

----------------------------------------------------------------------------
(* Visiting an expression: what comes next is Head(todo) = Expression.     *)

\* Mutant: the phi gets its incoming blocks before their code is generated.
lazy_conditional_early ==
  /\ Is("expr") /\ lazies < MaxLazy
  /\ lazies' = lazies + 1
  /\ LET byes == Fresh(1)  bno == Fresh(2)  bend == Fresh(3) IN
       \E yesval, noval \in {Expression, <<>>} :
         /\ yesval # noval
         /\ todo' = VisitBefore(Expression, byes) \o CBranch(byes, bno)
                      \o Position(byes) \o AddIncoming(bend)
                      \o VisitBefore(yesval, bno) \o Branch(bend)
                      \o Position(bno) \o AddIncoming(bend)
                      \o VisitBefore(noval, bend) \o Branch(bend)
                      \o Position(bend) \o todo
  /\ AddBlocks(3)
  /\ UNCHANGED <<functions, statements, block, stacks, nest, failed>>

\* lazy_conditional for && (the right operand gives the "yes" value, the "no"
\* value is a constant) and for || (the other way round).
lazy_conditional ==
  /\ Is("expr") /\ lazies < MaxLazy
  /\ lazies' = lazies + 1
  /\ LET byes == Fresh(1)  bno == Fresh(2)  bend == Fresh(3) IN
       \E yesval, noval \in {Expression, <<>>} :
         /\ yesval # noval
         /\ todo' = VisitBefore(Expression, byes) \o CBranch(byes, bno)
                      \o Position(byes) \o VisitBefore(yesval, bno)
                      \o Branch(bend) \o AddIncoming(bend)
                      \o Position(bno) \o VisitBefore(noval, bend)
                      \o Branch(bend) \o AddIncoming(bend)
                      \o Position(bend) \o todo
  /\ AddBlocks(3)
  /\ UNCHANGED <<functions, statements, block, stacks, nest, failed>>

EndExpression ==
  /\ Is("expr")
  /\ todo' = Tail(todo)
  /\ UNCHANGED <<counts, graph, block, stacks, nest, failed>>

----------------------------------------------------------------------------
(* The calls the visit methods make                                        *)

\* The terminators: branch, branch unless the block is terminated already,
\* cbranch and ret.
TerminatorCall ==
  LET c == Head(todo)  rest == Tail(todo) IN
  /\ \/ Is("branch") /\ Terminate({c.a}, rest)
     \/ Is("cbranch") /\ Terminate({c.a, c.b}, rest)
     \/ Is("ret") /\ Terminate({}, rest)
     \/ Is("branchIfOpen") /\ block \in open /\ Terminate({c.a}, rest)
     \/ /\ Is("branchIfOpen") /\ block \notin open
        /\ todo' = rest
        /\ UNCHANGED <<open, successors, failed>>
  /\ UNCHANGED <<counts, created, entry, layout, phis, block, stacks, nest>>

\* builder.position_at_start or position_at_end
PositionCall ==
  /\ Is("position")
  /\ block' = Head(todo).a
  /\ todo' = Tail(todo)
  /\ UNCHANGED <<counts, graph, stacks, nest, failed>>

\* add_block, and the builder moves there
NewBlockCall ==
  /\ Is("newBlock")
  /\ AddBlocks(1)
  /\ block' = Fresh(1)
  /\ todo' = Tail(todo)
  /\ UNCHANGED <<counts, stacks, nest, failed>>

AddIncomingCall ==
  /\ Is("add_incoming")
  /\ phis' = phis \cup {<<Head(todo).a, block>>}
  /\ todo' = Tail(todo)
  /\ UNCHANGED <<counts, created, entry, layout, open, successors, block,
                 stacks, nest, failed>>

InsertBlocksCall ==
  /\ \/ /\ Is("pushInsert")
        /\ insert_blocks' = Append(insert_blocks, Head(todo).a)
     \/ /\ Is("popInsert")
        /\ insert_blocks' = Front(insert_blocks)
  /\ todo' = Tail(todo)
  /\ UNCHANGED <<counts, graph, block, loops, for_loop_incrementor, nest, failed>>

PushIncrementorCall ==
  /\ Is("incrementor")
  /\ for_loop_incrementor' = Append(for_loop_incrementor, Head(todo).a)
  /\ todo' = Tail(todo)
  /\ UNCHANGED <<counts, graph, block, insert_blocks, loops, nest, failed>>

\* End of a loop.  The generator does nothing here: loops and
\* for_loop_incrementor keep the entries of the loop.
LeaveLoopCall ==
  /\ Is("leave")
  /\ nest' = [k \in 1 .. Len(nest) - 1 |-> [nest[k] EXCEPT !.clean = FALSE]]
  /\ todo' = Tail(todo)
  /\ UNCHANGED <<counts, graph, block, stacks, failed>>

----------------------------------------------------------------------------
(* Functions                                                               *)

visitFunDef ==
  /\ todo = <<>> /\ ~ failed /\ functions < MaxFunctions
  /\ functions' = functions + 1
  /\ created' = Fresh(1)
  /\ entry' = Fresh(1)
  /\ layout' = <<Fresh(1)>>
  /\ open' = {Fresh(1)}
  /\ successors' = Append(successors, {})
  /\ phis' = {}
  /\ block' = Fresh(1)
  /\ todo' = Statements \o FinishFunction
  /\ UNCHANGED <<statements, lazies, stacks, nest, failed>>

\* A body that does not end with a return belongs to a void function, which
\* gets its return here.
FinishFunDef ==
  /\ Is("finish")
  /\ open' = open \ {block}
  /\ todo' = Tail(todo)
  /\ UNCHANGED <<counts, created, entry, layout, successors, phis, block,
                 stacks, nest, failed>>

Init ==
  /\ functions = 0 /\ statements = 0 /\ lazies = 0
  /\ created = 0 /\ entry = 0 /\ layout = <<>> /\ open = {}
  /\ successors = <<>> /\ phis = {} /\ block = 0
  /\ insert_blocks = <<>> /\ loops = <<>> /\ for_loop_incrementor = <<Empty>>
  /\ todo = <<>> /\ nest = <<>> /\ failed = FALSE

Finished ==
  /\ todo = <<>> /\ (failed \/ functions = MaxFunctions)
  /\ UNCHANGED vars

VisitStatement ==
  \/ visitIf \/ visitIfElse
  \/ visitDoWhile \/ visitWhile \/ visitWhileFor
  \/ visitBreak \/ visitContinue
  \/ visitReturn \/ visitTerminatingReturn
  \/ visitExpressionStatement
  \/ EndStatements

Next ==
  \/ visitFunDef \/ FinishFunDef
  \/ VisitStatement
  \/ lazy_conditional \/ EndExpression
  \/ TerminatorCall \/ PositionCall \/ NewBlockCall \/ AddIncomingCall
  \/ InsertBlocksCall \/ PushIncrementorCall \/ LeaveLoopCall
  \/ Finished

Spec == Init /\ [][Next]_vars

----------------------------------------------------------------------------
(* Properties                                                              *)

(* Types of the generator's state.                                         *)
TypeOK ==
  /\ functions \in 0 .. MaxFunctions
  /\ statements \in 0 .. MaxStatements
  /\ lazies \in 0 .. MaxLazy
  /\ created \in Nat
  /\ entry \in 0 .. created
  /\ layout \in Seq(Blocks)
  /\ open \subseteq Blocks
  /\ successors \in [Blocks -> SUBSET Blocks]
  /\ phis \subseteq Blocks \X Blocks
  /\ block \in 0 .. created
  /\ insert_blocks \in Seq(Blocks)
  /\ loops \in Seq(Blocks \X Blocks)
  /\ for_loop_incrementor \in Seq(0 .. created)
  /\ failed \in BOOLEAN

(* The state between two functions, after the first.                       *)
FunctionDone == todo = <<>> /\ functions > 0 /\ ~ failed

(* A statement or an expression is about to be visited.                    *)
AtNode == Is("stmts") \/ Is("expr")

(* No visit method terminates a block twice: llvmlite's assertion never    *)
(* fails, whatever statements and returns are nested (visitIf branches to  *)
(* its end block without looking, irgen.py:151 and 157).  And code is      *)
(* never added to a block that has its terminator: what follows a break, a *)
(* continue or a return has a block to go to.                              *)
NoAssertionFails ==
  /\ TypeOK
  /\ ~ failed
  /\ AtNode => block \in open

(* A finished function is what LLVM's verifier wants: each block has a     *)
(* terminator, and the incoming blocks of each phi are its predecessors,   *)
(* however deeply && and || are nested (lazy_conditional).                 *)
Predecessors(b) == {c \in Blocks : b \in successors[c]}
VerifierAccepts ==
  FunctionDone =>
    /\ open = {}
    /\ \A pair \in phis :
         {c \in Blocks : <<pair[1], c>> \in phis} = Predecessors(pair[1])

(* What visit_before promises: all code goes before the insert block.  The *)
(* block being filled lies before the newest insert block, and each insert *)
(* block before the older ones; between functions there is none.           *)
CodeBeforeInsertBlocks ==
  /\ AtNode /\ insert_blocks # <<>> => Place(block) < Place(Last(insert_blocks))
  /\ \A k, l \in DOMAIN insert_blocks :
       k < l => Place(insert_blocks[l]) < Place(insert_blocks[k])
  /\ FunctionDone => insert_blocks = <<>>

(* A break or continue that the next statement could be.                   *)
AtJump == Is("stmts") /\ nest # <<>>

(* Until a loop inside it has been visited, a loop's break leaves that     *)
(* loop and, unless it is a do-while loop, its continue goes on with it:   *)
(* with the increment of a for loop, with the condition of a while loop.   *)
(* (visitDoWhile pushes no increment, so a do-while loop after the start   *)
(* of a for loop continues with that one's, although the test              *)
(* do_while_continue expects its own condition.  After an inner loop break *)
(* leaves that one, although while-break.fc expects it to leave its own.)  *)
JumpsRightBeforeInnerLoop ==
  AtJump /\ Last(nest).clean =>
    /\ BreakTarget = Last(nest).end
    /\ Last(nest).kind # "dowhile"
         => ContinueTarget = Last(nest).continueAt

============================================================================
