# Verification of the FenneC compiler framework

TLA+ models of the compiler in this repository, the TLC runs that check them,
and theorems about them that TLAPS proves. Paths below are relative to `src/`.

## 1. Inventory

The framework compiles FenneC, a small C-like language, in stages that pass one
data structure on: `frontend/main.py` parses a file, desugars, binds names,
checks types and generates LLVM IR with llvmlite; the IR is then run through
passes in `llvm-passes/` and linked with `runtime/`. Every stage is sequential;
nothing is persisted but output files and what tests generate. What makes
the code hard is the *order* in which a stage looks at things: stacks that must
be pushed and popped around recursive visits, worklists over cyclic graphs,
a graph changed while it is walked, members that survive from one function to
the next, and arithmetic at its boundaries.

| component | state it keeps | operations | must guarantee |
|---|---|---|---|
| lexer `frontend/lexer.py` | state (initial, string, comment), string buffer, line | one rule per token | every symbol is in the token the text says; values and positions are right |
| parser, AST `frontend/parser.py`, `fennec_ast.py` | ply's stack of states and nodes | grammar rules, verification, printing | the tree is the program; printed, it is the same program |
| visitors `frontend/util.py` | - | `visit`, `visit_children` | every node is come to, children in order |
| desugaring `frontend/desugar.py` | - | `visitFor`, `visitModification` | the expansion evaluates what the original does, as often |
| context analysis `frontend/context.py` | stack of scopes, postponed bodies | a visit method per declaration and use | each use is bound to the innermost visible declaration |
| type checker `frontend/typecheck.py` | current function, `in_loop`, `loop_inside_loop`, annotations `ty` | a visit method per node | what IR generation assumes: types, jumps only in loops, a final return |
| IR generator `frontend/irgen.py` | builder position, `insert_blocks`, `loops`, `for_loop_incrementor`, `fns`, `vars` | a visit method per node | each block one terminator, phis that match predecessors, jumps that go where the language says |
| ADCE `llvm-passes/ADCE.cpp` | `liveSet`, two lists, `keysToRemove`, `reachableBlocks` | `runOnFunction` | only useless instructions go, none still in use; it ends; its result is true |
| constant propagation `llvm-passes/ConstProp.cpp` | `reachableBlocks`, `updated` | `runOnFunction`, `FixedPointROF` | values are preserved; everything foldable is folded; it ends |
| LICM `llvm-passes/LICM.cpp` | the loop under change | `runOnLoop` | hoisting preserves values and introduces no failure |
| bounds checker `llvm-passes/BoundsChecker.cpp`, `utils.cpp` | `sizeMap`, lists of added and replaced functions | `runOnModule`, `calcArgs`, `instrumentGeps` | each access is checked against the size of its array; callers and clones agree |
| runtime `runtime/` | - | `__coco_check_bounds` | out-of-range offsets stop the program |
| driver `frontend/main.py` | the output file | phases in order, dumps | status and output tell the truth, also to make |
| test runner `frontend/runtests.py` | generated files of a test | one method per type of test | the verdict is what the test's directory says; a program run is made of what was read |
| pass tests `llvm-passes/tests/*.sh` | - | scripts | - |

Components interact only through the tree (front end) or the IR (passes): the
type checker's acceptance is the IR generator's precondition, and LLVM's
verifier accepts the generator's result or the compiler fails. Only the driver
and the test runner meet something concurrent: the developer, who edits sources
and interrupts programs, and the files that earlier runs left behind.

The hazards of the code, each at its line, are listed in `PROJECT.json` with
the properties that cover them.

## 2. Modules

| module | models | checked by | proved in |
|---|---|---|---|
| `DefUse` | an LLVM function as kinds, operand lists and reachable blocks; what the verifier guarantees | with `ADCE` | - |
| `DeadCode` | abstract specification: any dead-code elimination that condemns instructions one by one, then erases them | `adce` (as a property) | - |
| `ADCE`, `MCADCE` | `llvm-passes/ADCE.cpp`, `runOnFunction` | `adce` | `ADCE_proofs` |
| `ConstProp` | `llvm-passes/ConstProp.cpp`, `runOnFunction` | `constprop` | `ConstProp_proofs` |
| `ControlFlow` | LLVM's control-flow graph: predecessors, dominators, paths | with `LICM`, `BoundsSizes` | - |
| `LICM`, `MCLICM` | `llvm-passes/LICM.cpp`, `runOnLoop` for every loop of a function | `licm`, `licm_division` | `LICM_proofs` |
| `BoundsSizes`, `MCBoundsSizes` | `llvm-passes/BoundsChecker.cpp`: `instrumentGeps`, `determineArraySize`, `gepOffsetAccumulator` | `bounds_sizes` | - |
| `BoundsCalls`, `MCBoundsCalls` | `BoundsChecker.cpp`: `runOnModule`, `calcArgs`, `findAndProcessCalls`; `utils.cpp` | `bounds_calls` | `BoundsCalls_proofs` |
| `Lexer` | `frontend/lexer.py`, all rules and states; columns and printed strings of `parser.py`, `fennec_ast.py` | `lexer` | `Lexer_proofs` |
| `Grammar` | the grammar of `frontend/parser.py` and the table ply makes of it | with `Parser` | - |
| `Parser`, `MCParser` | ply's loop, the trees `parser.py` builds, verification and printing in `fennec_ast.py` | `parser` | - |
| `Scopes` | `frontend/desugar.py`, `context.py`, loops and kinds in `typecheck.py`, tables in `irgen.py` | `scopes` | - |
| `Types`, `MCTypes` | types in `frontend/typecheck.py`, types of values in `irgen.py` | `types` | `Types_proofs` |
| `IRGen` | `frontend/irgen.py`, control flow | `irgen` | `IRGen_proofs` |
| `Driver`, `MCDriver` | `frontend/main.py`, `runtests.py`, the rule of `examples/Makefile` | `driver` | `Driver_proofs` |

**ADCE.** `program` is the function as given; `operands` and `present` are its
current state (`dropAllReferences` empties the former, `eraseFromParent` takes
from the latter). `liveSet[i]` is the entry of the `DenseMap`, `"none"` if it
has none. `pc` names the loop: `scan` (ADCE.cpp:34), `delete` (50), `erase`
(78), `mark` (83). An action is one iteration. The order of the scan is the
order of a depth-first walk; `keysToRemove` is filled in hash order, so `Erase`
takes any of its elements. Erasing an instruction that still has users is
undefined in LLVM (an assertion in a build that has them); the model stops in
`pc = "undefined"`. `DeadCode` is what the pass does without lists, marks and
order: it condemns instructions without effect one by one, each unused or used by a
condemned one, until none is left, and erases them. In the mapping the condemned
instructions are those marked dead (`ToDelete`), so every mark of a dead instruction is
a visible step, as is the end of the loop that sets them.

**ConstProp.** The function is its binary operators in the order of the walk;
whatever else computes a value is an unknown the rules do not look into.
`Replacement` is the cascade of rules, `Visit` one instruction, `BeginWalk` the
member `reachableBlocks` that is never cleared, so that walks after the first
enter no block. `Run` evaluates a function by the LLVM language reference, with
poison and undefined division.

**LICM.** `Spec` runs `runOnLoop` on each loop, inner loops first, as the pass
manager does: `loops` are those to come, `L` is the argument, `blocks` those of
its blocks still to visit. `at[b]` are the instructions of block `b`, in order;
`iter` holds those of the current block still to look at, as the iterator is
advanced before an instruction is moved. LLVM's analyses are computed from the
graph by `ControlFlow`; `LoopSimplified` says in which form LLVM hands it over,
`WellFormed` what its verifier guarantees of a function.
`SameEffects` executes original and result along each path of bounded length.

**BoundsSizes.** One function of phis and GEPs over a graph with a loop and a
branch. The recursion of `determineArraySize` is the stack `phis`, `sizeMap` the
phis whose size is known. An array and its size share a name. `insertAt` is the
builder's insertion point and `adds` the additions `argc + 1` made there: they
show which code ends up behind its user. A phi that is met again before its size is
known recurses for ever: `StackOverflow`. Pointers are local arrays, main's `argv`,
parameters, global strings, loads, other constants and anything else (the result of a
call). `sizeOf` is the parameter list: which parameters are sizes that
`addParamsToFunction` appended, and of which parameter. The size of a parameter is the
parameter after it (`getNextOperand`), whatever that is; behind the last one the
code reads what is no parameter, and the model stops in `pc = "undefined"`.

**BoundsCalls.** A module whose functions are parameters and calls. `frames` is
the recursion of `calcArgs`. Clones are put before their originals in the module
while `runOnModule` walks it. The order of a function's users is LLVM's: the
latest first, so calls in clones come before those in originals. Where the code
dereferences null, passes a value that is not set or makes a call that does not
fit, the model stops in `pc = "undefined"`. Calls return nothing. `site` is the place
of a call in the module as given, which tells calls of one function apart and stays
with the copies of a call in clones. `ModuleAssumption` says that the module given is
one LLVM's verifier accepts: functions are numbered, calls fit what they call.

**Lexer.** The input is a sequence of symbols; characters that all rules treat
alike are one symbol (`"n"` is any letter that is also an escape, `"1"` any octal
digit, `"marker"` a whole line marker of cpp). An action is a match of one rule;
ply's order of rules (functions first, then longest expression) is in the
guards. `Mode` is the reference: what a symbol is a part of, read one at a time.

**Grammar, Parser.** `Grammar` holds the rules as data and computes the states of
ply's automaton, with FOLLOW sets for lookaheads; the assumption
`TableUnambiguous` says that these suffice, so that ply's LALR(1) table differs
only in how late an error is noticed. Tokens that the rules treat alike are one
terminal. `Parser` runs the loop on this table. The program is chosen while it is
parsed: `Read` gives the next words, any with an entry in the table. A node is a
tuple of its class and its children, a name the place of its token. A parsed program is
then printed (`PrintProgram`) and parsed again. The reference, `ReadExpression` to
`ReadDeclarations`, reads the words without a table: it splits at the weakest
operator outside of brackets, at commas and at semicolons.

**Scopes.** Four visitors walk one tree in one order, so the tree of a
declaration is the sequence of what they come to (`tree`), and `source` the
tokens as written. A statement is chosen when context analysis comes to it, in
its desugared form: `visitFor` gives what the expanded loop makes a visitor come
to. A node is the place of its token; the three uses of a loop's variable share
one, as in `desugar.py`. `scopes` is the stack of tables, `in_loop`,
`loop_inside_loop` the type checker's state, `outer` the local variables of its
active visits, `fns` and `globalsAndLocals` the tables of the IR generator. The
reference the properties compare with is written over `source` alone. Types are
in `Types`; a conditional is scoped as a block.

**Types.** Checker and generator visit the children of a node before they look
at it, so `stack` holds the finished expressions that wait for their parent, each
with the checker's type (`ty`) and the LLVM type of the generator's value (`val`).
An action is the visit of one node by both. llvmlite and LLVM's parser fail on
operands of the wrong types: the value is then `Broken`, and in the code an
exception. `sound` records what the checker should have rejected and did not.
A compound assignment visits the node of its reference twice (`Modify`): the form
`"operation"` is that of an expression that cannot be visited again, as its operands
have been replaced by values. So
every tree is covered, whatever its size, as long as no more than `MaxStack` expressions
wait at a time.

**IRGen.** The generator is a recursive walk; the calls the active visit methods
have still to make are the sequence `todo`, and visiting a node replaces its head
by the calls of its visit method. So the order of calls in the source is the
order in the sequence, and all programs are explored without building a tree.
`insert_blocks`, `loops`, `for_loop_incrementor` are the stacks of the code,
with their missing pops. `nest` is a history variable: the loops that really are
around the current statement.

**Driver.** What the phases make of a source is its *fate*: the first phase that
fails, in itself or in the verification after it, with a reported error or any
other exception. `Main` opens the output and reads the source, `MainEnds` reports a
failure or dumps. `SaveModule` begins to write; what is buffered reaches the file in
parts (`Write`), bitcode until `save_module` closes it, text also while the program
exits, and either can fail or be interrupted (`SaveFails`, `Exit`,
`ExitInterrupted`). In between, and at any other time, the
developer edits (`Edit`) or interrupts. `target` is the version an output is the
module of, or `Empty`, `Missing` or `Partial`; `newer` is the comparison of
time stamps that make does. A test goes through the states `compiling`,
`assembling`, `linking`, `running`; `disk` says of which versions of which
sources a file is made, so that a stale file shows.

How they compose: `Lexer`'s tokens are `Parser`'s words, `Parser`'s trees are what
`Scopes` walks, `Scopes` binds the uses that `Types` takes as declarations,
`Types`' accepted statements are what `IRGen` is given; each module assumes of its input
what the one before it guarantees, and says so in its header. `Driver` only sees
whether each of them fails.

Each module also holds, next to a definition, forms of it changed as a bug
would change it ("Mutant"); each property is known to fail for one of them.

## 3. Runs

| run | bounds | shows |
|---|---|---|
| `adce` | all well-formed functions of 3 instructions, up to 2 operands each, the last possibly unreachable; and of 3 reachable instructions and an unreachable value, up to 1 operand each | marks, deletion, result, termination and `ImplementsDeadCode` |
| `irgen` | 2 functions, 3 statements, 2 lazy operators | the control-flow graph is well formed; which jumps go right |
| `constprop` | 2 operators, 3-bit integers, constants 0, 1, 7 (-1), one unknown | values, folding, failure, termination |
| `licm` | 3 instructions over 7 blocks: a loop with a conditional inner loop | dominance, completeness, same effects on every path |
| `licm_division` | same | counterexample to `NoNewDivision` |
| `bounds_sizes` | 3 phis and GEPs over 4 blocks; 5 parameter lists, up to 3 other pointers each | sizes and offsets on every path, recursion, where code is put |
| `bounds_calls` | main with up to 2 calls, 2 functions with up to 1 each, up to 2 parameters; and a function called twice by another one, or with its array third | sizes passed, functions checked, modules survived |
| `scopes` | 2 declarations, 3 statements and 1 use in all, 2 names | bindings; the wrong programs are rejected, no others; what fails in IR generation |
| `types` | 65 declarations, 3 waiting expressions, any size of tree | checker and generator agree; accepted statements compile |
| `lexer` | inputs of up to 5 symbols out of 11 | states, tokens, values, positions |
| `parser` | 6 phrases of expressions, 6 of statements (loops cost 2), 6 of what is assigned to, 4 of any words, 7 of declarations; what only closes something is free | trees; printing and parsing again |
| `driver` | 2 sources of 2 versions each, 5 fates, 13 tests, the options that matter | output and exit status, programs tested, verdicts |

Four instructions hold a chain of uses, a diamond's sharing, a cycle of phis
with an entry, and a value that only unreachable code uses, which are the cases
of ADCE's argument; the proofs need no bound. Two functions and three statements hold a
loop, an inner loop and a jump after it, and what the stacks carry from one
function to the next; two lazy operators hold nesting on either side. Two
operators hold a folded operator used by another one on either side, so that a
fold enables a rule; three bits are the least width in which the smallest
integer, its negation and a shift by more than one differ. Three statements hold
a jump after a nested loop and a definition in the body of a loop that hides its
variable. In the graph of `licm` a block of the outer loop does not dominate the
exit and an inner loop is left to the outer one; three instructions hold a chain
that is hoisted link by link. Three phis and GEPs hold a phi of a phi, a phi of
GEPs with a GEP on it, and cycles; main and two functions hold a function called
twice, by main or by one that passes its parameter on, one with an array that is not
the first parameter and is passed on, main with `argv`, and recursion.

No node takes more than three children that wait (an assignment to an element
of an expression), and calls with up to three arguments; types are compared, never
counted, so two levels of arrays stand for all (the proofs need no bound). Five
symbols hold an escaped character between quotes, a comment with a star in it, a
marker between two lines, and a line end inside each. The budgets of the parser
hold each pair of operators with a unary one and brackets around either side, an
else after two ifs with a loop between them, an index of an index, of a call and of an
operator, an assignment to an element of an operator's value, and a function with two
parameters. The parameter lists are none, an array without a size, an array and its
size, two arrays and the size of the first, and main's. Two sources hold a group of tests
whose second file fails, and two versions a file left from the first one.

One run is expected to find a violation, where the code says what it does not do:
the finding of `PROJECT.json`.

Other deviations from what one would expect are written into the passing
properties as their exceptions, so that the run shows there are no others:

| property | exception | code |
|---|---|---|
| `UndefinedOnlyIfShared` (`ADCE`) | an operand that a live and an unused instruction share is marked dead and erased while in use; tests/adce/live_store.ll and fun_ret.ll expect such operands to stay | ADCE.cpp:56 |
| `JumpsRightBeforeInnerLoop` (`IRGen`) | after an inner loop, break and continue go to that loop, although test/irgen/run/while-break.fc expects a break to leave its own; in a do-while loop inside a for loop, continue goes to the increment of the for loop | irgen.py:236, :222 |
| `NothingLeftToFold` (`ConstProp`) | the negations the pass inserts: the rule that made one still applies to it, and would make another | ConstProp.cpp:168, :165 |
| `PreservesOtherValues` (`ConstProp`) | `1 urem x` becomes 1 also for `x = 1` | ConstProp.cpp:258 |
| `OffsetsExactUnlessMerged` (`BoundsSizes`) | a phi of GEPs: the indices before it are not part of the offset | BoundsChecker.cpp:130 |
| `OverflowOnlyOnCycles` (`BoundsSizes`) | phis on a cycle through another phi or a GEP: endless recursion | BoundsChecker.cpp:117 |
| `SizesExact` (`BoundsSizes`) | a parameter that is not followed by its size: the next parameter is taken for it; other constants: 1; results of calls: 0; and the size of `argv`, unless it is for a GEP on a GEP: code is put where the builder happens to be | BoundsChecker.cpp:47, :72, :124, :82 |
| `SizesAgree` (`BoundsCalls`) | an array parameter passed on: clone and original are both called; the size passed is the caller's second parameter, whatever parameter its array is; with two calls of one function, one with a local array and one with its own parameter, the first in the clone is rewritten for the other and gets its size, although tests/boundscheck/run.sh:20 expects out-of-bound accesses to be detected | BoundsChecker.cpp:327, :285, :200 |
| `OnlyReplacedUnchecked` (`BoundsCalls`) | calls of a function after the first keep calling the original, without checks, although tests/boundscheck/run.sh expects out-of-bound accesses to be detected | BoundsChecker.cpp:331 |
| `SimpleSurvives` (`BoundsCalls`) | functions that are not called, have other parameters or arrays of characters, or are called with other arguments | BoundsChecker.cpp:243, :275, :363 |
| `BindsInnermost` (`Scopes`) | a stop expression with the name of the loop's variable is bound to it | desugar.py:21 |
| `FailsOnlyAhead` (`Scopes`) | uses of what is declared later pass all checks and end in a KeyError, although typecheck.py:9 promises a program "ready for IR generation" | irgen.py:391, :289 |
| `TypesAgree`, `AcceptedCompiles` (`Types`) | an index of a name need not be int, an argument without a parameter may be void, arrays of void[] are let pass | typecheck.py:153, :213, :105 |
| `AcceptedCompiles` (`Types`) | `a[i + 1] += 1`: op= on an element whose index is an operation; both uses of the reference are one node, which cannot be visited twice | desugar.py:51, irgen.py:122, :340 |
| `AcceptedCompiles` (`Types`) | an element of a global array assigned to; (and an index of a function ends the checker with an AttributeError, typecheck.py:156) | irgen.py:118 |
| `NothingLost` (`Lexer`) | a string that is not closed is lost without an error; a digit after a line marker's line is taken for its flag; `'a\n'` and `''` fail an assertion; octal and hexadecimal escapes are not implemented; an error that quotes a % fails itself | lexer.py:113, :212, :166, :148, util.py:133 |
| `PositionsTrue` (`Lexer`) | constants with a line end inside; the parser's columns on a first line are two less; strings with needless escapes end early | lexer.py:160, parser.py:330, :277 |
| `ParsesAsWritten` (`Parser`) | `~` and the modifications by `^`, `&`, `\|`, `<<` and `>>` are tokens but fail an assertion | parser.py:157, :230, fennec_ast.py:67 |
| `PrintsBack` (`Parser`) | `(-a)[0]` is printed as `-a[0]`, which is another tree, and in `(-a)[0] = b;` a syntax error, although fennec_ast.py:228 calls it legal source code; a float printed with an exponent cannot be read, one printed as `inf` is a name; a for loop's type is not kept | fennec_ast.py:402, :461, parser.py:304 |
| `OutputTrue` (`Driver`) | the output is truncated before anything is compiled: an error, a dump, `-v` with `-o` or an interrupt leaves an empty one that make takes to be done (the Makefile in the root uses `make -B`); stopped or failing while saving it leaves a part of the module, or all of it, with status 1; text the last flush cannot write is missing with status 0 (nobody closes the file); a source edited while it is compiled has an older module that counts as newer | main.py:78, :90, :49, :105 |
| `VerdictsTrue` (`Driver`) | an error test is also ok when an earlier phase fails, the compiler crashes, or the developer interrupts it (so that an interrupted error test counts as ok); a success test of the last phase does not verify the module | runtests.py:195, :174 |

Bounds in guards: `MaxFunctions`, `MaxStatements`, `MaxLazy` in `IRGen`,
`MaxGlobals`, `MaxStatements`, `MaxUses`, `FirstNames` in `Scopes`, `Budget` in
`Parser` and `MaxStack` in `Types` cut off the choice of further nodes, never a
call the code makes; `MaxLength` bounds the lexer's input and `MaxVersion` the
developer's edits. `FirstNames` uses that names can be exchanged. In `Driver` a
behaviour has either compilations or tests, which share no file.

`CHECK_DEADLOCK FALSE` is given where a statement, an input or a program is done
and nothing follows: `Types`, `Lexer`, `Parser`.

## 4. Fairness

`ADCE` and `ConstProp` assume weak fairness of `Next`: one thread runs the pass
to its end. The other modules state no liveness: the lexer consumes its input
and the parser its tokens, `Scopes`, `Types` and `IRGen` walk a finite tree, `LICM` a
finite function; where `BoundsChecker` may not end, the model stops and a safety
property says when; and nothing obliges the developer of `Driver` to anything.

## 5. Proofs

All results below hold for every value of the constants that the named
assumptions allow; the runs show the same properties on small instances, and
TLC also checked each inductive invariant there before it was proved.

**ADCE** (`ADCE_proofs`), for every number of instructions and every set of
well-formed functions (`NAssumption`, `ProgramsAssumption`):

- `TypeCorrect`: `Spec => []TypeOK`, which is a part of `ListsMatchMarks`.
- `PassInvariant`: the inductive invariant `TypeOK /\ ListsInv /\ PassInv`.
- `ListsCorrect`, `EraseCorrect`, `FailureOnlyIfShared`: the invariants
  `ListsMatchMarks`, `NothingNeededErased`, `UndefinedOnlyIfShared`.
- `RetCorrect`, `MarksCorrect`: the invariants `RetTellsChange`, `MarksAreExact`.
- `Refinement`: `Spec => ImplementsDeadCode`. Marking an instruction dead, in the scan
  or as an operand of a dead one, condemns it; the end of the dead loop
  is the abstract `BeginErasing`, for which `DeadInv` shows that nothing is left to
  condemn; erasing, failing and the end of the erase loop are the abstract ones;
  the rest stutters.

Why an inductive invariant: that nothing needed is erased is decided long before
the erase loop. `ScanInv` records what the scan settles (instructions with an
effect are live and stay), `UntouchedInv` that nothing is changed before the
erase loop, `JustifiedInv` that each instruction to delete is unused or an
operand of another one to delete (so an erased instruction with users left has
two of them), and `EraseInv` that what is gone has no user outside what is still
to go. `ListsInv` splits `ListsMatchMarks` by list so that each step disturbs
one part. For `MarksAreExact`, `DeadInv` and `LiveInv` say that the marks are a
closure in the making: what is marked is reached, and an operand of what is
marked is marked, waits in a list, or belongs to an instruction that does. The
closure itself is an iteration of `ClosureStep`; `Iteration` proves that it is
there and that N steps suffice. The proof of `MarksAreExact` found that its last
part was wrong for functions of more than three instructions: a value without a
mark may be used by unreachable code alone. The property now says so, and the
run has a fourth instruction.

**ConstProp** (`ConstProp_proofs`), for every width of integers, every number of
operators and unknowns, and any constants (`WidthAssumption`, `SizeAssumption`,
`ConstantsAssumption`, `OpcodesAssumption`):

- `FoldsEverything`: `Spec => []NothingLeftToFold`.
- `FailsRightly`: `Spec => []FailsOnlyOnZeroDivisor`.
- `PreservesValues`: `Spec => []PreservesOtherValues`.

`FoldInv`, the inductive invariant of the first, says that everything behind the
walk is settled: unused, or without a rule that applies. `NegInv` says of the
negations inserted that they negate no constant, so that of all rules only the one
that made them applies. One walk suffices
because no later step unsettles an instruction: operands come before their
users, and a replacement is a constant or an operand of the instruction it
replaces, so it gives an unused instruction no new user (`StaysSettled`). The other two are about executions.
`Executes` characterises `Run` by its equations (`Recursion` has the recursive
function), so that an execution need not be unfolded. `SoundInv`: in every
execution of the original that computes no unsigned `1 % 1`, what an operand is
now stands for what it was then, that is, has its value unless that was poison
(`Refines`). `ReplacementSound` shows each rule keeps that, from lemmas about
arithmetic modulo `2^Width`: words are the sums of their bits
(`BitsOfWord`), `x & 0`, `x | 0`, `x ^ 0`, shifts by 0 and of 0, divisions
by 1 and of 0. Given `SoundInv`, that the executions of both functions agree
(`ExecutionsAgree`) is an induction over the operators, in which an operator's
outcome is the better defined the better its operands are (`OperatorMonotone`).

**LICM** (`LICM_proofs`), for every flow graph in which a loop has a preheader,
exits of its own and no entry but its header, numbered in reverse post-order
(`GraphAssumption`, `LoopSimplified`), and every set of well-formed functions
over it (`FunctionsAssumption`):

- `DefinitionsDominate`: `Spec => []DefsDominateUses`.
- `HoistsEverything`: `Spec => []NothingLeftToHoist`.
- `EffectsPreserved`: `Spec => []SameEffects`.

Half of it is about graphs. `ReachableAvoiding` is an iteration; `ReachClosed` and
`ReachSmallest` say that it ends in the least set closed under edges, and from
then on only that is used. Dominance is transitive and antisymmetric
and goes up in the numbering (`DominatesInOrder`); loops that meet are one inside
the other (`LoopsNest`), so the blocks a loop has for itself are well defined
(`LoopForIs`); a block outside a loop that dominates one inside dominates the
preheader (`OutsideDominators`), and a preheader is in just the loops around its
own (`LoopOfPreheader`). With this, a move keeps definitions before uses
(`MoveKeepsOrder`): the operands come from outside the loop, so their blocks
dominate the preheader, whose end is behind all of it; and what uses the
instruction is dominated by its old block, hence by the preheader. `OrderInv`
says where the walk is: in an innermost loop of those still to run on, in a block
behind which no other visited one comes, with `iter` the end of that block.
`SettledInv` says that whatever has been looked at uses an argument or something
its loop computes. A later move does not change that: the instruction moved
would have to be an operand in the same loop, hence of an instruction behind it,
which has not been looked at; the loops around are still to come.
`EffectsInv` is stronger than `SameEffects`: after each move and on paths of any
length the function does what it did at first. `BlockRuns` and `PathRuns` give
`Execute`'s recursive functions by their equations. A single move changes no value
but that of the instruction moved (`PathAgrees`), by an induction over the path in
which two runs, before and after the move, are related at the ends of blocks
(`AgreeAfter`): the instruction's value is the same wherever its old block
dominates, which is wherever it can be read, and in the loop the new run has had
it from the preheader on, unchanged because the loop computes no operand of it
(`ListKeepsTerm`). The preheader, the old block and all other blocks have a lemma
each. The model's other kinds of instructions need no more than a value of their
own per execution; whether a division may be executed earlier is not in it.

**Types** (`Types_proofs`), for every set of declarations of any types, however
many parameters and dimensions they have, and every depth of the stack
(`DeclarationsAssumption`, `StackAssumption`):

- `TypeCorrect`: `Spec => []TypeOK`.
- `CheckerAndGeneratorAgree`: `Spec => []TypesAgree`.
- `CheckedProgramsCompile`: `Spec => []AcceptedCompiles`.

The inductive invariant is the conjunction of the three: a node's value has the
node's type because its children's values have theirs, and a statement compiles
because the values of its expressions have their types. There is a lemma for
each visit method; the arguments go from what the checker asked of the types, through
how `getty` and `load` follow pointers and arrays (`GettyType`, `Elements`), to
what llvmlite asks of the values.

**IRGen** (`IRGen_proofs`), for programs of any size and nesting
(`BoundsAssumption` only says that the bounds are numbers):

- `Invariant`: `Spec => []IndInv`.
- `AssertionsHold`, `VerifierAcceptsAll`, `CodeGoesBefore`, `JumpsCorrect`: the
  invariants `NoAssertionFails` (with `TypeOK`), `VerifierAccepts`,
  `CodeBeforeInsertBlocks`, `JumpsRightBeforeInnerLoop`.

The difficulty is that `todo` may hold the rest of any number of visit methods,
one inside the other. So the calls are given a meaning of their own. A *context*
says what matters of the state between two calls: whether the current block is
open, which other blocks wait for their code, the insert blocks, whether the block
just branched to is owed an incoming block of its phi, and whether the innermost
loop has still to push its increment. `Allowed` says what a call needs of the
context, `After` what context it leaves, and `Path` that a sequence of calls leads
from one context to another, each call allowed where it comes. Paths can be
joined and taken apart (`PathConcat`, `PathHead`) and survive new blocks
(`PathGrows`). For each visit method one lemma (`PathIf` to `PathLazy`) proves that its
calls lead from a context with some new blocks waiting to the same one without
them. The inductive invariant `IndInv` says that `todo` leads from the context of
the present state to that of a finished function, that phis have exactly their
predecessors but for the one that is owed, that insert blocks are in order in
the layout, and that the loop stacks are right as long as the innermost loop
is the last one begun. A visit keeps it by the path of its method
(`VisitKeepsInv`), a call because it was allowed (`FirstCall`); the position of
blocks is preserved because blocks are added before an insert block only
(`AddedLayout`).

**Lexer** (`Lexer_proofs`), for inputs of any length (`LengthAssumption` only says
that the bound is a number):

- `StatesCorrect`, `ValuesCorrect`, `PositionsCorrect`, `NothingIsLost`: the
  invariants `StatesExact`, `ValuesExact`, `PositionsTrue`, `NothingLost`.

The lexer reads a run of symbols at a time and looks one symbol ahead, while
`Mode` takes a symbol at a time; so `StateInv` (`Reads`) relates the lexer's state
both to the mode of what was read and to what may follow: a slash is left
alone only when no `/` or `*` follows, and a line comment only at the end of its
line. `ValueInv` adds that the buffer of an open constant is what the text since its
quote stands for (`ReadsTo`), so a closed one has the right value; that printing a
value gives a text that reads as this value again (`PrintedReadsBack`) is an
induction over the value's length. `PositionInv` adds that the line and the last
line end are the true ones unless the flags of a marker swallowed one
(`LineInv`), that no marker is taken inside a constant, and that a string prints as
long as its text while its escapes are those that printing puts back. `CompleteInv`
adds that tokens are in order and apart (`OrderInv`), that a symbol behind the
lexer belongs to a token exactly when its mode says so (`CoverInv`), which symbols
begin a token and cannot follow it (`TokenEdges`), and in which state the lexer
stopped (`StopInv`). `Mode` and the flattening of sequences are recursive functions;
`Recursion` gives their equations.

**Driver** (`Driver_proofs`), for any files, fates, command lines, tests and any
number of edits (`FatesAssumption`, `MaxVersionAssumption`,
`ArgumentsAssumption`, `TestsAssumption`):

- `OutputCorrect`, `RunsCorrect`, `VerdictsCorrect`: the invariants `OutputTrue`,
  `RunsWhatWasRead`, `VerdictsTrue`.

`OutputInv` adds that the output of a compilation that runs, and has not begun to
save, is empty, and that bitcode that was closed without an error is whole; `RunInv`
that a run test has compiled the files it has read, that an object on its list is
made of what was read of its file, and that at most the file being assembled
has none; `VerdictInv` that nothing wrong has been read by a run test that still
works.

**BoundsCalls** (`BoundsCalls_proofs`), for modules of any number of functions,
parameters and calls, in any order (`ModuleAssumption`):

- `CallsTypeOK`: `Spec => []TypeOK`, so every call fits what it calls.
- `CallsSizesAgree`, `CallsOnlyReplacedUnchecked`, `CallsSimpleSurvives`: the
  invariants `SizesAgree`, `OnlyReplacedUnchecked`, `SimpleSurvives`.

`CallsInv` is about calls and about the recursion of `calcArgs`. Of calls
(`ModuleInv`): each stands for one of the module as given and is that call until
its function is replaced (`Stands`); the calls of a function were all made by one
function of the given module (`OneOrigin`), clones with it; nothing calls a
clone before it has replaced its function; a call of a clone passes its own array's
size or is one of the exceptions (`OwnSize`). Of the stack: functions on it are
different and their clones came one after the other (`Ordered`); each frame below
the top has a clone and waits for the function above it, which calls its own with
a parameter (`WaitsFor`); and a clone makes every call its function makes
(`Covers`). The last is why the recursion never comes back to a function
it works on, though modules may be recursive: the clone of that function makes the
call too and is taken first (`NewCaller`). `CloneKeeps`, `RewriteKeeps`, `InsertKeeps`
and `ReplaceStack` carry these through cloning and rewriting, where one call may be
put into one function and another one taken out of a second. `CourseInv` adds the walk
of `runOnModule`: all functions before the current one are instrumented or replaced
and give `calcArgs` nothing to do (`CameTo`), but for the clone just made.
`SimpleInv` follows a simple module, in which no call of `calcArgs` starts another
one and each function with an array is still called when it is come to.
The first attempt at `SizesAgree` failed in `ReplaceCallInClone`, for two reasons that
the run's modules were too small to show: a caller with two calls of one
function and one whose array is not its first parameter. Both are in the property
and in the run now, as exceptions that the code has.

The library's induction theorems take a predicate as a parameter, which the
installed provers cannot instantiate. So the proof modules that need induction
(`ADCE_proofs`, `ConstProp_proofs`, `LICM_proofs`, `Lexer_proofs`) begin with lemmas
that state it over sets (a set with 0 and the successor of each of its members has
all numbers), derived from the library's well-founded induction, and with the existence of
an iterated function (`Iteration`) or of a recursive one whose step knows the
number it is at (`Recursion`).

Only model-checked: `Terminates` of `ADCE` and of `ConstProp` (liveness under
fairness is outside the prover), and the properties of `BoundsSizes`, `Scopes` and
`Parser`. `NoNewDivision` of `LICM` does not hold (section 3). `Parser`
declares RECURSIVE operators (trees are printed and read recursively), which no
theorem reaches.

## 6. Plan

Done: the four passes, with the abstract specification of ADCE and proofs about
ADCE, constant propagation, code motion and the bounds checker's clones; the whole front end, with proofs about
its lexer, its control-flow graphs, its types, its driver and its test runner.
Next, in this order:

1. Proofs: `Scopes` (`FailsOnlyAhead`), `BoundsSizes` (`OverflowOnlyOnCycles`).
2. Abstract specifications: a function's meaning under `LICM` as a stuttering
   refinement; scoping as a relation that `Scopes` implements.
3. `Scopes`: how often expanded expressions are evaluated; results of calls in
   `BoundsCalls`; integers of several widths in `ConstProp`.

Not modelled: locations of nodes but those of `Lexer` and the layout of error
messages (text), linkage and names of strings (no property depends on them), which files are tests (`runtests.py:232-277`, a directory listing), the
pass tests (scripts without state), the runtime (one comparison), example passes
(they print), example programs, build files, editor support.
