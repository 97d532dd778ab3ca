------------------------------- MODULE Driver -------------------------------
(***************************************************************************)
(* The programs around the phases: src/frontend/main.py, as a user or      *)
(* examples/Makefile run it, and the test runner src/frontend/runtests.py. *)
(*                                                                         *)
(* What the phases make of a source is its fate: the first thing that      *)
(* fails.  The developer edits sources at any time, and may interrupt      *)
(* whatever runs.                                                          *)
(***************************************************************************)
EXTENDS Integers, FiniteSets

all_phases == <<"preprocess", "parser", "desugar", "context", "typecheck", "irgen">>
irgen == 6
(* A fate: the phase that fails, itself or in the verification after it,   *)
(* with an error that is reported or with any other exception.  What the   *)
(* preprocessor gives is not verified.                                     *)
Fate ==
  {f \in [phase : 1..7, part : {"run", "verify"}, kind : {"error", "crash"}] :
     f.phase = 1 => f.part = "run"}
Fine(fate) == fate.phase > irgen

CONSTANTS
  Files,        \* the sources
  Fates,        \* their possible fates,
  MaxVersion,   \* bound: edits of a source
  Arguments,    \* of main.py,
  Tests         \* type is the directory the test is in

TestTypes == {"success", "error", "dump", "run", "run-group"}

ASSUME FatesAssumption == Fates \subseteq Fate
ASSUME MaxVersionAssumption == MaxVersion \in Nat \ {0}
ASSUME ArgumentsAssumption ==
  Arguments \subseteq [dump_after : 0..6, cpp : BOOLEAN, verbose : BOOLEAN, named : BOOLEAN,
                       emit_bc : BOOLEAN]
(* A set of files is none of them.                                         *)
ASSUME TestsAssumption ==
  \A t \in Tests : /\ t \in [type : TestTypes, phase : 1..6, files : SUBSET Files]
                   /\ t.files \notin Files

VARIABLES
  version, fate,   \* of each source
  target,          \* its output: the version it is the module of, or one of the below
  newer,           \* is it newer than the source?
  overtaken,       \* (history) sources edited while they were last compiled
  main,            \* the compilation that runs, or the last one
  test,            \* the test that runs, or the last one
  disk             \* the files that tests make, and from what

vars == <<version, fate, target, newer, overtaken, main, test, disk>>
Empty == 0
Missing == -1
Partial == -2    \* the beginning of a module
sources == <<version, fate>>
made == <<target, newer, overtaken>>

----------------------------------------------------------------------------
(* main.py                                                                 *)

(* When things happen: a phase, its dump, its verification (save_module    *)
(* verifies the module).  Without the preprocessor there is no dump of it. *)
FailsAt(f) == IF f.part = "run" THEN 4 * f.phase ELSE 4 * f.phase + 2
Dumps(args) == args.dump_after > (IF args.cpp THEN 0 ELSE 1)
Outcome(f, args) ==
  LET fails == ~Fine(f) /\ (f.phase = 1 => args.cpp)
  IN CASE fails /\ (Dumps(args) => FailsAt(f) < 4 * args.dump_after + 1) -> f.kind
       [] Dumps(args) /\ (fails => FailsAt(f) > 4 * args.dump_after + 1) -> "dumped"
       [] ~fails /\ ~Dumps(args) -> "saved"

(* Mutant: the handler of reported errors does not exit.                   *)
StatusZero(outcome) ==
  IF outcome \in {"crash", "interrupted", "unwritten"} THEN 1 ELSE 0
Status(outcome) ==
  IF outcome \in {"error", "crash", "interrupted", "unwritten"} THEN 1 ELSE 0

(* The two share no file, so (bound) a behaviour has only one of them.     *)
MainIdle ==
  main.state \notin {"running", "saving", "exiting"} /\ test.state = "none"
TestsIdle ==
  main.state = "none" /\ test.state \notin {"compiling", "assembling", "linking", "running"}

(* The output is opened, and so truncated, at once: by argparse if it is   *)
(* named, else unless the module goes to stdout.                           *)
Main(f, args) ==
  /\ MainIdle
  /\ main' = [state |-> "running", file |-> f, args |-> args, read |-> version[f],
              fate |-> fate[f], outcome |-> "none"]
  /\ IF args.named \/ ~args.verbose
     THEN target' = [target EXCEPT ![f] = Empty] /\ newer' = [newer EXCEPT ![f] = TRUE]
          /\ UNCHANGED overtaken
     ELSE UNCHANGED made
  /\ UNCHANGED <<sources, test, disk>>

(* The rule of the Makefile, and a target that make takes to be done.      *)
MakeArguments ==
  [dump_after |-> 0, cpp |-> TRUE, verbose |-> FALSE, named |-> TRUE, emit_bc |-> FALSE]
Make(f) == ~newer[f] /\ Main(f, MakeArguments)
UpToDate(f) ==
  /\ MainIdle /\ newer[f]
  /\ main' = [main EXCEPT !.state = "up to date", !.file = f]
  /\ UNCHANGED <<sources, made, test, disk>>

(* With -v, the module goes to stdout.                                     *)
Saves == Outcome(main.fate, main.args) = "saved" /\ ~main.args.verbose
MainBecomes(state, outcome) == main' = [main EXCEPT !.state = state, !.outcome = outcome]

MainEnds ==
  /\ main.state = "running" /\ ~Saves
  /\ MainBecomes("ended", Outcome(main.fate, main.args))
  /\ UNCHANGED <<sources, made, test, disk>>

(* The target is .PRECIOUS: make does not remove it.                       *)
MainInterrupted ==
  /\ main.state = "running" /\ MainBecomes("ended", "interrupted")
  /\ UNCHANGED <<sources, made, test, disk>>

SaveModule ==
  /\ main.state = "running" /\ Saves /\ MainBecomes("saving", "none")
  /\ UNCHANGED <<sources, made, test, disk>>

(* The output is buffered, so it reaches the file in parts: bitcode while  *)
(* save_module writes and closes it, text also when the program exits.     *)
Write(part) ==
  LET f == main.file
  IN /\ main.state \in {"saving", "exiting"}
     /\ main.state = "exiting" => ~main.args.emit_bc
     /\ target[f] # main.read /\ part \in {Partial, main.read}
     /\ target' = [target EXCEPT ![f] = part]
     /\ newer' = [newer EXCEPT ![f] = TRUE]
     /\ overtaken' = IF main.read = version[f] THEN overtaken \ {f} ELSE overtaken \cup {f}
     /\ UNCHANGED <<sources, main, test, disk>>
Saved ==
  /\ main.state = "saving" /\ MainBecomes("exiting", "saved")
  /\ main.args.emit_bc => target[main.file] = main.read
  /\ UNCHANGED <<sources, made, test, disk>>

(* An IOError, that is reported, or an interrupt.  What is buffered may    *)
(* still be written when the program exits.                                *)
SaveFails ==
  /\ main.state = "saving" /\ MainBecomes("exiting", "unwritten")
  /\ UNCHANGED <<sources, made, test, disk>>

(* Nothing asks whether the rest could be written: the status stays.       *)
Exit ==
  /\ main.state = "exiting"
  /\ MainBecomes("ended", IF main.outcome = "saved" /\ target[main.file] # main.read
                          THEN "lost" ELSE main.outcome)
  /\ UNCHANGED <<sources, made, test, disk>>
ExitInterrupted ==
  /\ main.state = "exiting" /\ MainBecomes("ended", "unwritten")
  /\ UNCHANGED <<sources, made, test, disk>>

----------------------------------------------------------------------------
(* runtests.py: one test.  A file on the disk is the set of the versions   *)
(* it is made of, {} if there is none.                                     *)

Paths == (Files \X {".ll", ".o"}) \cup ({t.files : t \in Tests} \X {"", ".run"})

(* Mutant: a tree is returned before it is verified.                       *)
StopsEarly(phase) == 4 * phase + 1
StopsAt(phase) == IF phase \in {1, irgen} THEN 4 * phase + 1 ELSE 4 * phase + 3
(* compile_fennec gives a value unless something fails before.             *)
Compiles(f, stop) == Fine(f) \/ StopsAt(stop) < FailsAt(f)

Runs(t) == t.type \in {"run", "run-group"}

(* A run test of another phase, or of no file, ends the whole run.         *)
NoTest(t) == Runs(t) /\ (t.phase # irgen \/ t.files = {})
StartTest(t) ==
  /\ TestsIdle
  /\ test' = [state |-> IF NoTest(t) THEN "aborted" ELSE "compiling",
              case |-> t, todo |-> t.files, read |-> {},
              generated |-> {}, fates |-> {}, interrupted |-> FALSE, output |-> {}]
  /\ UNCHANGED <<sources, made, main, disk>>

Ends(state, changes) == test' = [changes EXCEPT !.state = state]
(* A test that is ok removes what it has generated.                        *)
Succeeds(changes) ==
  /\ Ends("ok", changes)
  /\ disk' = [p \in Paths |-> IF p \in changes.generated THEN {} ELSE disk[p]]
Fails(changes) == Ends("failed", changes) /\ UNCHANGED disk

Reads(f) ==
  [test EXCEPT !.read = @ \cup {<<f, version[f]>>}, !.fates = @ \cup {fate[f]}]

(* test_success, test_error and test_dump; a tree may not print as it      *)
(* should.                                                                 *)
CheckCompile(f) ==
  LET compiles == Compiles(fate[f], test.case.phase)
  IN /\ test.state = "compiling" /\ f \in test.todo /\ ~Runs(test.case)
     /\ CASE test.case.type = "success" ->
               IF compiles THEN Succeeds(Reads(f)) ELSE Fails(Reads(f))
          [] test.case.type = "error" ->
               IF compiles THEN Fails(Reads(f)) ELSE Succeeds(Reads(f))
          [] test.case.type = "dump" ->
               \/ compiles /\ Succeeds(Reads(f))
               \/ Fails(Reads(f))
     /\ UNCHANGED <<sources, made, main>>

(* test_run and test_run_group: each file to a module and its .ll, which   *)
(* is not removed when it is not or only partly written, ...               *)
Wrote(f) == disk' = [disk EXCEPT ![<<f, ".ll">>] = {<<f, version[f]>>}]
CompileFennec(f) ==
  /\ test.state = "compiling" /\ f \in test.todo /\ Runs(test.case)
  /\ \/ ~Fine(fate[f]) /\ Fails(Reads(f))
     \/ /\ Fine(fate[f]) /\ Wrote(f)
        /\ Ends("assembling", [Reads(f) EXCEPT !.todo = @ \ {f},
                                               !.generated = @ \cup {<<f, ".ll">>}])
     \/ /\ Fine(fate[f]) /\ (Wrote(f) \/ UNCHANGED disk)
        /\ Ends("failed", Reads(f))
  /\ UNCHANGED <<sources, made, main>>

(* An interrupt in compile_fennec is taken for a crash of the compiler.    *)
CompileInterrupted ==
  /\ test.state = "compiling"
  /\ LET changes == [test EXCEPT !.interrupted = TRUE]
     IN \/ test.case.type = "error" /\ Succeeds(changes)
        \/ test.case.type # "error" /\ Fails(changes)
        \/ /\ Runs(test.case) /\ Ends("failed", changes)
           /\ \E f \in test.todo : Wrote(f)
  /\ UNCHANGED <<sources, made, main>>

(* ... by llc to an object, that a failing llc removes, or leaves as it    *)
(* was, ...                                                                *)
(* Mutant: the result of llc is not looked at.                             *)
AssembledAnyway(f, succeeds) == TRUE
Assembled(f, succeeds) == succeeds
CompileLlvm(f, succeeds) ==
  LET after == [test EXCEPT !.generated = @ \cup {<<f, ".o">>}]
      module == {v \in test.read : v[1] = f}
  IN /\ test.state = "assembling" /\ <<f, ".ll">> \in test.generated
     /\ <<f, ".o">> \notin test.generated
     /\ IF Assembled(f, succeeds)
        THEN /\ Ends(IF test.todo = {} THEN "linking" ELSE "compiling", after)
        ELSE Ends("failed", after)
     /\ IF succeeds THEN disk' = [disk EXCEPT ![<<f, ".o">>] = module]
        ELSE disk' \in {disk, [disk EXCEPT ![<<f, ".o">>] = {}]}
     /\ UNCHANGED <<sources, made, main>>

(* ... all of them by clang to a program, ...                              *)
Program == <<test.case.files, "">>
Link(succeeds) ==
  LET after == [test EXCEPT !.generated = @ \cup {Program}]
      objects == {disk[<<f, ".o">>] : f \in test.case.files}
  IN /\ test.state = "linking"
     /\ succeeds => {} \notin objects
     /\ IF succeeds
        THEN Ends("running", after) /\ disk' = [disk EXCEPT ![Program] = UNION objects]
        ELSE Ends("failed", after) /\ disk' \in {disk, [disk EXCEPT ![Program] = {}]}
     /\ UNCHANGED <<sources, made, main>>

(* ... that is run, unless it takes too long, and its output compared.     *)
Output == <<test.case.files, ".run">>
RunBinary(equal) ==
  LET after == [test EXCEPT !.generated = @ \cup {Output}, !.output = disk[Program]]
      written == [disk EXCEPT ![Output] = disk[Program]]
  IN /\ test.state = "running"
     /\ IF equal
        THEN /\ Ends("ok", after)
             /\ disk' = [p \in Paths |-> IF p \in after.generated THEN {} ELSE written[p]]
        ELSE Ends("failed", after) /\ disk' = written
     /\ UNCHANGED <<sources, made, main>>
TimeoutExpired ==
  /\ test.state = "running" /\ Fails(test)
  /\ UNCHANGED <<sources, made, main>>

(* An interrupt elsewhere, a tool that is not there or output that is not  *)
(* ASCII (when it has been written) end the whole run.                     *)
Aborts ==
  /\ test.state \in {"assembling", "linking", "running"}
  /\ Ends("aborted", test)
  /\ \/ UNCHANGED disk
     \/ test.state = "running" /\ disk' = [disk EXCEPT ![Output] = disk[Program]]
  /\ UNCHANGED <<sources, made, main>>

----------------------------------------------------------------------------
(* The developer                                                           *)

Edit(f) ==
  /\ version[f] < MaxVersion
  /\ version' = [version EXCEPT ![f] = @ + 1]
  /\ \E new \in Fates : fate' = [fate EXCEPT ![f] = new]
  /\ newer' = [newer EXCEPT ![f] = FALSE]
  /\ UNCHANGED <<target, overtaken, main, test, disk>>

Init ==
  /\ version = [f \in Files |-> 1] /\ fate \in [Files -> Fates]
  /\ target = [f \in Files |-> Missing] /\ newer = [f \in Files |-> FALSE] /\ overtaken = {}
  /\ main = [state |-> "none"] /\ test = [state |-> "none"]
  /\ disk = [p \in Paths |-> {}]

Next ==
  \/ \E f \in Files : Edit(f) \/ Make(f) \/ UpToDate(f)
  \/ \E f \in Files, args \in Arguments : Main(f, args)
  \/ MainEnds \/ MainInterrupted
  \/ SaveModule \/ Saved \/ SaveFails \/ Exit \/ ExitInterrupted
  \/ \E part \in {Partial} \cup (1..MaxVersion) : Write(part)
  \/ \E t \in Tests : StartTest(t)
  \/ \E f \in Files : CheckCompile(f) \/ CompileFennec(f)
  \/ \E f \in Files, succeeds \in BOOLEAN : CompileLlvm(f, succeeds)
  \/ \E succeeds \in BOOLEAN : Link(succeeds)
  \/ \E equal \in BOOLEAN : RunBinary(equal)
  \/ CompileInterrupted \/ TimeoutExpired \/ Aborts

Spec == Init /\ [][Next]_vars

----------------------------------------------------------------------------
(* Properties                                                              *)

TypeOK ==
  /\ version \in [Files -> 1..MaxVersion] /\ fate \in [Files -> Fates]
  /\ target \in [Files -> Partial..MaxVersion] /\ newer \in [Files -> BOOLEAN]
  /\ overtaken \subseteq Files
  /\ disk \in [Paths -> SUBSET (Files \X (1..MaxVersion))]

(* What main.py says of its output is true (main.py:40-49, :102-139), when *)
(* it was asked for neither a dump nor everything on stdout: with status 0 *)
(* the output is the module of the source that it read, and with another   *)
(* it is empty.  The exceptions: text that the last flush could not write  *)
(* is missing with status 0 (main.py:49, the file is never closed), and an *)
(* error or an interrupt after save_module began to write leaves any part  *)
(* of the module, or all of it, with another status.                       *)
(* And an output newer than its source, which make does not build again,   *)
(* is the module of the source as it is, or a part, or empty: it was       *)
(* opened before anything was compiled (main.py:78, :90), and an error, a  *)
(* dump, -v or an interrupt left it.  Only a source edited while it is     *)
(* compiled has an older module that counts as newer.                      *)
OutputTrue ==
  /\ TypeOK
  /\ main.state = "ended" /\ ~Dumps(main.args) /\ ~main.args.verbose =>
       /\ Status(main.outcome) = 0 =>
            \/ target[main.file] = main.read
            \/ main.outcome = "lost" /\ ~main.args.emit_bc
       /\ Status(main.outcome) # 0 =>
            target[main.file] = Empty \/ main.outcome = "unwritten"
  /\ \A f \in Files :
       newer[f] /\ f \notin overtaken => target[f] \in {Empty, Partial, version[f]}

(* A program that a run test compares the output of is made of all its     *)
(* files, as this test read them, whatever earlier tests left behind, and  *)
(* a test that is ok leaves nothing (runtests.py:95-133, :199-229).        *)
RunsWhatWasRead ==
  test.state \in {"ok", "failed", "aborted"} /\ Runs(test.case) =>
    /\ test.output # {} => test.output = test.read /\ {v[1] : v \in test.read} = test.case.files
    /\ test.state = "ok" => \A p \in Paths :
         (p[1] \in test.case.files \/ p[1] = test.case.files) => disk[p] = {}

(* The verdict is what the directory of the test says (runtests.py:58-197):*)
(* a success test is ok when all up to its phase succeeds, an error test   *)
(* when something fails.  But what fails may also be an earlier phase, or  *)
(* crash (:195), or be an interrupt, which the handler in the main program *)
(* (:308) does not see then; and in the phase irgen the module is not      *)
(* verified (:174).                                                        *)
VerdictsTrue ==
  test.state \in {"ok", "failed"} =>
    LET ok == test.state = "ok"
        good == ~test.interrupted /\ \A f \in test.fates :
                  \/ f.phase > test.case.phase
                  \/ test.case.phase = irgen /\ f.phase = irgen /\ f.part = "verify"
    IN CASE test.case.type = "success" -> ok = good
         [] test.case.type = "error" -> ok # good
         [] test.case.type = "dump" -> ok => good
         [] OTHER -> ok => good /\ \A f \in test.fates : Fine(f)
=============================================================================
