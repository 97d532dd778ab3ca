--------------------------- MODULE Driver_proofs ----------------------------
(***************************************************************************)
(* Proofs about main.py, its use by make, and the test runner: for any     *)
(* sources, fates, command lines and tests, and any number of edits.       *)
(***************************************************************************)
EXTENDS Driver, TLAPS

Versions == Files \X (1..MaxVersion)
CommandLine ==
  [dump_after : 0..6, cpp : BOOLEAN, verbose : BOOLEAN, named : BOOLEAN, emit_bc : BOOLEAN]

(* The records that main and test are, once something was started.         *)
Compilation ==
  [state : {"running", "saving", "exiting", "ended", "up to date"}, file : Files,
   args : CommandLine, read : 1..MaxVersion, fate : Fates,
   outcome : {"none", "error", "crash", "dumped", "saved", "interrupted", "unwritten", "lost"}]
Working == {"compiling", "assembling", "linking", "running"}
TestRun ==
  [state : Working \cup {"ok", "failed", "aborted"}, case : Tests, todo : SUBSET Files,
   read : SUBSET Versions, generated : SUBSET Paths, fates : SUBSET Fates,
   interrupted : BOOLEAN, output : SUBSET Versions]

Types ==
  /\ TypeOK
  /\ main \in Compilation \/ main \in [state : {"none"}]
                          \/ main \in [state : {"up to date"}]
  /\ test \in TestRun \/ test \in [state : {"none"}]

(* The command line that make uses is one.                                 *)
LEMMA CommandLines == MakeArguments \in CommandLine /\ Arguments \subseteq CommandLine
BY ArgumentsAssumption DEF MakeArguments, CommandLine

(* The outcome of a compilation is one of four.  If nothing is to be       *)
(* dumped, the module is saved unless a phase that is run fails.           *)
LEMMA Outcomes ==
  ASSUME NEW f \in Fates, NEW args \in CommandLine
  PROVE  /\ Outcome(f, args) \in {"error", "crash", "dumped", "saved"}
         /\ ~Dumps(args) =>
              \/ Outcome(f, args) = "saved"
              \/ Outcome(f, args) \in {"error", "crash"}
<1>1. /\ f.phase \in 1..7 /\ f.kind \in {"error", "crash"}
      /\ args.dump_after \in 0..6
  BY FatesAssumption DEF Fate, CommandLine
<1>2. FailsAt(f) \in Nat /\ FailsAt(f) # 4 * args.dump_after + 1
  BY <1>1 DEF FailsAt
<1>3. Dumps(args) \in BOOLEAN
  BY DEF Dumps
<1> DEFINE fails == ~Fine(f) /\ (f.phase = 1 => args.cpp)
<1>4. CASE fails /\ (Dumps(args) => FailsAt(f) < 4 * args.dump_after + 1)
  <2>1. ~(Dumps(args) /\ (fails => FailsAt(f) > 4 * args.dump_after + 1))
    BY <1>1, <1>2, <1>4
  <2>2. Outcome(f, args) = f.kind
    BY <1>4, <2>1 DEF Outcome
  <2>3. QED
    BY <1>1, <2>2
<1>5. CASE Dumps(args) /\ (fails => FailsAt(f) > 4 * args.dump_after + 1)
  <2>1. ~(fails /\ (Dumps(args) => FailsAt(f) < 4 * args.dump_after + 1))
    BY <1>1, <1>2, <1>5
  <2>2. Outcome(f, args) = "dumped"
    BY <1>5, <2>1 DEF Outcome
  <2>3. QED
    BY <1>5, <2>2
<1>6. CASE ~fails /\ ~Dumps(args)
  BY <1>6 DEF Outcome
<1>7. QED
  BY <1>1, <1>2, <1>4, <1>5, <1>6

----------------------------------------------------------------------------
(* Types                                                                   *)

LEMMA InitTypes == Init => Types
BY MaxVersionAssumption DEF Init, Types, TypeOK, Partial, Missing

(* Reading a source, and the state a test comes to.                        *)
LEMMA ReadsType ==
  ASSUME Types, test \in TestRun, NEW f \in Files
  PROVE  Reads(f) \in TestRun
<1>1. <<f, version[f]>> \in Versions /\ fate[f] \in Fates
  BY DEF Types, TypeOK, Versions
<1>2. test.read \cup {<<f, version[f]>>} \in SUBSET Versions
      /\ test.fates \cup {fate[f]} \in SUBSET Fates
  BY <1>1 DEF TestRun
<1>3. QED
  BY <1>2 DEF TestRun, Reads

(* What a handler leaves of test, in the state it ends in.                 *)
LEMMA EndsType ==
  ASSUME NEW changes \in TestRun, NEW state \in Working \cup {"ok", "failed", "aborted"},
         Ends(state, changes)
  PROVE  test' \in TestRun /\ test' = [changes EXCEPT !.state = state]
BY DEF Ends, TestRun

(* What the actions do to the sources, to what main makes and to the disk. *)
LEMMA NextTypes == Types /\ [Next]_vars => Types'
<1> SUFFICES ASSUME Types, [Next]_vars
             PROVE  Types'
  OBVIOUS
<1> DEFINE MainType == \/ main \in Compilation \/ main \in [state : {"none"}]
                       \/ main \in [state : {"up to date"}]
           TestType == test \in TestRun \/ test \in [state : {"none"}]
           DiskType == disk \in [Paths -> SUBSET Versions]
<1>a. /\ version \in [Files -> 1..MaxVersion] /\ fate \in [Files -> Fates]
      /\ target \in [Files -> Partial..MaxVersion] /\ newer \in [Files -> BOOLEAN]
      /\ overtaken \subseteq Files
      /\ DiskType /\ MainType /\ TestType
  BY DEF Types, TypeOK, Versions
<1>b. ASSUME /\ version' \in [Files -> 1..MaxVersion] /\ fate' \in [Files -> Fates]
             /\ target' \in [Files -> Partial..MaxVersion] /\ newer' \in [Files -> BOOLEAN]
             /\ overtaken' \subseteq Files,
             DiskType', MainType', TestType'
      PROVE  Types'
  BY <1>b DEF Types, TypeOK, Versions
<1>c. MaxVersion \in Nat \ {0}
  BY MaxVersionAssumption
<1>m. ASSUME UNCHANGED main PROVE MainType'
  BY <1>a, <1>m
<1>t. ASSUME UNCHANGED test PROVE TestType'
  BY <1>a, <1>t
<1>d. ASSUME UNCHANGED disk PROVE DiskType'
  BY <1>a, <1>d
<1> HIDE DEF MainType, TestType, DiskType
<1>1. ASSUME NEW f \in Files, Edit(f)
      PROVE  Types'
  <2>1. version[f] + 1 \in 1..MaxVersion
    BY <1>1, <1>a, <1>c DEF Edit
  <2>2. version' \in [Files -> 1..MaxVersion] /\ fate' \in [Files -> Fates]
        /\ newer' \in [Files -> BOOLEAN]
    BY <1>1, <1>a, <2>1 DEF Edit
  <2>3. QED
    BY <1>1, <1>a, <1>b, <1>m, <1>t, <1>d, <2>2 DEF Edit
<1>2. ASSUME NEW f \in Files, NEW args \in CommandLine, Main(f, args)
      PROVE  Types'
  <2>1. MainType'
    <3>1. version[f] \in 1..MaxVersion /\ fate[f] \in Fates
      BY <1>a
    <3>2. main' \in Compilation
      BY <1>2, <3>1 DEF Main, Compilation
    <3>3. QED
      BY <3>2 DEF MainType
  <2>2. target' \in [Files -> Partial..MaxVersion] /\ newer' \in [Files -> BOOLEAN]
        /\ overtaken' = overtaken
    <3>1. \/ /\ target' = [target EXCEPT ![f] = Empty]
             /\ newer' = [newer EXCEPT ![f] = TRUE] /\ overtaken' = overtaken
          \/ target' = target /\ newer' = newer /\ overtaken' = overtaken
      BY <1>2 DEF Main, made
    <3>2. Empty \in Partial..MaxVersion
      BY <1>c DEF Empty, Partial
    <3>3. QED
      BY <1>a, <3>1, <3>2
  <2>3. QED
    BY <1>2, <1>a, <1>b, <1>t, <1>d, <2>1, <2>2 DEF Main, sources
<1>3. ASSUME NEW f \in Files, UpToDate(f)
      PROVE  Types'
  <2>1. MainType'
    <3>1. CASE main \in Compilation
      <4>1. main' \in Compilation
        BY <1>3, <3>1 DEF UpToDate, Compilation
      <4>2. QED
        BY <4>1 DEF MainType
    <3>2. CASE main \in [state : {"none"}] \/ main \in [state : {"up to date"}]
      <4>1. main' \in [state : {"up to date"}]
        BY <1>3, <3>2 DEF UpToDate
      <4>2. QED
        BY <4>1 DEF MainType
    <3>3. QED
      BY <1>a, <3>1, <3>2 DEF MainType
  <2>2. QED
    BY <1>3, <1>a, <1>b, <1>t, <1>d, <2>1 DEF UpToDate, sources, made
<1>r. main.state \in {"running", "saving", "exiting"} => main \in Compilation
  BY <1>a DEF MainType
<1>g. ASSUME main \in Compilation, UNCHANGED <<sources, made, test, disk>>,
             NEW state \in {"saving", "exiting", "ended"},
             NEW outcome \in {"none", "error", "crash", "dumped", "saved", "interrupted",
                             "unwritten", "lost"},
             MainBecomes(state, outcome)
      PROVE  Types'
  <2>1. main' \in Compilation
    BY <1>g DEF MainBecomes, Compilation
  <2>2. MainType'
    BY <2>1 DEF MainType
  <2>3. QED
    BY <1>g, <1>a, <1>b, <1>t, <1>d, <2>2 DEF sources, made
<1>4. CASE MainEnds
  <2>1. main \in Compilation
    BY <1>4, <1>r DEF MainEnds
  <2>2. main.fate \in Fates /\ main.args \in CommandLine
    BY <2>1 DEF Compilation
  <2>3. Outcome(main.fate, main.args) \in {"error", "crash", "dumped", "saved"}
    BY <2>2, Outcomes
  <2>4. QED
    BY <1>4, <1>g, <2>1, <2>3 DEF MainEnds
<1>5. CASE MainInterrupted \/ SaveModule \/ Saved \/ SaveFails \/ Exit \/ ExitInterrupted
  <2>1. main \in Compilation /\ UNCHANGED <<sources, made, test, disk>>
    BY <1>5, <1>r DEF MainInterrupted, SaveModule, Saved, SaveFails, Exit, ExitInterrupted
  <2>2. CASE Exit
    <3> DEFINE outcome == IF main.outcome = "saved" /\ target[main.file] # main.read
                          THEN "lost" ELSE main.outcome
    <3>1. outcome \in {"none", "error", "crash", "dumped", "saved", "interrupted",
                       "unwritten", "lost"}
      BY <2>1 DEF Compilation
    <3>2. MainBecomes("ended", outcome)
      BY <2>2 DEF Exit
    <3> HIDE DEF outcome
    <3>3. QED
      BY <1>g, <2>1, <3>1, <3>2
  <2>3. CASE ~Exit
    <3>1. \E state \in {"saving", "exiting", "ended"} :
            \E outcome \in {"none", "saved", "interrupted", "unwritten"} :
              MainBecomes(state, outcome)
      BY <1>5, <2>3 DEF MainInterrupted, SaveModule, Saved, SaveFails, ExitInterrupted
    <3>2. QED
      BY <1>g, <2>1, <3>1
  <2>4. QED
    BY <2>2, <2>3
<1>17. ASSUME NEW part \in {Partial} \cup (1..MaxVersion), Write(part)
      PROVE  Types'
  <2>1. main \in Compilation
    BY <1>17, <1>r DEF Write
  <2>2. main.file \in Files /\ part \in Partial..MaxVersion
    <3>1. main.file \in Files
      BY <2>1 DEF Compilation
    <3>2. CASE part = Partial
      BY <1>c, <3>1, <3>2 DEF Partial
    <3>3. CASE part \in 1..MaxVersion
      BY <1>c, <3>1, <3>3 DEF Partial
    <3>4. QED
      BY <3>2, <3>3
  <2>3. /\ target' = [target EXCEPT ![main.file] = part]
        /\ newer' = [newer EXCEPT ![main.file] = TRUE]
        /\ overtaken' \in {overtaken \ {main.file}, overtaken \cup {main.file}}
        /\ UNCHANGED <<sources, main, test, disk>>
    BY <1>17 DEF Write
  <2>4. target' \in [Files -> Partial..MaxVersion] /\ newer' \in [Files -> BOOLEAN]
        /\ overtaken' \subseteq Files
    BY <1>a, <2>2, <2>3
  <2>5. QED
    BY <1>a, <1>b, <1>m, <1>t, <1>d, <2>3, <2>4 DEF sources
<1>6. ASSUME NEW t \in Tests, StartTest(t)
      PROVE  Types'
  <2>1. test' \in TestRun
    <3>1. PICK state \in {"compiling", "aborted"} :
            test' = [state |-> state, case |-> t, todo |-> t.files, read |-> {},
                     generated |-> {}, fates |-> {}, interrupted |-> FALSE, output |-> {}]
      BY <1>6 DEF StartTest
    <3>2. QED
      BY <3>1, TestsAssumption DEF TestRun, Working
  <2>2. QED
    BY <1>6, <1>a, <1>b, <1>m, <1>d, <2>1 DEF StartTest, sources, made, TestType
<1>e. ASSUME UNCHANGED <<sources, made, main>>, test' \in TestRun, DiskType'
      PROVE  Types'
  BY <1>a, <1>b, <1>e, <1>m DEF sources, made, TestType
<1>w. test.state \in Working => test \in TestRun
  BY <1>a DEF TestType, Working
<1>s. ASSUME NEW changes \in TestRun, Succeeds(changes)
      PROVE  test' \in TestRun /\ DiskType'
  <2>1. test' \in TestRun
    BY <1>s, EndsType DEF Succeeds
  <2>2. DiskType'
    BY <1>s, <1>a DEF Succeeds, DiskType
  <2>3. QED
    BY <2>1, <2>2
<1>f. ASSUME NEW changes \in TestRun, Fails(changes)
      PROVE  test' \in TestRun /\ DiskType'
  BY <1>f, <1>d, EndsType DEF Fails
<1>7. ASSUME NEW f \in Files, CheckCompile(f)
      PROVE  Types'
  <2>1. test.state = "compiling" /\ ~Runs(test.case) /\ test \in TestRun
    BY <1>7, <1>w DEF CheckCompile, Working
  <2>2. Reads(f) \in TestRun
    BY <2>1, ReadsType
  <2>3. test.case.type \in {"success", "error", "dump"}
    BY <2>1, TestsAssumption DEF TestRun, Runs, TestTypes
  <2>4. Succeeds(Reads(f)) \/ Fails(Reads(f))
    BY <1>7, <2>3 DEF CheckCompile
  <2>5. QED
    BY <1>7, <1>e, <1>s, <1>f, <2>2, <2>4 DEF CheckCompile
<1>x. ASSUME NEW f \in Files, Wrote(f)
      PROVE  DiskType'
  <2>1. <<f, version[f]>> \in Versions
    BY <1>a DEF Versions
  <2>2. QED
    BY <1>x, <1>a, <2>1 DEF Wrote, DiskType
<1>8. ASSUME NEW f \in Files, CompileFennec(f)
      PROVE  Types'
  <2>1. test \in TestRun /\ Reads(f) \in TestRun
    BY <1>8, <1>w, ReadsType DEF CompileFennec, Working
  <2>2. <<f, ".ll">> \in Paths
    BY DEF Paths
  <2>3. CASE Ends("assembling", [Reads(f) EXCEPT !.todo = @ \ {f},
                                                !.generated = @ \cup {<<f, ".ll">>}])
             /\ Wrote(f)
    <3>1. [Reads(f) EXCEPT !.todo = @ \ {f}, !.generated = @ \cup {<<f, ".ll">>}] \in TestRun
      BY <2>1, <2>2 DEF TestRun
    <3>2. test' \in TestRun
      BY <2>3, <3>1, EndsType DEF Working
    <3>3. QED
      BY <1>8, <1>e, <1>x, <2>3, <3>2 DEF CompileFennec
  <2>4. CASE Ends("failed", Reads(f)) /\ (Wrote(f) \/ UNCHANGED disk)
    <3>1. test' \in TestRun
      BY <2>1, <2>4, EndsType
    <3>2. DiskType'
      BY <1>d, <1>x, <2>4
    <3>3. QED
      BY <1>8, <1>e, <3>1, <3>2 DEF CompileFennec
  <2>5. QED
    BY <1>8, <2>3, <2>4 DEF CompileFennec, Fails
<1>9. CASE CompileInterrupted
  <2> DEFINE changes == [test EXCEPT !.interrupted = TRUE]
  <2>1. test \in TestRun
    BY <1>9, <1>w DEF CompileInterrupted, Working
  <2>2. changes \in TestRun /\ test.todo \subseteq Files
    BY <2>1 DEF TestRun
  <2> HIDE DEF changes
  <2>3. \/ Succeeds(changes) \/ Fails(changes)
        \/ Ends("failed", changes) /\ \E f \in test.todo : Wrote(f)
    BY <1>9 DEF CompileInterrupted, changes
  <2>4. CASE Ends("failed", changes) /\ \E f \in test.todo : Wrote(f)
    <3>1. test' \in TestRun
      BY <2>2, <2>4, EndsType
    <3>2. QED
      BY <1>9, <1>e, <1>x, <2>2, <2>4, <3>1 DEF CompileInterrupted
  <2>5. QED
    BY <1>9, <1>e, <1>s, <1>f, <2>2, <2>3, <2>4 DEF CompileInterrupted
<1>10. ASSUME NEW f \in Files, NEW succeeds \in BOOLEAN, CompileLlvm(f, succeeds)
       PROVE  Types'
  <2> DEFINE after == [test EXCEPT !.generated = @ \cup {<<f, ".o">>}]
             module == {v \in test.read : v[1] = f}
  <2>1. test \in TestRun /\ <<f, ".o">> \in Paths
    BY <1>10, <1>w DEF CompileLlvm, Working, Paths
  <2>2. after \in TestRun /\ module \in SUBSET Versions
    BY <2>1 DEF TestRun
  <2>3. test' \in TestRun
    <3> HIDE DEF after, module
    <3>1. \E state \in {"linking", "compiling", "failed"} : Ends(state, after)
      BY <1>10 DEF CompileLlvm, after
    <3>2. QED
      BY <2>2, <3>1, EndsType DEF Working
  <2>4. DiskType'
    <3> HIDE DEF after
    <3>1. disk' = [disk EXCEPT ![<<f, ".o">>] = module] \/ disk' = disk
          \/ disk' = [disk EXCEPT ![<<f, ".o">>] = {}]
      BY <1>10 DEF CompileLlvm
    <3> HIDE DEF module
    <3>2. QED
      BY <1>a, <2>2, <3>1 DEF DiskType
  <2>5. QED
    BY <1>10, <1>e, <2>3, <2>4 DEF CompileLlvm
<1>11. ASSUME NEW succeeds \in BOOLEAN, Link(succeeds)
       PROVE  Types'
  <2> DEFINE after == [test EXCEPT !.generated = @ \cup {Program}]
             objects == {disk[<<f, ".o">>] : f \in test.case.files}
  <2>1. test \in TestRun
    BY <1>11, <1>w DEF Link, Working
  <2>2. test.case \in Tests /\ test.case.files \in SUBSET Files /\ Program \in Paths
    BY <2>1, TestsAssumption DEF TestRun, Program, Paths
  <2>3. after \in TestRun
    BY <2>1, <2>2 DEF TestRun
  <2>4. UNION objects \in SUBSET Versions
    <3>1. \A f \in test.case.files : disk[<<f, ".o">>] \in SUBSET Versions
      BY <1>a, <2>2 DEF DiskType, Paths
    <3>2. QED
      BY <3>1
  <2> HIDE DEF after, objects
  <2>5. test' \in TestRun
    <3>1. \E state \in {"running", "failed"} : Ends(state, after)
      BY <1>11 DEF Link, after
    <3>2. QED
      BY <2>3, <3>1, EndsType DEF Working
  <2>6. DiskType'
    <3>1. disk' = [disk EXCEPT ![Program] = UNION objects] \/ disk' = disk
          \/ disk' = [disk EXCEPT ![Program] = {}]
      BY <1>11 DEF Link, objects
    <3>2. QED
      BY <1>a, <2>4, <3>1 DEF DiskType
  <2>7. QED
    BY <1>11, <1>e, <2>5, <2>6 DEF Link
<1>o. ASSUME test \in TestRun
      PROVE  Program \in Paths /\ Output \in Paths /\ disk[Program] \in SUBSET Versions
  <2>1. Program \in Paths /\ Output \in Paths
    BY <1>o, TestsAssumption DEF TestRun, Program, Output, Paths
  <2>2. QED
    BY <1>a, <2>1 DEF DiskType
<1>12. ASSUME NEW equal \in BOOLEAN, RunBinary(equal)
       PROVE  Types'
  <2> DEFINE after == [test EXCEPT !.generated = @ \cup {Output}, !.output = disk[Program]]
             written == [disk EXCEPT ![Output] = disk[Program]]
  <2>1. test \in TestRun
    BY <1>12, <1>w DEF RunBinary, Working
  <2>2. after \in TestRun
    BY <1>o, <2>1 DEF TestRun
  <2>3. written \in [Paths -> SUBSET Versions]
    BY <1>a, <1>o, <2>1 DEF DiskType
  <2> HIDE DEF after, written
  <2>4. test' \in TestRun
    <3>1. \E state \in {"ok", "failed"} : Ends(state, after)
      BY <1>12 DEF RunBinary, after
    <3>2. QED
      BY <2>2, <3>1, EndsType DEF Working
  <2>5. DiskType'
    <3>1. disk' = written \/ disk' = [p \in Paths |-> IF p \in after.generated THEN {} ELSE written[p]]
      BY <1>12 DEF RunBinary, after, written
    <3>2. QED
      BY <2>3, <3>1 DEF DiskType
  <2>6. QED
    BY <1>12, <1>e, <2>4, <2>5 DEF RunBinary
<1>13. CASE TimeoutExpired
  <2>1. test \in TestRun
    BY <1>13, <1>w DEF TimeoutExpired, Working
  <2>2. QED
    BY <1>13, <1>e, <1>f, <2>1 DEF TimeoutExpired
<1>14. CASE Aborts
  <2>1. test \in TestRun
    BY <1>14, <1>w DEF Aborts, Working
  <2>2. test' \in TestRun
    BY <1>14, <2>1, EndsType DEF Aborts
  <2>3. DiskType'
    <3>1. disk' = disk \/ disk' = [disk EXCEPT ![Output] = disk[Program]]
      BY <1>14 DEF Aborts
    <3>2. QED
      BY <1>a, <1>o, <2>1, <3>1 DEF DiskType
  <2>4. QED
    BY <1>14, <1>e, <2>2, <2>3 DEF Aborts
<1>15. CASE UNCHANGED vars
  BY <1>15, <1>a, <1>b, <1>m, <1>t, <1>d DEF vars
<1>16. QED
  BY <1>1, <1>2, <1>3, <1>4, <1>5, <1>6, <1>7, <1>8, <1>9, <1>10, <1>11, <1>12,
     <1>13, <1>14, <1>15, <1>17, CommandLines DEF Next, Make

LEMMA TypesInvariant == Spec => []Types
<1>1. QED
  BY InitTypes, NextTypes, PTL DEF Spec

----------------------------------------------------------------------------
(* What main says of its output                                            *)

(* While main runs and is to write a module to a file, that file is empty, *)
(* and when it has closed a file of bitcode without an error, it is whole. *)
OutputInv ==
  /\ main.state = "running" /\ ~main.args.verbose => target[main.file] = Empty
  /\ main.state = "exiting" =>
       /\ main.outcome \in {"saved", "unwritten"}
       /\ main.outcome = "saved" /\ main.args.emit_bc => target[main.file] = main.read
  /\ OutputTrue

LEMMA InitOutput == Init => OutputInv
<1> SUFFICES ASSUME Init
             PROVE  OutputInv
  OBVIOUS
<1>1. TypeOK
  BY InitTypes DEF Types
<1>2. QED
  BY <1>1 DEF Init, OutputInv, OutputTrue

(* Only Main and Write touch the file, and Edit makes it old.              *)
LEMMA NextOutput == Types /\ OutputInv /\ [Next]_vars => OutputInv'
<1> SUFFICES ASSUME Types, OutputInv, [Next]_vars
             PROVE  OutputInv'
  OBVIOUS
<1> DEFINE Running == main.state = "running" /\ ~main.args.verbose => target[main.file] = Empty
           Exiting == main.state = "exiting" =>
                        /\ main.outcome \in {"saved", "unwritten"}
                        /\ main.outcome = "saved" /\ main.args.emit_bc =>
                             target[main.file] = main.read
           Told == main.state = "ended" /\ ~Dumps(main.args) /\ ~main.args.verbose =>
                     /\ Status(main.outcome) = 0 =>
                          \/ target[main.file] = main.read
                          \/ main.outcome = "lost" /\ ~main.args.emit_bc
                     /\ Status(main.outcome) # 0 =>
                          target[main.file] = Empty \/ main.outcome = "unwritten"
           Fresh == \A f \in Files :
                      newer[f] /\ f \notin overtaken => target[f] \in {Empty, Partial, version[f]}
<1>a. Running /\ Exiting /\ Told /\ Fresh
  <2>1. Running /\ Exiting
    BY DEF OutputInv
  <2>2. OutputTrue
    BY DEF OutputInv
  <2>3. Told
    BY ONLY <2>2 DEF OutputTrue
  <2>4. Fresh
    BY ONLY <2>2 DEF OutputTrue
  <2>5. QED
    BY <2>1, <2>3, <2>4
<1>b. ASSUME Running', Exiting', Told', Fresh'
      PROVE  OutputInv'
  <2>1. TypeOK'
    BY NextTypes DEF Types
  <2>2. QED
    BY <1>b, <2>1 DEF OutputInv, OutputTrue
<1>c. /\ version \in [Files -> 1..MaxVersion] /\ target \in [Files -> Partial..MaxVersion]
      /\ newer \in [Files -> BOOLEAN] /\ MaxVersion \in Nat
  BY MaxVersionAssumption DEF Types, TypeOK
<1>r. main.state \in {"running", "saving", "exiting"} => main \in Compilation
  BY DEF Types
<1>1. ASSUME NEW f \in Files, Edit(f)
      PROVE  OutputInv'
  <2>1. /\ UNCHANGED <<main, target, overtaken>> /\ newer' = [newer EXCEPT ![f] = FALSE]
        /\ version' = [version EXCEPT ![f] = @ + 1]
    BY <1>1 DEF Edit
  <2>2. Fresh'
    BY <1>a, <1>c, <2>1
  <2>3. QED
    BY <1>a, <1>b, <2>1, <2>2
<1>2. ASSUME NEW f \in Files, NEW args \in CommandLine, Main(f, args)
      PROVE  OutputInv'
  <2>1. /\ main'.state = "running" /\ main'.args = args /\ main'.file = f
        /\ version' = version
    BY <1>2 DEF Main, sources
  <2>2. CASE args.named \/ ~args.verbose
    <3>1. target' = [target EXCEPT ![f] = Empty] /\ newer' = [newer EXCEPT ![f] = TRUE]
          /\ overtaken' = overtaken
      BY <1>2, <2>2 DEF Main
    <3>2. QED
      BY <1>a, <1>b, <1>c, <2>1, <3>1
  <2>3. CASE ~args.named /\ args.verbose
    <3>1. target' = target /\ newer' = newer /\ overtaken' = overtaken
      BY <1>2, <2>3 DEF Main, made
    <3>2. QED
      BY <1>a, <1>b, <2>1, <2>3, <3>1
  <2>4. QED
    BY <2>2, <2>3 DEF CommandLine
<1>3. ASSUME NEW f \in Files, UpToDate(f)
      PROVE  OutputInv'
  <2>1. main'.state = "up to date"
    BY <1>3 DEF UpToDate, Types, Compilation
  <2>2. QED
    BY <1>3, <1>a, <1>b, <2>1 DEF UpToDate, sources, made
<1>g. ASSUME main \in Compilation, UNCHANGED <<sources, made>>, Exiting', Told',
             NEW state \in {"saving", "exiting", "ended"}, NEW outcome,
             MainBecomes(state, outcome)
      PROVE  OutputInv'
  <2>1. main'.state # "running"
    BY <1>g DEF MainBecomes, Compilation
  <2>2. QED
    BY <1>a, <1>b, <1>g, <2>1 DEF sources, made
<1>4. CASE MainEnds
  <2> DEFINE outcome == Outcome(main.fate, main.args)
  <2>1. main \in Compilation /\ main.state = "running"
    BY <1>4, <1>r DEF MainEnds
  <2>2. main.fate \in Fates /\ main.args \in CommandLine
    BY <2>1 DEF Compilation
  <2>3. ~Dumps(main.args) => outcome \in {"saved", "error", "crash"}
    BY <2>2, Outcomes
  <2>4. MainBecomes("ended", outcome) /\ UNCHANGED <<sources, made>>
    BY <1>4 DEF MainEnds
  <2>5. ~main.args.verbose => outcome # "saved"
    BY <1>4 DEF MainEnds, Saves
  <2> HIDE DEF outcome
  <2>6. /\ main'.state = "ended" /\ main'.outcome = outcome /\ main'.file = main.file
        /\ main'.args = main.args /\ main'.read = main.read
    BY <2>1, <2>4 DEF MainBecomes, Compilation
  <2>7. ASSUME ~Dumps(main.args), ~main.args.verbose
        PROVE  Status(outcome) # 0 /\ target'[main.file] = Empty
    BY <1>a, <2>1, <2>3, <2>4, <2>5, <2>7 DEF Status, made
  <2>8. Told' /\ Exiting'
    BY <2>6, <2>7
  <2>9. QED
    BY <1>g, <2>1, <2>4, <2>8
<1>5. CASE MainInterrupted \/ SaveModule
  <2>1. /\ main \in Compilation /\ main.state = "running" /\ UNCHANGED <<sources, made>>
        /\ MainBecomes("ended", "interrupted") \/ MainBecomes("saving", "none")
    BY <1>5, <1>r DEF MainInterrupted, SaveModule
  <2>2. /\ \/ main'.state = "ended" /\ main'.outcome = "interrupted"
           \/ main'.state = "saving"
        /\ main'.file = main.file /\ main'.args = main.args
    BY <2>1 DEF MainBecomes, Compilation
  <2>3. Told' /\ Exiting'
    BY <1>a, <2>1, <2>2 DEF Status, made
  <2>4. QED
    BY <1>g, <2>1, <2>3
<1>6. CASE Saved \/ SaveFails
  <2>1. /\ main \in Compilation /\ UNCHANGED <<sources, made>>
        /\ \/ MainBecomes("exiting", "unwritten")
           \/ /\ MainBecomes("exiting", "saved")
              /\ main.args.emit_bc => target[main.file] = main.read
    BY <1>6, <1>r DEF Saved, SaveFails
  <2>2. Told' /\ Exiting'
    BY <2>1 DEF MainBecomes, Compilation, made
  <2>3. QED
    BY <1>g, <2>1, <2>2
<1>7. CASE Exit
  <2> DEFINE outcome == IF main.outcome = "saved" /\ target[main.file] # main.read
                        THEN "lost" ELSE main.outcome
  <2>1. /\ main \in Compilation /\ main.state = "exiting" /\ UNCHANGED <<sources, made>>
        /\ MainBecomes("ended", outcome)
    BY <1>7, <1>r DEF Exit
  <2>2. \/ outcome = "saved" /\ target[main.file] = main.read
        \/ outcome = "lost" /\ ~main.args.emit_bc
        \/ outcome = "unwritten"
    BY <1>a, <2>1
  <2> HIDE DEF outcome
  <2>3. /\ main'.state = "ended" /\ main'.outcome = outcome /\ main'.file = main.file
        /\ main'.args = main.args /\ main'.read = main.read /\ target' = target
    BY <2>1 DEF MainBecomes, Compilation, made
  <2>4. /\ Status(outcome) = 0 =>
             \/ target[main.file] = main.read
             \/ outcome = "lost" /\ ~main.args.emit_bc
        /\ Status(outcome) # 0 => outcome = "unwritten"
    BY <2>2 DEF Status
  <2>5. Told' /\ Exiting'
    BY <2>3, <2>4
  <2>6. QED
    BY <1>g, <2>1, <2>5
<1>8. CASE ExitInterrupted
  <2>1. /\ main \in Compilation /\ UNCHANGED <<sources, made>>
        /\ MainBecomes("ended", "unwritten")
    BY <1>8, <1>r DEF ExitInterrupted
  <2>2. main'.state = "ended" /\ main'.outcome = "unwritten"
    BY <2>1 DEF MainBecomes, Compilation
  <2>3. Status("unwritten") # 0
    BY DEF Status
  <2>4. Told' /\ Exiting'
    BY <2>2, <2>3
  <2>5. QED
    BY <1>g, <2>1, <2>4
<1>9. ASSUME NEW part \in {Partial} \cup (1..MaxVersion), Write(part)
      PROVE  OutputInv'
  <2> DEFINE f == main.file
  <2>1. /\ main \in Compilation /\ main.state \in {"saving", "exiting"}
        /\ main.state = "exiting" => ~main.args.emit_bc
        /\ part \in {Partial, main.read} /\ main' = main /\ version' = version
        /\ target' = [target EXCEPT ![f] = part]
        /\ newer' = [newer EXCEPT ![f] = TRUE]
        /\ overtaken' = IF main.read = version[f] THEN overtaken \ {f}
                                                  ELSE overtaken \cup {f}
    BY <1>9, <1>r DEF Write, sources
  <2>2. Running' /\ Exiting' /\ Told'
    BY <1>a, <2>1
  <2>3. Fresh'
    BY <1>a, <1>c, <2>1
  <2>4. QED
    BY <1>b, <2>2, <2>3
<1>10. CASE UNCHANGED <<version, target, newer, overtaken, main>>
  BY <1>10, <1>a, <1>b
<1>11. QED
  BY <1>1, <1>2, <1>3, <1>4, <1>5, <1>6, <1>7, <1>8, <1>9, <1>10, CommandLines
     DEF Next, Make, vars, sources, made, StartTest, CheckCompile, CompileFennec,
         CompileLlvm, Link, RunBinary, CompileInterrupted, TimeoutExpired, Aborts

(* Whatever is compiled with whatever options, edited or interrupted when- *)
(* ever, and however the output reaches its file: with status 0, main has  *)
(* left the module of the source it read, unless the last flush of text    *)
(* failed; with another it has left nothing, unless it was stopped while   *)
(* saving; and what make takes to be up to date is, but for an empty or    *)
(* incomplete file or a source edited while it was compiled.               *)
THEOREM OutputCorrect == Spec => []OutputTrue
<1>1. OutputInv => OutputTrue
  BY DEF OutputInv
<1>2. QED
  BY <1>1, InitOutput, NextOutput, TypesInvariant, PTL DEF Spec

----------------------------------------------------------------------------
(* What a run test runs                                                    *)

Module(f) == {v \in test.read : v[1] = f}
Compiled == test.case.files \ test.todo

(* A run test that works has read exactly the files it has compiled, has   *)
(* the modules and then the objects of all of them on its list of files to *)
(* remove, and each object is made of what was read; only the one that is  *)
(* being assembled has none yet.                                           *)
RunInv ==
  test.state \in Working /\ Runs(test.case) =>
    /\ test.todo \subseteq test.case.files
    /\ \A v \in test.read : v[1] \in Compiled
    /\ \A f \in Compiled : /\ \E v \in test.read : v[1] = f
                           /\ <<f, ".ll">> \in test.generated
    /\ \A f \in Files :
         /\ <<f, ".ll">> \in test.generated => f \in Compiled
         /\ <<f, ".o">> \in test.generated =>
              f \in Compiled /\ disk[<<f, ".o">>] = Module(f)
    /\ test.state # "assembling" => \A f \in Compiled : <<f, ".o">> \in test.generated
    /\ \A f, g \in Compiled :
         <<f, ".o">> \notin test.generated /\ <<g, ".o">> \notin test.generated => f = g
    /\ test.state \in {"linking", "running"} => test.todo = {}
    /\ test.state = "running" => Program \in test.generated /\ disk[Program] = test.read
    /\ test.output = {}

(* The sources a case names, and the names it gives.                       *)
LEMMA Names ==
  ASSUME test \in TestRun
  PROVE  /\ test.case \in Tests /\ test.case.files \subseteq Files
         /\ test.case.files \notin Files
         /\ Program \in Paths /\ Output \in Paths /\ Program # Output
         /\ \A f \in Files : /\ <<f, ".ll">> \in Paths /\ <<f, ".o">> \in Paths
                             /\ <<f, ".o">> # Program /\ <<f, ".o">> # Output
BY TestsAssumption DEF TestRun, Program, Output, Paths

(* All that a test that ends well has to remove: nothing is left when all  *)
(* of it was generated.                                                    *)
LEMMA NothingLeft ==
  ASSUME test \in TestRun, NEW p \in Paths,
         p[1] \in test.case.files \/ p[1] = test.case.files
  PROVE  \/ \E f \in test.case.files : p = <<f, ".ll">> \/ p = <<f, ".o">>
         \/ p = Program \/ p = Output
<1>1. \A t \in Tests : t.files \notin Files
  BY TestsAssumption
<1>2. CASE p \in Files \X {".ll", ".o"}
  <2>1. p[1] \in Files /\ p = <<p[1], p[2]>> /\ p[2] \in {".ll", ".o"}
    BY <1>2
  <2>2. p[1] \in test.case.files
    BY <2>1, Names
  <2>3. QED
    BY <2>1, <2>2
<1>3. CASE p \in {t.files : t \in Tests} \X {"", ".run"}
  <2>1. p = <<p[1], p[2]>> /\ p[2] \in {"", ".run"} /\ p[1] \notin Files
    <3>1. p = <<p[1], p[2]>> /\ p[2] \in {"", ".run"} /\ p[1] \in {t.files : t \in Tests}
      <4> DEFINE S == {t.files : t \in Tests}
                 E == {"", ".run"}
      <4>1. p \in S \X E
        BY <1>3
      <4> HIDE DEF S, E
      <4>2. p = <<p[1], p[2]>> /\ p[2] \in E /\ p[1] \in S
        BY <4>1
      <4>3. QED
        BY <4>2 DEF S, E
    <3>2. QED
      BY <1>1, <3>1
  <2>2. p[1] = test.case.files
    BY <2>1, Names
  <2>3. QED
    BY <2>1, <2>2 DEF Program, Output
<1>4. QED
  BY <1>2, <1>3 DEF Paths

LEMMA InitRun == Init => RunInv /\ RunsWhatWasRead
BY DEF Init, RunInv, RunsWhatWasRead, Working

(* Every tool of a run test adds to what is made of what was read, and     *)
(* touches no object but its own.                                          *)
LEMMA NextRun ==
  Types /\ RunInv /\ RunsWhatWasRead /\ [Next]_vars => (RunInv /\ RunsWhatWasRead)'
<1> SUFFICES ASSUME Types, RunInv, RunsWhatWasRead, [Next]_vars
             PROVE  RunInv' /\ RunsWhatWasRead'
  OBVIOUS
<1>a. disk \in [Paths -> SUBSET Versions] /\ (test.state \in Working => test \in TestRun)
  BY DEF Types, TypeOK, Versions, Working
<1>n. test \in TestRun =>
        /\ test.case \in Tests /\ test.case.files \subseteq Files
        /\ test.case.files \notin Files
        /\ Program \in Paths /\ Output \in Paths /\ Program # Output
        /\ \A f \in Files : /\ <<f, ".ll">> \in Paths /\ <<f, ".o">> \in Paths
                            /\ <<f, ".o">> # Program /\ <<f, ".o">> # Output
  BY Names
<1>e. ASSUME test.state \in Working, NEW changes \in TestRun,
             NEW state \in {"ok", "failed", "aborted"}, Ends(state, changes),
             changes.case = test.case, changes.output = {}, Runs(test.case) => state # "ok"
      PROVE  RunInv' /\ RunsWhatWasRead'
  <2>1. test'.state = state /\ test'.output = {} /\ test'.case = test.case
    BY <1>e DEF Ends, TestRun
  <2>2. QED
    BY <1>e, <2>1 DEF RunInv, RunsWhatWasRead, Working
<1>r. test \in TestRun => test.read \subseteq Versions
  BY DEF TestRun
<1>1. ASSUME NEW t \in Tests, StartTest(t)
      PROVE  RunInv' /\ RunsWhatWasRead'
  <2>1. /\ test'.state \in {"compiling", "aborted"} /\ test'.case = t
        /\ test'.todo = t.files
        /\ test'.read = {} /\ test'.generated = {} /\ test'.output = {}
    BY <1>1 DEF StartTest
  <2>2. QED
    BY <2>1 DEF RunInv, RunsWhatWasRead, Compiled, Working
<1>2. ASSUME NEW f \in Files, CheckCompile(f)
      PROVE  RunInv' /\ RunsWhatWasRead'
  <2>1. test'.state \in {"ok", "failed"} /\ test'.case = test.case /\ ~Runs(test.case)
    <3>1. test \in TestRun /\ Reads(f) \in TestRun /\ ~Runs(test.case)
      BY <1>2, <1>a, ReadsType DEF CheckCompile, Working
    <3>2. test.case.type \in {"success", "error", "dump"}
      BY <3>1, TestsAssumption DEF TestRun, Runs, TestTypes
    <3>3. \E state \in {"ok", "failed"} : Ends(state, Reads(f))
      BY <1>2, <3>2 DEF CheckCompile, Succeeds, Fails
    <3>4. Reads(f).case = test.case
      BY <3>1 DEF Reads, TestRun
    <3>5. QED
      BY <3>1, <3>3, <3>4 DEF Ends, TestRun
  <2>2. QED
    BY <2>1 DEF RunInv, RunsWhatWasRead, Working
<1>3. ASSUME NEW f \in Files, CompileFennec(f)
      PROVE  RunInv' /\ RunsWhatWasRead'
  <2>1. /\ test \in TestRun /\ Reads(f) \in TestRun /\ f \in test.todo
        /\ test.state = "compiling" /\ Runs(test.case)
    BY <1>3, <1>a, ReadsType DEF CompileFennec, Working
  <2>2. /\ Reads(f).case = test.case /\ Reads(f).output = test.output
        /\ Reads(f).todo = test.todo /\ Reads(f).generated = test.generated
        /\ Reads(f).read = test.read \cup {<<f, version[f]>>}
    <3>1. /\ Reads(f).case = test.case /\ Reads(f).output = test.output
          /\ Reads(f).todo = test.todo
      BY <2>1 DEF Reads, TestRun
    <3>2. Reads(f).generated = test.generated
      BY <2>1 DEF Reads, TestRun
    <3>3. Reads(f).read = test.read \cup {<<f, version[f]>>}
      BY <2>1 DEF Reads, TestRun
    <3>4. QED
      BY <3>1, <3>2, <3>3
  <2> DEFINE step == [Reads(f) EXCEPT !.todo = @ \ {f}, !.generated = @ \cup {<<f, ".ll">>}]
  <2>6. \/ Ends("failed", Reads(f))
        \/ Ends("assembling", step) /\ Wrote(f)
    <3>1. \/ Fails(Reads(f)) \/ Ends("failed", Reads(f))
          \/ Ends("assembling", step) /\ Wrote(f)
      BY ONLY <1>3 DEF CompileFennec
    <3>2. QED
      BY ONLY <3>1 DEF Fails
  <2>3. CASE Ends("failed", Reads(f))
    <3>1. test.output = {}
      BY <2>1 DEF RunInv, Working
    <3>2. QED
      BY <1>e, <2>1, <2>2, <2>3, <3>1 DEF Working
  <2>4. CASE Ends("assembling", step) /\ Wrote(f)
    <3>1. /\ test'.state = "assembling" /\ test'.case = test.case /\ test'.output = test.output
          /\ test'.todo = test.todo \ {f} /\ test'.generated = test.generated \cup {<<f, ".ll">>}
          /\ test'.read = test.read \cup {<<f, version[f]>>}
      <4>1. Ends("assembling", step)
        BY <2>4
      <4>2. PICK r : r = Reads(f)
        OBVIOUS
      <4>3. test' = [[r EXCEPT !.todo = @ \ {f}, !.generated = @ \cup {<<f, ".ll">>}]
                     EXCEPT !.state = "assembling"]
        BY <4>1, <4>2 DEF Ends
      <4>4. r \in TestRun
        BY <2>1, <4>2
      <4>5. /\ test'.state = "assembling" /\ test'.case = r.case
            /\ test'.output = r.output /\ test'.read = r.read
            /\ test'.todo = r.todo \ {f}
            /\ test'.generated = r.generated \cup {<<f, ".ll">>}
        BY <4>3, <4>4 DEF TestRun
      <4>6. QED
        BY <2>2, <4>2, <4>5
    <3>2. disk' = [disk EXCEPT ![<<f, ".ll">>] = {<<f, version[f]>>}]
      BY <2>4 DEF Wrote
    <3>3. Compiled' = Compiled \cup {f} /\ f \notin Compiled /\ test.todo \subseteq test.case.files
      BY <2>1, <3>1 DEF Compiled, RunInv, Working
    <3>4. \A g \in Compiled : g \in Files /\ Module(g)' = Module(g)
      BY <1>n, <2>1, <3>1, <3>3 DEF Module, Compiled
    <3>5. \A g \in Files : disk'[<<g, ".o">>] = disk[<<g, ".o">>]
      BY <1>a, <1>n, <2>1, <3>2
    <3>6. /\ \A v \in test'.read : v[1] \in Compiled'
          /\ \A g \in Compiled' : /\ \E v \in test'.read : v[1] = g
                                  /\ <<g, ".ll">> \in test'.generated
      <4> DEFINE v == <<f, version[f]>>
      <4>1. v \in test'.read /\ v[1] = f
        BY <3>1
      <4>2. \A w \in test.read : w[1] \in Compiled /\ w \in test'.read
        BY <2>1, <3>1 DEF RunInv, Working
      <4>3. \A w \in test'.read : w \in test.read \/ w = v
        BY <3>1
      <4>4. \A g \in Compiled : (\E w \in test.read : w[1] = g) /\ <<g, ".ll">> \in test.generated
        BY <2>1 DEF RunInv, Working
      <4>5. <<f, ".ll">> \in test'.generated /\ test.generated \subseteq test'.generated
        BY <3>1
      <4> HIDE DEF v
      <4>6. QED
        BY <3>3, <4>1, <4>2, <4>3, <4>4, <4>5
    <3>7. \A g \in Files :
            /\ <<g, ".ll">> \in test'.generated => g \in Compiled'
            /\ <<g, ".o">> \in test'.generated =>
                 g \in Compiled' /\ disk'[<<g, ".o">>] = Module(g)'
      <4>1. \A g \in Files :
              /\ <<g, ".ll">> \in test.generated => g \in Compiled
              /\ <<g, ".o">> \in test.generated =>
                   g \in Compiled /\ disk[<<g, ".o">>] = Module(g)
        BY <2>1 DEF RunInv, Working
      <4>2. \A g \in Files : /\ <<g, ".o">> \in test'.generated
                                => <<g, ".o">> \in test.generated
                             /\ <<g, ".ll">> \in test'.generated
                                => g = f \/ <<g, ".ll">> \in test.generated
        BY <3>1
      <4>3. QED
        BY <3>3, <3>4, <3>5, <4>1, <4>2
    <3>8. \A g, h \in Compiled' :
            <<g, ".o">> \notin test'.generated /\ <<h, ".o">> \notin test'.generated => g = h
      BY <2>1, <3>1, <3>3 DEF RunInv, Working
    <3>9. test'.todo \subseteq test'.case.files /\ test'.output = {}
      BY <2>1, <3>1, <3>3 DEF RunInv, Working
    <3>10. QED
      BY <3>1, <3>6, <3>7, <3>8, <3>9 DEF RunInv, RunsWhatWasRead
  <2>5. QED
    BY <2>3, <2>4, <2>6
<1>4. CASE CompileInterrupted
  <2> DEFINE changes == [test EXCEPT !.interrupted = TRUE]
  <2>1. test \in TestRun /\ test.state = "compiling"
    BY <1>4, <1>a DEF CompileInterrupted, Working
  <2>2. changes \in TestRun /\ changes.case = test.case /\ changes.output = test.output
    BY <2>1 DEF TestRun
  <2> HIDE DEF changes
  <2>3. CASE Runs(test.case)
    <3>1. Ends("failed", changes) /\ test.output = {}
      BY <1>4, <2>1, <2>3 DEF CompileInterrupted, Runs, Fails, RunInv, Working, changes
    <3>2. QED
      BY <1>e, <2>1, <2>2, <3>1 DEF Working
  <2>4. CASE ~Runs(test.case)
    <3>1. \E state \in {"ok", "failed"} : Ends(state, changes)
      BY <1>4 DEF CompileInterrupted, Succeeds, Fails, changes
    <3>2. test'.state \in {"ok", "failed"} /\ test'.case = test.case
      BY <2>2, <3>1 DEF Ends, TestRun
    <3>3. QED
      BY <2>4, <3>2 DEF RunInv, RunsWhatWasRead, Working
  <2>5. QED
    BY <2>3, <2>4
<1>v. CASE test.state \in Working /\ ~Runs(test.case) /\ test'.case = test.case
  BY <1>v DEF RunInv, RunsWhatWasRead
<1>5. ASSUME NEW f \in Files, NEW succeeds \in BOOLEAN, CompileLlvm(f, succeeds), Runs(test.case)
      PROVE  RunInv' /\ RunsWhatWasRead'
  <2> DEFINE after == [test EXCEPT !.generated = @ \cup {<<f, ".o">>}]
  <2>1. /\ test \in TestRun /\ test.state = "assembling" /\ test.output = {}
        /\ f \in Compiled /\ <<f, ".o">> \notin test.generated
    BY <1>5, <1>a DEF CompileLlvm, Working, RunInv
  <2>2. /\ after \in TestRun /\ after.case = test.case /\ after.output = test.output
        /\ after.todo = test.todo /\ after.read = test.read
        /\ after.generated = test.generated \cup {<<f, ".o">>}
    BY <1>n, <2>1 DEF TestRun
  <2> HIDE DEF after
  <2>3. CASE ~succeeds
    <3>1. Ends("failed", after)
      BY <1>5, <2>3 DEF CompileLlvm, Assembled, after
    <3>2. QED
      BY <1>e, <2>1, <2>2, <3>1 DEF Working
  <2>4. CASE succeeds
    <3>1. /\ Ends(IF test.todo = {} THEN "linking" ELSE "compiling", after)
          /\ disk' = [disk EXCEPT ![<<f, ".o">>] = Module(f)]
      BY <1>5, <2>4 DEF CompileLlvm, Assembled, after, Module
    <3>2. /\ test'.state = IF test.todo = {} THEN "linking" ELSE "compiling"
          /\ test'.case = test.case /\ test'.output = {} /\ test'.todo = test.todo
          /\ test'.read = test.read
          /\ test'.generated = test.generated \cup {<<f, ".o">>}
      BY <2>1, <2>2, <3>1 DEF Ends, TestRun
    <3>3. Compiled' = Compiled /\ \A g \in Files : Module(g)' = Module(g)
      BY <3>2 DEF Compiled, Module
    <3>4. \A g \in Files : disk'[<<g, ".o">>] = IF g = f THEN Module(f) ELSE disk[<<g, ".o">>]
      BY <1>a, <1>n, <2>1, <3>1
    <3>5. \A g \in Files : /\ <<g, ".ll">> \in test'.generated <=> <<g, ".ll">> \in test.generated
                           /\ <<g, ".o">> \in test'.generated <=>
                                <<g, ".o">> \in test.generated \/ g = f
      BY <3>2
    <3>6. Compiled \subseteq Files
      BY <1>n, <2>1 DEF Compiled
    <3>7. \A g \in Compiled : <<g, ".o">> \in test'.generated
      BY <1>5, <2>1, <3>5, <3>6 DEF RunInv, Working
    <3>8. \A g \in Files :
            /\ <<g, ".ll">> \in test'.generated => g \in Compiled'
            /\ <<g, ".o">> \in test'.generated =>
                 g \in Compiled' /\ disk'[<<g, ".o">>] = Module(g)'
      BY <1>5, <2>1, <3>3, <3>4, <3>5 DEF RunInv, Working
    <3>9. /\ \A v \in test'.read : v[1] \in Compiled'
          /\ \A g \in Compiled' : /\ \E v \in test'.read : v[1] = g
                                  /\ <<g, ".ll">> \in test'.generated
          /\ test'.todo \subseteq test'.case.files
      BY <1>5, <2>1, <3>2, <3>3, <3>5, <3>6 DEF RunInv, Working
    <3>10. test'.state \in {"linking", "compiling"}
           /\ (test'.state = "linking" => test'.todo = {})
      BY <3>2
    <3>11. QED
      BY <3>2, <3>3, <3>7, <3>8, <3>9, <3>10 DEF RunInv, RunsWhatWasRead
  <2>5. QED
    BY <2>3, <2>4
<1>6. ASSUME NEW succeeds \in BOOLEAN, Link(succeeds), Runs(test.case)
      PROVE  RunInv' /\ RunsWhatWasRead'
  <2> DEFINE after == [test EXCEPT !.generated = @ \cup {Program}]
             objects == {disk[<<f, ".o">>] : f \in test.case.files}
  <2>1. test \in TestRun /\ test.state = "linking" /\ test.output = {} /\ test.todo = {}
    BY <1>6, <1>a DEF Link, Working, RunInv
  <2>2. /\ after \in TestRun /\ after.case = test.case /\ after.output = test.output
        /\ after.todo = test.todo /\ after.read = test.read
        /\ after.generated = test.generated \cup {Program}
    BY <1>n, <2>1 DEF TestRun
  <2>3. UNION objects = test.read
    <3>1. Compiled = test.case.files /\ test.case.files \subseteq Files
      BY <1>n, <2>1 DEF Compiled
    <3>2. \A f \in test.case.files : disk[<<f, ".o">>] = Module(f)
      BY <1>6, <2>1, <3>1 DEF RunInv, Working
    <3>3. \A v \in test.read : v[1] \in test.case.files
      BY <1>6, <2>1, <3>1 DEF RunInv, Working
    <3>4. ASSUME NEW v \in UNION objects
          PROVE  v \in test.read
      <4>1. PICK f \in test.case.files : v \in disk[<<f, ".o">>]
        OBVIOUS
      <4>2. QED
        BY <3>2, <4>1 DEF Module
    <3>5. ASSUME NEW v \in test.read
          PROVE  v \in UNION objects
      <4>1. v[1] \in test.case.files /\ v \in disk[<<v[1], ".o">>]
        BY <3>2, <3>3 DEF Module
      <4>2. QED
        BY <4>1
    <3> HIDE DEF objects
    <3>6. QED
      BY <3>4, <3>5
  <2> HIDE DEF after, objects
  <2>4. CASE ~succeeds
    <3>1. Ends("failed", after)
      BY <1>6, <2>4 DEF Link, after
    <3>2. QED
      BY <1>e, <2>1, <2>2, <3>1 DEF Working
  <2>5. CASE succeeds
    <3>1. Ends("running", after) /\ disk' = [disk EXCEPT ![Program] = UNION objects]
      BY <1>6, <2>5 DEF Link, after, objects
    <3>2. /\ test'.state = "running" /\ test'.case = test.case /\ test'.output = {}
          /\ test'.todo = test.todo /\ test'.read = test.read
          /\ test'.generated = test.generated \cup {Program}
      BY <2>1, <2>2, <3>1 DEF Ends, TestRun
    <3>3. Compiled' = Compiled /\ (\A g \in Files : Module(g)' = Module(g)) /\ Program' = Program
          /\ Compiled \subseteq Files
      BY <1>n, <2>1, <3>2 DEF Compiled, Module, Program
    <3>4. /\ \A g \in Files : disk'[<<g, ".o">>] = disk[<<g, ".o">>]
          /\ disk'[Program] = test.read
      BY <1>a, <1>n, <2>1, <2>3, <3>1
    <3>5. \A g \in Files :
            /\ <<g, ".ll">> \in test'.generated <=> <<g, ".ll">> \in test.generated
            /\ <<g, ".o">> \in test'.generated <=> <<g, ".o">> \in test.generated
      <4>1. \A g \in Files : <<g, ".ll">> # Program /\ <<g, ".o">> # Program
        BY DEF Program
      <4>2. QED
        BY <3>2, <4>1
    <3>6. \A g \in Files :
            /\ <<g, ".ll">> \in test'.generated => g \in Compiled'
            /\ <<g, ".o">> \in test'.generated =>
                 g \in Compiled' /\ disk'[<<g, ".o">>] = Module(g)'
      BY <1>6, <2>1, <3>3, <3>4, <3>5 DEF RunInv, Working
    <3>7. /\ \A v \in test'.read : v[1] \in Compiled'
          /\ \A g \in Compiled' : /\ \E v \in test'.read : v[1] = g
                                  /\ <<g, ".ll">> \in test'.generated
                                  /\ <<g, ".o">> \in test'.generated
          /\ test'.todo \subseteq test'.case.files
      BY <1>6, <2>1, <3>2, <3>3, <3>5 DEF RunInv, Working
    <3>8. QED
      BY <2>1, <3>2, <3>3, <3>4, <3>6, <3>7 DEF RunInv, RunsWhatWasRead
  <2>6. QED
    BY <2>4, <2>5
<1>7. ASSUME NEW equal \in BOOLEAN, RunBinary(equal), Runs(test.case)
      PROVE  RunInv' /\ RunsWhatWasRead'
  <2> DEFINE after == [test EXCEPT !.generated = @ \cup {Output}, !.output = disk[Program]]
             written == [disk EXCEPT ![Output] = disk[Program]]
  <2>1. /\ test \in TestRun /\ test.state = "running" /\ disk[Program] = test.read
        /\ Compiled = test.case.files
    BY <1>7, <1>a DEF RunBinary, Working, RunInv, Compiled
  <2>2. /\ after \in TestRun /\ after.case = test.case /\ after.read = test.read
        /\ after.output = test.read /\ after.generated = test.generated \cup {Output}
    BY <1>n, <1>a, <2>1 DEF TestRun
  <2> HIDE DEF after, written
  <2>3. \E state \in {"ok", "failed"} : Ends(state, after)
    BY <1>7 DEF RunBinary, after
  <2>4. /\ test'.state \in {"ok", "failed"} /\ test'.case = test.case
        /\ test'.read = test.read /\ test'.output = test.read
    BY <2>2, <2>3 DEF Ends, TestRun
  <2>5. {v[1] : v \in test.read} = test.case.files
    <3>1. /\ \A v \in test.read : v[1] \in test.case.files
          /\ \A f \in test.case.files : \E v \in test.read : v[1] = f
      BY <1>7, <2>1 DEF RunInv, Working
    <3>2. QED
      BY <3>1
  <2>6. ASSUME test'.state = "ok", NEW p \in Paths,
               p[1] \in test.case.files \/ p[1] = test.case.files
        PROVE  disk'[p] = {}
    <3>1. disk' = [q \in Paths |-> IF q \in after.generated THEN {} ELSE written[q]]
      <4>1. CASE equal
        BY <1>7, <4>1 DEF RunBinary, after, written
      <4>2. CASE ~equal
        <5>1. Ends("failed", after)
          BY <1>7, <4>2 DEF RunBinary, after
        <5>2. QED
          BY <2>2, <2>6, <5>1 DEF Ends, TestRun
      <4>3. QED
        BY <4>1, <4>2
    <3>2. \A f \in test.case.files : <<f, ".ll">> \in test.generated /\ <<f, ".o">> \in test.generated
      BY <1>7, <2>1 DEF RunInv, Working
    <3>3. Program \in test.generated
      BY <1>7, <2>1 DEF RunInv, Working
    <3>4. p \in after.generated
      BY <2>1, <2>2, <2>6, <3>2, <3>3, NothingLeft
    <3>5. QED
      BY <3>1, <3>4
  <2>7. QED
    BY <2>4, <2>5, <2>6 DEF RunInv, RunsWhatWasRead, Working
<1>8. CASE (TimeoutExpired \/ Aborts) /\ Runs(test.case)
  <2>1. test \in TestRun /\ test.state \in Working /\ test.output = {}
    BY <1>8, <1>a DEF TimeoutExpired, Aborts, Working, RunInv
  <2>2. \E state \in {"failed", "aborted"} : Ends(state, test)
    BY <1>8 DEF TimeoutExpired, Aborts, Fails
  <2>3. QED
    BY <1>e, <2>1, <2>2
<1>9. CASE UNCHANGED <<test, disk>>
  BY <1>9 DEF RunInv, RunsWhatWasRead, Compiled, Module, Program
<1>10. ASSUME \/ \E f \in Files, succeeds \in BOOLEAN : CompileLlvm(f, succeeds)
              \/ \E succeeds \in BOOLEAN : Link(succeeds)
              \/ \E equal \in BOOLEAN : RunBinary(equal)
              \/ TimeoutExpired \/ Aborts,
              ~Runs(test.case)
       PROVE  RunInv' /\ RunsWhatWasRead'
  <2>1. test.state \in Working /\ test \in TestRun
    BY <1>10, <1>a DEF CompileLlvm, Link, RunBinary, TimeoutExpired, Aborts, Working
  <2>2. test'.case = test.case
    <3>1. ASSUME NEW f \in Files, NEW succeeds \in BOOLEAN, CompileLlvm(f, succeeds)
          PROVE  test'.case = test.case
      BY <2>1, <3>1 DEF CompileLlvm, Ends, Fails, TestRun
    <3>2. ASSUME NEW succeeds \in BOOLEAN, Link(succeeds)
          PROVE  test'.case = test.case
      BY <2>1, <3>2 DEF Link, Ends, Fails, TestRun
    <3>3. ASSUME NEW equal \in BOOLEAN, RunBinary(equal)
          PROVE  test'.case = test.case
      BY <2>1, <3>3 DEF RunBinary, Ends, Fails, TestRun
    <3>4. CASE TimeoutExpired \/ Aborts
      BY <2>1, <3>4 DEF TimeoutExpired, Aborts, Ends, Fails, TestRun
    <3>5. QED
      BY <1>10, <3>1, <3>2, <3>3, <3>4
  <2>3. QED
    BY <1>10, <1>v, <2>1, <2>2
<1>11. QED
  BY <1>1, <1>2, <1>3, <1>4, <1>5, <1>6, <1>7, <1>8, <1>9, <1>10
     DEF Next, vars, Edit, Make, UpToDate, Main, MainEnds, MainInterrupted,
         SaveModule, Saved, SaveFails, Exit, ExitInterrupted, Write

(* Whatever the tests are and whatever earlier ones left behind, edited or *)
(* interrupted whenever: a program whose output is compared is made of all *)
(* files of the test as the test has read them, and a test that is ok      *)
(* leaves none of its files.                                               *)
THEOREM RunsCorrect == Spec => []RunsWhatWasRead
<1>1. QED
  BY InitRun, NextRun, TypesInvariant, PTL DEF Spec

----------------------------------------------------------------------------
(* What the verdict says                                                   *)

(* Everything up to the phase of a test goes well with a source; in the    *)
(* phase irgen, verification of the module does not count.                 *)
Passes(f, phase) ==
  f.phase > phase \/ (phase = irgen /\ f.phase = irgen /\ f.part = "verify")

(* compile_fennec gives a value exactly then.                              *)
LEMMA CompilesIffPasses ==
  ASSUME NEW f \in Fates, NEW phase \in 1..6
  PROVE  Compiles(f, phase) <=> Passes(f, phase)
<1>1. f.phase \in 1..7 /\ f.part \in {"run", "verify"} /\ (f.phase = 1 => f.part = "run")
  BY FatesAssumption DEF Fate
<1>2. CASE phase = 1
  BY <1>1, <1>2 DEF Compiles, Fine, StopsAt, FailsAt, Passes, irgen
<1>3. CASE phase = 6
  BY <1>1, <1>3 DEF Compiles, Fine, StopsAt, FailsAt, Passes, irgen
<1>4. CASE phase \in 2..5
  BY <1>1, <1>4 DEF Compiles, Fine, StopsAt, FailsAt, Passes, irgen
<1>5. QED
  BY <1>2, <1>3, <1>4

(* A test that works has not been interrupted; the sources that a run test *)
(* has compiled have nothing wrong, and the others compile only one, last. *)
VerdictInv ==
  /\ test.state \in Working =>
       /\ ~test.interrupted
       /\ test.state # "compiling" => Runs(test.case)
       /\ Runs(test.case) => \A f \in test.fates : Fine(f)
       /\ ~Runs(test.case) => test.fates = {}
  /\ VerdictsTrue

(* The verdict of each type of test, in terms of Passes.                   *)
LEMMA Verdict ==
  ASSUME NEW ok \in BOOLEAN, test' \in TestRun,
         test'.state = IF ok THEN "ok" ELSE "failed",
         NEW good \in BOOLEAN,
         good <=> ~test'.interrupted /\ \A f \in test'.fates : Passes(f, test'.case.phase),
         test'.case.type = "success" => ok = good,
         test'.case.type = "error" => ok # good,
         test'.case.type = "dump" => (ok => good),
         Runs(test'.case) => (ok => good /\ \A f \in test'.fates : Fine(f))
  PROVE  VerdictInv'
<1>1. test'.case.type \in TestTypes
  BY TestsAssumption DEF TestRun
<1> DEFINE right ==
      CASE test'.case.type = "success" -> ok = good
        [] test'.case.type = "error" -> ok # good
        [] test'.case.type = "dump" -> ok => good
        [] OTHER -> ok => good /\ \A f \in test'.fates : Fine(f)
<1>2. right
  BY <1>1 DEF TestTypes, Runs
<1>3. test'.state \notin Working /\ (ok <=> test'.state = "ok")
  BY DEF Working
<1>4. VerdictsTrue'
  <2>1. good <=> /\ ~test'.interrupted
                 /\ \A f \in test'.fates :
                      \/ f.phase > test'.case.phase
                      \/ test'.case.phase = irgen /\ f.phase = irgen /\ f.part = "verify"
    BY DEF Passes
  <2>2. QED
    BY <1>2, <1>3, <2>1 DEF VerdictsTrue
<1>5. QED
  BY <1>3, <1>4 DEF VerdictInv

LEMMA InitVerdict == Init => VerdictInv
BY DEF Init, VerdictInv, VerdictsTrue, Working

(* Every test that ends ends with the verdict its type says.               *)
LEMMA NextVerdict == Types /\ VerdictInv /\ [Next]_vars => VerdictInv'
<1> SUFFICES ASSUME Types, VerdictInv, [Next]_vars
             PROVE  VerdictInv'
  OBVIOUS
<1>a. test.state \in Working => test \in TestRun
  BY DEF Types, Working
<1>c. \A t \in Tests : t.type \in TestTypes /\ t.phase \in 1..6
  BY TestsAssumption
<1>f. ASSUME NEW f \in Files PROVE fate[f] \in Fates
  BY DEF Types, TypeOK
<1>1. ASSUME NEW t \in Tests, StartTest(t)
      PROVE  VerdictInv'
  <2>1. /\ test'.state \in {"compiling", "aborted"}
        /\ test'.fates = {} /\ test'.interrupted = FALSE
    BY <1>1 DEF StartTest
  <2>2. QED
    BY <2>1 DEF VerdictInv, VerdictsTrue, Working
<1>2. ASSUME NEW f \in Files, CheckCompile(f)
      PROVE  VerdictInv'
  <2> DEFINE compiles == Compiles(fate[f], test.case.phase)
  <2>1. /\ test \in TestRun /\ Reads(f) \in TestRun /\ ~Runs(test.case)
        /\ test.fates = {} /\ ~test.interrupted /\ test.case \in Tests
    BY <1>2, <1>a, ReadsType DEF CheckCompile, Working, VerdictInv, TestRun
  <2>2. /\ Reads(f).case = test.case /\ Reads(f).fates = {fate[f]}
        /\ Reads(f).interrupted = FALSE
    BY <2>1 DEF Reads, TestRun
  <2>3. test.case.type \in {"success", "error", "dump"}
    BY <1>c, <2>1 DEF Runs, TestTypes
  <2>4. compiles <=> Passes(fate[f], test.case.phase)
    BY <1>c, <1>f, <2>1, CompilesIffPasses
  <2>5. ASSUME NEW ok \in BOOLEAN, Ends(IF ok THEN "ok" ELSE "failed", Reads(f)),
               test.case.type = "success" => ok = compiles,
               test.case.type = "error" => ok # compiles,
               test.case.type = "dump" => (ok => compiles)
        PROVE  VerdictInv'
    <3>1. /\ test' \in TestRun /\ test'.state = IF ok THEN "ok" ELSE "failed"
          /\ test'.case = test.case /\ test'.fates = {fate[f]} /\ test'.interrupted = FALSE
      BY <2>1, <2>2, <2>5 DEF Ends, TestRun, Working
    <3> DEFINE good == Passes(fate[f], test.case.phase)
    <3>2. good \in BOOLEAN
          /\ (good <=> ~test'.interrupted /\ \A g \in test'.fates : Passes(g, test'.case.phase))
      BY <3>1 DEF Passes
    <3>3. compiles = good
      BY <2>4, <3>2 DEF Compiles
    <3> HIDE DEF good, compiles
    <3>4. QED
      BY <2>1, <2>5, <3>1, <3>2, <3>3, Verdict
  <2>6. \/ Ends("ok", Reads(f)) /\ (test.case.type = "error" <=> ~compiles)
        \/ Ends("failed", Reads(f)) /\ (test.case.type = "error" => compiles)
                                    /\ (test.case.type = "success" => ~compiles)
    BY <1>2, <2>3 DEF CheckCompile, Succeeds, Fails
  <2>7. QED
    <3>1. compiles \in BOOLEAN
      BY DEF Compiles
    <3> HIDE DEF compiles
    <3>2. CASE Ends("ok", Reads(f)) /\ (test.case.type = "error" <=> ~compiles)
      BY <2>5, <3>1, <3>2
    <3>3. CASE Ends("failed", Reads(f)) /\ (test.case.type = "error" => compiles)
                                        /\ (test.case.type = "success" => ~compiles)
      BY <2>5, <3>1, <3>3
    <3>4. QED
      BY <2>6, <3>2, <3>3
<1>3. ASSUME NEW f \in Files, CompileFennec(f)
      PROVE  VerdictInv'
  <2>1. /\ test \in TestRun /\ Reads(f) \in TestRun /\ Runs(test.case)
        /\ ~test.interrupted /\ \A g \in test.fates : Fine(g)
    BY <1>3, <1>a, ReadsType DEF CompileFennec, Working, VerdictInv
  <2>2. /\ Reads(f).case = test.case /\ Reads(f).fates = test.fates \cup {fate[f]}
        /\ Reads(f).interrupted = FALSE
    BY <2>1 DEF Reads, TestRun
  <2> DEFINE step == [Reads(f) EXCEPT !.todo = @ \ {f}, !.generated = @ \cup {<<f, ".ll">>}]
  <2>3. CASE Fine(fate[f]) /\ Ends("assembling", step)
    <3>1. /\ test'.state = "assembling" /\ test'.case = test.case
          /\ test'.fates = test.fates \cup {fate[f]} /\ test'.interrupted = FALSE
      BY <2>1, <2>2, <2>3 DEF Ends, TestRun
    <3>2. QED
      BY <2>1, <2>3, <3>1 DEF VerdictInv, VerdictsTrue
  <2>4. CASE Ends("failed", Reads(f))
    <3>1. test'.state = "failed" /\ test'.case = test.case
      BY <2>1, <2>2, <2>4 DEF Ends, TestRun
    <3>2. QED
      BY <2>1, <3>1 DEF VerdictInv, VerdictsTrue, Working, Runs
  <2>5. QED
    BY <1>3, <2>3, <2>4 DEF CompileFennec, Fails
<1>4. CASE CompileInterrupted
  <2> DEFINE changes == [test EXCEPT !.interrupted = TRUE]
             ok == test.case.type = "error"
  <2>1. test \in TestRun /\ test.case \in Tests
    BY <1>4, <1>a DEF CompileInterrupted, Working, TestRun
  <2>2. changes \in TestRun /\ changes.case = test.case /\ changes.interrupted = TRUE
    BY <2>1 DEF TestRun
  <2> HIDE DEF changes
  <2>3. Ends(IF ok THEN "ok" ELSE "failed", changes)
    BY <1>4 DEF CompileInterrupted, Succeeds, Fails, Runs, changes
  <2>4. /\ test' \in TestRun /\ test'.state = IF ok THEN "ok" ELSE "failed"
        /\ test'.case = test.case /\ test'.interrupted = TRUE
    BY <2>2, <2>3 DEF Ends, TestRun, Working
  <2>5. /\ test'.case.type = "success" => ok = FALSE
        /\ test'.case.type = "error" => ok # FALSE
        /\ test'.case.type = "dump" => ~ok
        /\ Runs(test'.case) => ~ok
        /\ ok \in BOOLEAN
    BY <2>4 DEF Runs
  <2> HIDE DEF ok
  <2>6. QED
    BY <2>4, <2>5, Verdict
<1>5. ASSUME test.state \in Working \ {"compiling"},
             NEW changes \in TestRun, NEW state \in Working \cup {"ok", "failed", "aborted"},
             Ends(state, changes),
             changes.case = test.case, changes.fates = test.fates,
             changes.interrupted = test.interrupted
      PROVE  VerdictInv'
  <2>1. /\ Runs(test.case) /\ ~test.interrupted /\ \A f \in test.fates : Fine(f)
        /\ test \in TestRun
    BY <1>5, <1>a DEF VerdictInv
  <2>2. /\ test' \in TestRun /\ test'.state = state /\ test'.case = test.case
        /\ test'.fates = test.fates /\ test'.interrupted = test.interrupted
    BY <1>5 DEF Ends, TestRun
  <2>3. CASE state \in {"ok", "failed"}
    <3>1. \A f \in test.fates : Passes(f, test.case.phase)
      <4>1. test.fates \subseteq Fates /\ test.case.phase \in 1..6
        BY <1>c, <2>1 DEF TestRun
      <4>2. QED
        BY <2>1, <4>1, FatesAssumption DEF Passes, Fine, Fate, irgen
    <3>2. PICK ok \in BOOLEAN : test'.state = IF ok THEN "ok" ELSE "failed"
      BY <2>2, <2>3
    <3>3. test'.case.type # "success" /\ test'.case.type # "error" /\ test'.case.type # "dump"
      BY <2>1, <2>2 DEF Runs
    <3>4. QED
      BY <2>1, <2>2, <3>1, <3>2, <3>3, Verdict
  <2>4. CASE state \notin {"ok", "failed"}
    BY <2>1, <2>2, <2>4 DEF VerdictInv, VerdictsTrue
  <2>5. QED
    BY <2>3, <2>4
<1>6. ASSUME NEW f \in Files, NEW succeeds \in BOOLEAN, CompileLlvm(f, succeeds)
      PROVE  VerdictInv'
  <2> DEFINE after == [test EXCEPT !.generated = @ \cup {<<f, ".o">>}]
  <2>1. test \in TestRun /\ test.state \in Working \ {"compiling"} /\ <<f, ".o">> \in Paths
    BY <1>6, <1>a DEF CompileLlvm, Working, Paths
  <2>2. /\ after \in TestRun /\ after.case = test.case /\ after.fates = test.fates
        /\ after.interrupted = test.interrupted
    BY <2>1 DEF TestRun
  <2> HIDE DEF after
  <2>3. \E state \in {"linking", "compiling", "failed"} : Ends(state, after)
    BY <1>6 DEF CompileLlvm, after
  <2>4. QED
    BY <1>5, <2>1, <2>2, <2>3 DEF Working
<1>7. ASSUME NEW succeeds \in BOOLEAN, Link(succeeds)
      PROVE  VerdictInv'
  <2> DEFINE after == [test EXCEPT !.generated = @ \cup {Program}]
  <2>1. test \in TestRun /\ test.state \in Working \ {"compiling"} /\ Program \in Paths
    BY <1>7, <1>a, Names DEF Link, Working
  <2>2. /\ after \in TestRun /\ after.case = test.case /\ after.fates = test.fates
        /\ after.interrupted = test.interrupted
    BY <2>1 DEF TestRun
  <2> HIDE DEF after
  <2>3. \E state \in {"running", "failed"} : Ends(state, after)
    BY <1>7 DEF Link, after
  <2>4. QED
    BY <1>5, <2>1, <2>2, <2>3 DEF Working
<1>8. ASSUME NEW equal \in BOOLEAN, RunBinary(equal)
      PROVE  VerdictInv'
  <2> DEFINE after == [test EXCEPT !.generated = @ \cup {Output}, !.output = disk[Program]]
  <2>1. /\ test \in TestRun /\ test.state \in Working \ {"compiling"} /\ Output \in Paths
        /\ disk[Program] \in SUBSET Versions
    BY <1>8, <1>a, Names DEF RunBinary, Working, Types, TypeOK, Versions
  <2>2. /\ after \in TestRun /\ after.case = test.case /\ after.fates = test.fates
        /\ after.interrupted = test.interrupted
    BY <2>1 DEF TestRun
  <2> HIDE DEF after
  <2>3. \E state \in {"ok", "failed"} : Ends(state, after)
    BY <1>8 DEF RunBinary, after
  <2>4. QED
    BY <1>5, <2>1, <2>2, <2>3
<1>9. CASE TimeoutExpired \/ Aborts
  <2>1. test \in TestRun /\ test.state \in Working \ {"compiling"}
    BY <1>9, <1>a DEF TimeoutExpired, Aborts, Working
  <2>2. \E state \in {"failed", "aborted"} : Ends(state, test)
    BY <1>9 DEF TimeoutExpired, Aborts, Fails
  <2>3. QED
    BY <1>5, <2>1, <2>2
<1>10. CASE UNCHANGED test
  BY <1>10 DEF VerdictInv, VerdictsTrue
<1>11. QED
  BY <1>1, <1>2, <1>3, <1>4, <1>6, <1>7, <1>8, <1>9, <1>10
     DEF Next, vars, Edit, Make, UpToDate, Main, MainEnds, MainInterrupted,
         SaveModule, Saved, SaveFails, Exit, ExitInterrupted, Write

(* The verdict on every test, of every type, phase and fate of its files,  *)
(* is what its directory says, with the exceptions that VerdictsTrue names.*)
THEOREM VerdictsCorrect == Spec => []VerdictsTrue
<1>1. VerdictInv => VerdictsTrue
  BY DEF VerdictInv
<1>2. QED
  BY <1>1, InitVerdict, NextVerdict, TypesInvariant, PTL DEF Spec

=============================================================================
