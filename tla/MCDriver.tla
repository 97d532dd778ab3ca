------------------------------ MODULE MCDriver ------------------------------
(* Two sources, in a run-group and in tests of their own.                  *)
EXTENDS Driver

CONSTANTS a, b

MCFates ==
  {[phase |-> 7, part |-> "run", kind |-> "error"],
   [phase |-> 1, part |-> "run", kind |-> "error"],
   [phase |-> 2, part |-> "verify", kind |-> "crash"],
   [phase |-> 5, part |-> "run", kind |-> "error"],
   [phase |-> 6, part |-> "verify", kind |-> "crash"]}
MCArguments ==
  {args \in [dump_after : {0, 1, 2}, cpp : BOOLEAN, verbose : BOOLEAN, named : BOOLEAN,
             emit_bc : BOOLEAN] :
     /\ args.verbose \/ args.named
     /\ args.emit_bc => args.dump_after = 0 /\ args.named /\ args.cpp}
Case(type, phase, files) == [type |-> type, phase |-> phase, files |-> files]
MCTests ==
  {Case(type, phase, {a}) : type \in {"success", "error", "dump"}, phase \in {2, 5, 6}}
  \cup {Case("run", irgen, {a}), Case("run-group", irgen, {a, b}),
        Case("run", 5, {a}), Case("run-group", irgen, {})}
=============================================================================
