---------------------------- MODULE BoundsCalls ----------------------------
(***************************************************************************)
(* How the bounds checker gives functions the sizes of their arrays:       *)
(* runOnModule, calcArgs and findAndProcessCalls of                        *)
(* src/llvm-passes/BoundsChecker.cpp, addParamsToFunction of utils.cpp.    *)
(*                                                                         *)
(* A function is its parameters and its calls; function 1 is main.  Calls  *)
(* return nothing, so no call that is erased is used.  The recursion of    *)
(* calcArgs is the stack "frames".  Where the code dereferences null,      *)
(* passes a value that was never set, or creates a call that does not fit  *)
(* the signature, the model stops with pc = "undefined".                   *)
(***************************************************************************)
EXTENDS Integers, SequencesExt

CONSTANTS
  Order,       \* the functions of a module, in order
  Signatures,  \* the parameters its functions may have
  Bodies(_),   \* the calls they may make, given the parameters
  Accessing    \* the functions that may have a GEP on their last array parameter

Main == 1
Null == 0

VARIABLES
  original,    \* parameters and calls of the module as given
  order,       \* its functions, in order
  params,      \* the types of the parameters of each function
  body,        \* the calls of each function, in order
  accesses,    \* functions with a GEP on their last array parameter
  current,     \* the function runOnModule has come to
  frames,      \* running calls of calcArgs
  returned,    \* what the last one that ended returned
  isChanged,
  deleted,     \* deletedFucntions
  added,       \* addedFunctions
  instrumented,  \* instrumentGeps(f) was called
  pc

vars == <<original, order, params, body, accesses, current, frames, returned,
          isChanged, deleted, added, instrumented, pc>>
module == <<order, params, body, accesses>>

(* Parameters are integers, or arrays of integers or of characters.        *)
Arrays == {"ints", "chars"}
ElementType(t) == IF t = "ints" THEN "int" ELSE "char"

(* Arguments: a parameter of the caller, a local array, the size of one, or *)
(* something else (a constant, a load, the address of an element).         *)
Param(k) == [kind |-> "param", k |-> k]
Local(k, t) == [kind |-> "alloca", k |-> k, type |-> t]
SizeOf(local) == [kind |-> "size", k |-> local.k]
Other(t) == [kind |-> "other", type |-> t]

Types == Arrays \cup {"int", "char"}
Argument == [kind : {"param", "size"}, k : Nat]
            \cup [kind : {"alloca"}, k : Nat, type : Arrays]
            \cup [kind : {"other"}, type : Types]

\* A call, and its place in the module as given: a function, and which of its calls.
Call == [callee : Nat, args : Seq(Argument), site : Nat \X Nat]

\* The type of an argument in a function with these parameters.
ArgType(types, a) ==
  CASE a.kind = "param" -> types[a.k]
    [] a.kind = "size" -> "int"
    [] OTHER -> a.type

\* Whether a call with these arguments, in a function with the parameters
\* types, fits a signature.
Fits(types, args, signature) ==
  /\ Len(args) = Len(signature)
  /\ \A k \in DOMAIN args :
       /\ args[k].kind = "param" => args[k].k \in DOMAIN types
       /\ ArgType(types, args[k]) = signature[k]

(* The modules the pass is given are well formed: functions are numbered,   *)
(* calls know where they are and fit what they call.                       *)
IsModule(types, calls) ==
  /\ calls \in Seq(Seq(Call)) /\ Len(calls) = Len(types)
  /\ \A g \in DOMAIN calls : \A k \in DOMAIN calls[g] :
       LET c == calls[g][k] IN
       /\ c.callee \in DOMAIN types /\ c.site = <<g, k>>
       /\ Fits(types[g], c.args, types[c.callee])

ASSUME ModuleAssumption ==
  /\ Order \in Seq(Nat) /\ IsInjective(Order)
  /\ ToSet(Order) = 1 .. Len(Order) /\ Main \in ToSet(Order)
  /\ \A types \in Signatures :
       /\ types \in Seq(Seq(Types)) /\ Len(types) = Len(Order)
       /\ \A calls \in Bodies(types) : IsModule(types, calls)
  /\ \A fs \in Accessing : fs \subseteq ToSet(Order)

Functions == DOMAIN params
Place(f) == CHOOSE p \in DOMAIN order : order[p] = f
Originals == DOMAIN original.params
HasArray(f) == \E k \in DOMAIN params[f] : params[f][k] \in Arrays
LastArray(f) == SelectLastInSeq(params[f], LAMBDA t : t \in Arrays)

Init ==
  /\ order = Order
  /\ params \in Signatures
  /\ body \in Bodies(params)
  /\ \E fs \in Accessing : accesses = {f \in fs : HasArray(f)}
  /\ original = [params |-> params, body |-> body]
  /\ current = Head(order)
  /\ frames = <<>>
  /\ returned = Null
  /\ isChanged = FALSE
  /\ deleted = {} /\ added = {} /\ instrumented = {}
  /\ pc = "visit"

Stop(reason) ==
  /\ pc' = reason
  /\ UNCHANGED <<original, module, current, frames, returned, isChanged, deleted,
                 added, instrumented>>

----------------------------------------------------------------------------
(* runOnModule                                                             *)

\* calcArgs(f) begins: no parameter looked at, no clone, no call.
Frame(f) == [f |-> f, param |-> 1, newFunc |-> Null, call |-> <<>>]

Visit ==
  /\ pc = "visit"
  /\ frames' = <<Frame(current)>>
  /\ pc' = "calcArgs"
  /\ UNCHANGED <<original, module, current, returned, isChanged, deleted, added,
                 instrumented>>

\* Mutant: the function visited is instrumented, not its clone.
TargetCurrent == current

Target == IF isChanged THEN returned ELSE current

\* instrumentGeps reads the parameter after an array that is accessed, but
\* for main's argv.
NoSizeParameter(f) ==
  f \in accesses /\ LastArray(f) = Len(params[f]) /\ ~ (f = Main /\ LastArray(f) = 2)

\* Clones are inserted before their originals: the next function is the same.
Instrument ==
  /\ pc = "instrument"
  /\ Target # Null /\ ~ NoSizeParameter(Target)
  /\ instrumented' = instrumented \cup {Target}
  /\ isChanged' = FALSE
  /\ IF current = Last(order)
       THEN pc' = "done" /\ UNCHANGED current
       ELSE pc' = "visit" /\ current' = order[Place(current) + 1]
  /\ UNCHANGED <<original, module, frames, returned, deleted, added>>

InstrumentNothing ==
  /\ pc = "instrument"
  /\ Target = Null \/ NoSizeParameter(Target)
  /\ Stop("undefined")

----------------------------------------------------------------------------
(* calcArgs                                                                *)

Top == Last(frames)
SetTop(frame) == frames' = Append(Front(frames), frame)

PassedOver(f) == f = Main \/ f \in added \/ f \in deleted

Return(value) ==
  /\ frames' = Front(frames)
  /\ returned' = value
  /\ pc' = IF Len(frames) = 1 THEN "instrument" ELSE "caller"

ReturnNull ==
  /\ pc = "calcArgs"
  /\ PassedOver(Top.f) \/ Top.param > Len(params[Top.f])
  /\ Return(Null)
  /\ UNCHANGED <<original, module, current, isChanged, deleted, added, instrumented>>

SkipParameter ==
  /\ pc = "calcArgs"
  /\ ~ PassedOver(Top.f) /\ Top.param <= Len(params[Top.f])
  /\ params[Top.f][Top.param] \notin Arrays
  /\ SetTop([Top EXCEPT !.param = @ + 1])
  /\ UNCHANGED <<original, module, current, returned, isChanged, deleted, added,
                 instrumented, pc>>

ArrayParameter ==
  /\ pc = "calcArgs"
  /\ ~ PassedOver(Top.f) /\ Top.param <= Len(params[Top.f])
  /\ params[Top.f][Top.param] \in Arrays

AddParam(types, t) == Append(types, t)

(* addParamsToFunction: the clone has a parameter more, of the type of the *)
(* elements, and comes before the original in the module.                  *)
CloneFunction ==
  /\ ArrayParameter /\ Top.newFunc = Null
  /\ LET f == Top.f  clone == Len(order) + 1 IN
     /\ order' = InsertAt(order, Place(f), clone)
     /\ params' = Append(params, AddParam(params[f], ElementType(params[f][Top.param])))
     /\ body' = Append(body, body[f])
     /\ accesses' = accesses \cup (IF f \in accesses THEN {clone} ELSE {})
     /\ SetTop([Top EXCEPT !.newFunc = clone])
  /\ isChanged' = TRUE
  /\ pc' = "users"
  /\ UNCHANGED <<original, current, returned, deleted, added, instrumented>>

\* addParamsToFunction exits if the list for new parameters is not empty.
CloneAgainFails ==
  /\ ArrayParameter /\ Top.newFunc # Null
  /\ Stop("exit")

(* The first call in the list of uses of f.  Later uses come first: those  *)
(* of the last clone, last call first; for the original functions, it      *)
(* depends on how the module was read.                                     *)
Callers(f) == {g \in Functions : \E k \in DOMAIN body[g] : body[g][k].callee = f}
FirstUsers(f) ==
  LET clones == Callers(f) \ Originals
      calls(g) == {k \in DOMAIN body[g] : body[g][k].callee = f}
  IN IF clones # {} THEN {<<Max(clones), Max(calls(Max(clones)))>>}
     ELSE UNION {{<<g, k>> : k \in calls(g)} : g \in Callers(f)}

NoUsers ==
  /\ pc = "users"
  /\ Callers(Top.f) = {}
  /\ SetTop([Top EXCEPT !.param = @ + 1])
  /\ pc' = "calcArgs"
  /\ UNCHANGED <<original, module, current, returned, isChanged, deleted, added,
                 instrumented>>

\* The function is replaced: calcArgs returns the clone.
Replace(f, newFunc) ==
  /\ deleted' = deleted \cup {f}
  /\ added' = added \cup {newFunc}
  /\ Return(newFunc)
  /\ UNCHANGED <<original, order, params, accesses, current, isChanged, instrumented>>

FirstLocal(args) == SelectInSeq(args, LAMBDA a : a.kind = "alloca")

\* Mutant: the size is that of the first local array of the caller.
SizeOfFirst(args) ==
  LET k == FirstLocal(args) IN
  IF k = 0 THEN <<>> ELSE Append(SubSeq(args, 1, k), SizeOf([k |-> 1]))

\* Mutant: the loop ends before it pushes the local array.
SizeWithoutArray(args) ==
  LET k == FirstLocal(args) IN
  IF k = 0 THEN <<>> ELSE Append(SubSeq(args, 1, k - 1), SizeOf(args[k]))

\* The arguments up to the first local array and its size.  Without one the
\* size is not set, and the function called is taken for an argument: no
\* signature fits.
NewArgs(args) ==
  LET k == FirstLocal(args) IN
  IF k = 0 THEN <<>> ELSE Append(SubSeq(args, 1, k), SizeOf(args[k]))

(* A call whose first argument is not a parameter of the caller.           *)
ReplaceCall ==
  /\ pc = "users"
  /\ \E user \in FirstUsers(Top.f) :
       LET g == user[1]
           call == body[g][user[2]]
           args == NewArgs(call.args)
       IN /\ call.args[1].kind # "param"
          /\ IF Fits(params[g], args, params[Top.newFunc])
               THEN /\ body' = [body EXCEPT ![g][user[2]] =
                                  [@ EXCEPT !.callee = Top.newFunc, !.args = args]]
                    /\ Replace(Top.f, Top.newFunc)
               ELSE Stop("undefined")

(* A call whose first argument is a parameter: the caller is done first.   *)
CalcArgsOfCaller ==
  /\ pc = "users"
  /\ \E user \in FirstUsers(Top.f) :
       LET g == user[1]
           call == body[g][user[2]]
       IN /\ call.args[1].kind = "param"
          /\ frames' = Append(Append(Front(frames), [Top EXCEPT !.call = <<g, call.site>>]),
                              Frame(g))
  /\ pc' = "calcArgs"
  /\ UNCHANGED <<original, module, current, returned, isChanged, deleted, added,
                 instrumented>>

CallerNotReplaced ==
  /\ pc = "caller" /\ returned = Null
  /\ Stop("undefined")

FirstCall(h, f) == SelectInSeq(body[h], LAMBDA c : c.callee = f)
CallAt(h, f, site) == SelectInSeq(body[h], LAMBDA c : c.callee = f /\ c.site = site)

(* findAndProcessCalls takes the first call of f in the caller's clone.  A  *)
(* new call is put before it, with its first argument and the clone's      *)
(* second parameter; what is erased is the call in the original caller.    *)
ReplaceCallInClone ==
  /\ pc = "caller" /\ returned # Null
  /\ LET f == Top.f
         g == Top.call[1]
         k == FirstCall(returned, f)
         found == body[returned][k]
         args == <<found.args[1], Param(2)>>
     IN IF Fits(params[returned], args, params[Top.newFunc])
          THEN /\ body' = [body EXCEPT
                    ![returned] = InsertAt(@, k, [found EXCEPT !.callee = Top.newFunc,
                                                               !.args = args]),
                    ![g] = RemoveAt(@, CallAt(g, f, Top.call[2]))]
               /\ Replace(f, Top.newFunc)
          ELSE Stop("undefined")

Finished == pc \in {"done", "undefined", "exit"} /\ UNCHANGED vars

Next ==
  \/ Visit \/ Instrument \/ InstrumentNothing
  \/ ReturnNull \/ SkipParameter \/ CloneFunction \/ CloneAgainFails
  \/ NoUsers \/ ReplaceCall \/ CalcArgsOfCaller
  \/ CallerNotReplaced \/ ReplaceCallInClone
  \/ Finished

Spec == Init /\ [][Next]_vars

----------------------------------------------------------------------------
(* Properties                                                              *)

(* Types; every call fits the signature of what it calls.                  *)
TypeOK ==
  /\ ToSet(order) = Functions /\ IsInjective(order)
  /\ DOMAIN body = Functions
  /\ \A f \in Functions : \A k \in DOMAIN body[f] :
       LET call == body[f][k] IN
       call.callee \in Functions /\ Fits(params[f], call.args, params[call.callee])
  /\ current \in Functions /\ returned \in Functions \cup {Null}
  /\ \A i \in DOMAIN frames : frames[i].f \in Functions
  /\ deleted \cup added \cup instrumented \subseteq Functions
  /\ pc \in {"visit", "calcArgs", "users", "caller", "instrument", "done",
             "undefined", "exit"}

(* What a call of a clone passes for its last array and, at the end, as     *)
(* that array's size: a local array and its size, or the caller's array and *)
(* the caller's own size parameter.                                        *)
PassesOwnSize(f, call) ==
  LET array == call.args[LastArray(call.callee)]
      size == Last(call.args)
  IN \/ array.kind = "alloca" /\ size = SizeOf(array)
     \/ /\ f \in added
        /\ array = Param(LastArray(f)) /\ size = Param(LastArray(f) + 1)

\* Whether the function with the call at this site makes another of the same
\* function.
CalledAgain(site) ==
  LET calls == original.body[site[1]] IN
  \E k \in DOMAIN calls \ {site[2]} : calls[k].callee = calls[site[2]].callee

(* A call of a clone passes the size of its array, unless it is in the      *)
(* clone of a function whose array is not its first parameter, where the   *)
(* second parameter is passed (BoundsChecker.cpp:285), or of one that      *)
(* calls the same function again, where the first of these calls is        *)
(* rewritten for the one looked at (:200).  A call made twice, by clone    *)
(* and original, has a parameter of the caller for its array, with the     *)
(* same exception: only then the call erased is in another function than   *)
(* the new one.                                                            *)
SizesAgree ==
  /\ TypeOK
  /\ \A f \in Functions : \A k \in DOMAIN body[f] :
       LET call == body[f][k] IN
       /\ call.callee \in added =>
            \/ PassesOwnSize(f, call)
            \/ /\ f \in added /\ Last(call.args) = Param(2)
               /\ LastArray(f) # 1 \/ CalledAgain(call.site)
       /\ (\E j \in DOMAIN body[f] \ {k} : body[f][j].site = call.site) =>
            f \in added /\ (call.args[1].kind = "param" \/ CalledAgain(call.site))

(* When the pass is done, only functions that were replaced by a clone are *)
(* without checks: every clone was come to, although clones are put into   *)
(* the module while it is walked, some by a call for another function.     *)
(* (Calls may still reach what was replaced: only the first is rewritten,  *)
(* BoundsChecker.cpp:331, so not every access is checked, as               *)
(* tests/boundscheck/run.sh:20 expects.)                                   *)
OnlyReplacedUnchecked == pc = "done" => Functions \ instrumented \subseteq deleted

(* What the pass can do: modules in which each function with an array has  *)
(* that one parameter, of integers, and is called, only with local arrays, *)
(* and main has no array but argv.                                         *)
Simple ==
  /\ \A k \in DOMAIN original.params[Main] :
       original.params[Main][k] \in Arrays => k = 2
  /\ \A f \in Originals \ {Main} :
       (\E k \in DOMAIN original.params[f] : original.params[f][k] \in Arrays) =>
         /\ original.params[f] = <<"ints">>
         /\ \E g \in Originals : \E k \in DOMAIN original.body[g] :
              original.body[g][k].callee = f
         /\ \A g \in Originals : \A k \in DOMAIN original.body[g] :
              original.body[g][k].callee = f => original.body[g][k].args[1].kind = "alloca"
SimpleSurvives == Simple => pc \notin {"undefined", "exit"}

============================================================================
