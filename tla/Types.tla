------------------------------- MODULE Types -------------------------------
(***************************************************************************)
(* Types of expressions and of the values they become: what                *)
(* src/frontend/typecheck.py accepts and what src/frontend/irgen.py        *)
(* generates for it with llvmlite, which fails on operands of the wrong    *)
(* types.                                                                  *)
(*                                                                         *)
(* Both visit the children of a node before they look at it, so a node is  *)
(* visited when its children are on top of "stack", in their order, each   *)
(* with the type the checker gives it and the LLVM type of the value the   *)
(* generator makes of it.  The value only counts when the whole statement  *)
(* is accepted.  Names are bound ("Scopes"), so a use is its declaration.  *)
(***************************************************************************)
EXTENDS Integers, Sequences

(* Type, ArrayType: int[][] is int with depth 2.                           *)
Bases == {"bool", "char", "int", "float", "void"}
Type == [base : Bases, depth : Nat]
Basic(base) == [base |-> base, depth |-> 0]
is_array(ty) == ty.depth > 0
ElementOf(ty) == [ty EXCEPT !.depth = @ - 1]

Variables == {"GlobalDec", "GlobalDef", "Param", "VarDef", "ArrayDef"}
Functions == {"FunDec", "FunDef"}

(* A declaration: ty is the type of a variable, the return type of a       *)
(* function, which also has parameters and may take further arguments.     *)
Declaration ==
  [kind : Variables \cup Functions, ty : Type, params : Seq(Type), varargs : BOOLEAN]

CONSTANTS
  Declarations,   \* what the program declares
  MaxStack        \* bound: finished expressions that wait for their parent

ASSUME DeclarationsAssumption ==
  /\ Declarations \subseteq Declaration
  /\ \A d \in Declarations : d.kind = "ArrayDef" => is_array(d.ty)
ASSUME StackAssumption == MaxStack \in Nat

VARIABLES
  stack,
  statement       \* the statement the expressions belong to, once visited

vars == <<stack, statement>>

----------------------------------------------------------------------------
(* LLVM's types, as llvmlite has them: a type and how many times it is     *)
(* pointed to.  Broken stands for the failure of a call of llvmlite or of  *)
(* LLVM's parser, to which a pointer to void is an error.                  *)

Integer == {"i1", "i8", "i32"}
LLVMType == [base : Integer \cup {"double", "void", "none"}, depth : Nat]
LLVMBase == [bool |-> "i1", char |-> "i8", int |-> "i32", float |-> "double", void |-> "void"]
getty(ty) == [base |-> LLVMBase[ty.base], depth |-> ty.depth]
i1 == getty(Basic("bool"))
Broken == [base |-> "none", depth |-> 0]
Pointer(val) == [val EXCEPT !.depth = @ + 1]
IsInteger(val) == val.depth = 0 /\ val.base \in Integer
PointsToVoid(ty) == ty.base = "void" /\ is_array(ty)

load(ptr) == IF ptr.depth > 0 THEN [ptr EXCEPT !.depth = @ - 1] ELSE Broken
gep(ptr, index) == IF ptr.depth > 0 /\ IsInteger(index) THEN ptr ELSE Broken
Stores(val, ptr) == ptr.depth > 0 /\ val = load(ptr)

----------------------------------------------------------------------------
(* Declarations                                                            *)

(* What visitGlobalDec, visitGlobalDef, visitFunDef, visitParam,           *)
(* visitVarDef and visitArrayDef ask of the type declared.                 *)
Accepts(d) ==
  /\ d.kind \in {"GlobalDec", "Param"} => d.ty.base # "void"
  /\ d.kind \in {"GlobalDef", "VarDef"} => ~is_array(d.ty) /\ d.ty # Basic("void")
  /\ d.kind = "ArrayDef" => ElementOf(d.ty) # Basic("void")
  /\ d.kind = "FunDef" => ~is_array(d.ty)
  /\ \A i \in DOMAIN d.params : d.params[i].base # "void"
Visible == {d \in Declarations : Accepts(d)}
IsFunction(d) == d.kind \in Functions
IsGlobal(d) == d.kind \in {"GlobalDec", "GlobalDef"}

(* Mutant: all parameters are copied to memory.                            *)
AddressOfCopy(d) == IF d.kind = "ArrayDef" THEN getty(d.ty) ELSE Pointer(getty(d.ty))

(* The entry of IRGen.vars: the argument itself for arrays passed, memory  *)
(* for all else; an array's memory is its elements.                        *)
Address(d) ==
  IF d.kind \in {"ArrayDef", "Param"} /\ is_array(d.ty)
    THEN getty(d.ty) ELSE Pointer(getty(d.ty))

----------------------------------------------------------------------------
(* Expressions.  "sound" is no part of the code: all indices below are     *)
(* integers, no argument is void, and no array is of void.  An "operation" *)
(* has lost its operands: the generator puts their values in their place   *)
(* and asks for their "ty" when it visits the node again (irgen.py:340).   *)

Forms == {"constant", "name", "operation", "other"}
Expression == [form : Forms, ty : Type, val : LLVMType, sound : BOOLEAN]
Expr(form, ty, val, sound) == [form |-> form, ty |-> ty, val |-> val, sound |-> sound]

Visiting == statement.outcome = "visiting"
HasChildren(n) == Len(stack) >= n
Child(n, i) == stack[Len(stack) - n + i]
Rest(n) == SubSeq(stack, 1, Len(stack) - n)
Replace(n, e) == stack' = Append(Rest(n), e) /\ UNCHANGED statement
End(outcome, compiled, sound) ==
  /\ statement' = [outcome |-> outcome, compiled |-> compiled, sound |-> sound]
  /\ stack' = <<>>
Reject == End("rejected", FALSE, TRUE)
Crash == End("crashed", FALSE, TRUE)

Init ==
  /\ stack = <<>>
  /\ statement = [outcome |-> "visiting", compiled |-> FALSE, sound |-> TRUE]

(* visitBoolConst to visitFloatConst; a string is a pointer to its first   *)
(* character.                                                              *)
visitConst(ty) ==
  /\ Visiting /\ Len(stack) < MaxStack
  /\ Replace(0, Expr("constant", ty, getty(ty), TRUE))
Constants == {Basic(b) : b \in Bases \ {"void"}} \cup {[base |-> "char", depth |-> 1]}

Use(d) ==
  Expr("name", d.ty,
       IF is_array(d.ty) /\ ~IsGlobal(d) THEN Address(d) ELSE load(Address(d)),
       ~PointsToVoid(d.ty))
visitVarUse(d) ==
  /\ Visiting /\ Len(stack) < MaxStack
  /\ IF IsFunction(d) THEN Reject ELSE Replace(0, Use(d))

(* Where an element is: an array declared elsewhere is a variable that     *)
(* holds a pointer.                                                        *)
ElementAddress(d, index) ==
  gep(IF IsGlobal(d) THEN load(Address(d)) ELSE Address(d), index)
(* Mutant: an index is taken of any variable.                              *)
visitVarUseIndexAny(d) ==
  /\ Visiting /\ HasChildren(1)
  /\ IF IsFunction(d) THEN Crash
     ELSE Replace(1, Expr("other", ElementOf(d.ty),
                          load(ElementAddress(d, Child(1, 1).val)), FALSE))

(* FunType has no method is_array: an index of a function is not rejected  *)
(* but ends the checker with an AttributeError.                            *)
UseIndex(d, index) ==
  Expr("other", ElementOf(d.ty), load(ElementAddress(d, index.val)),
       index.sound /\ index.ty = Basic("int") /\ ~PointsToVoid(d.ty))
visitVarUseIndex(d) ==
  /\ Visiting /\ HasChildren(1)
  /\ CASE IsFunction(d) -> Crash
       [] ~IsFunction(d) /\ ~is_array(d.ty) -> Reject
       [] OTHER -> Replace(1, UseIndex(d, Child(1, 1)))

(* The parser makes an index of a name part of the use of the name.        *)
Indexed(base, index) ==
  Expr("other", ElementOf(base.ty), load(gep(base.val, index.val)),
       base.sound /\ index.sound)
visitIndex ==
  /\ Visiting /\ HasChildren(2) /\ Child(2, 1).form # "name"
  /\ LET base == Child(2, 1)
         index == Child(2, 2)
     IN IF ~is_array(base.ty) \/ index.ty # Basic("int") THEN Reject
        ELSE Replace(2, Indexed(base, index))

Operators == {"arithmetic", "equality", "relational", "logical"}
operand_types(op) ==
  CASE op = "logical" -> {Basic("bool")}
    [] op \in {"arithmetic", "relational"} -> {Basic("char"), Basic("int"), Basic("float")}
    [] op = "equality" -> {Basic("bool"), Basic("char"), Basic("int"), Basic("float")}
(* Instructions for floats or for integers, by the types of the operands;  *)
(* lazy_conditional branches on the left one and joins both in a phi.      *)
Computes(op, lhs, rhs) ==
  /\ lhs.val = rhs.val
  /\ CASE op = "logical" -> lhs.val = i1
       [] op # "logical" /\ Basic("float") \in {lhs.ty, rhs.ty} ->
            lhs.val = getty(Basic("float"))
       [] OTHER -> IsInteger(lhs.val)
visitBinaryOp(op) ==
  /\ Visiting /\ HasChildren(2)
  /\ LET lhs == Child(2, 1)
         rhs == Child(2, 2)
         compares == op \in {"equality", "relational"}
         form == IF op # "logical" \/ "operation" \in {lhs.form, rhs.form}
                   THEN "operation" ELSE "other"
     IN IF lhs.ty \notin operand_types(op) \/ rhs.ty # lhs.ty THEN Reject
        ELSE Replace(2, Expr(form, IF compares THEN Basic("bool") ELSE lhs.ty,
                             CASE ~Computes(op, lhs, rhs) -> Broken
                               [] Computes(op, lhs, rhs) /\ compares -> i1
                               [] OTHER -> lhs.val,
                             lhs.sound /\ rhs.sound))

(* ! is a comparison with false, - of a float a subtraction from zero; ~   *)
(* does not get past the parser, as Operator does not know it.             *)
visitUnaryOp(op) ==
  /\ Visiting /\ HasChildren(1)
  /\ LET value == Child(1, 1)
         zero == [value EXCEPT !.val = IF op = "logical" THEN i1 ELSE getty(value.ty)]
         form == IF value.form = "operation" THEN "operation" ELSE "other"
     IN IF value.ty \notin operand_types(op) THEN Reject
        ELSE Replace(1, Expr(form, value.ty,
               IF Computes(IF op = "logical" THEN "equality" ELSE op, value, zero)
                 THEN value.val ELSE Broken,
               value.sound))

(* Only the arguments that have a parameter are checked.                   *)
ArgumentsFit(d, args) ==
  /\ IF d.varargs THEN Len(args) >= Len(d.params) ELSE Len(args) = Len(d.params)
  /\ \A i \in DOMAIN d.params : i \in DOMAIN args => args[i].ty = d.params[i]
call(d, args) ==
  IF \A i \in DOMAIN args :
       IF i \in DOMAIN d.params THEN args[i].val = getty(d.params[i])
       ELSE args[i].val.base \notin {"void", "none"}
  THEN getty(d.ty) ELSE Broken
visitFunCall(d, n) ==
  /\ Visiting /\ HasChildren(n) /\ (n > 0 \/ Len(stack) < MaxStack)
  /\ LET args == [i \in 1..n |-> Child(n, i)]
     IN IF ~IsFunction(d) \/ ~ArgumentsFit(d, args) THEN Reject
        ELSE Replace(n, Expr("other", d.ty, call(d, args),
                             /\ ~PointsToVoid(d.ty)
                             /\ \A i \in 1..n : args[i].sound /\ args[i].ty.base # "void"))

----------------------------------------------------------------------------
(* Statements and declarations with values                                 *)

(* Mutant: the value may be of any type.                                   *)
visitAssignmentUnchecked(d) ==
  /\ Visiting /\ Len(stack) = 1
  /\ IF IsFunction(d) \/ is_array(d.ty) THEN Reject
     ELSE End("accepted", Stores(Child(1, 1).val, Address(d)), Child(1, 1).sound)

(* visitAssignment of a name.                                              *)
visitAssignment(d) ==
  /\ Visiting /\ Len(stack) = 1
  /\ LET value == Child(1, 1)
     IN IF IsFunction(d) \/ is_array(d.ty) \/ value.ty # d.ty THEN Reject
        ELSE End("accepted", Stores(value.val, Address(d)), value.sound)

(* visitAssignment of an element: the generator does not load the pointer  *)
(* that a global array is, so the element's address is wrong ("sound").    *)
AssignedAddress(d, index) == gep(Address(d), index)
visitAssignmentElement(d) ==
  /\ Visiting /\ Len(stack) = 2
  /\ LET index == Child(2, 1)
         value == Child(2, 2)
     IN CASE IsFunction(d) -> Crash
          [] /\ ~IsFunction(d)
             /\ \/ ~is_array(d.ty) \/ is_array(ElementOf(d.ty))
                \/ value.ty # ElementOf(d.ty) -> Reject
          [] OTHER -> End("accepted", Stores(value.val, AssignedAddress(d, index.val)),
                          /\ index.sound /\ index.ty = Basic("int") /\ value.sound
                          /\ ~PointsToVoid(d.ty) /\ ~IsGlobal(d))

(* visitAssignment of an element of any other array.                       *)
visitAssignmentIndex ==
  /\ Visiting /\ Len(stack) = 3 /\ Child(3, 1).form # "name"
  /\ LET base == Child(3, 1)
         index == Child(3, 2)
         value == Child(3, 3)
     IN IF \/ ~is_array(base.ty) \/ index.ty # Basic("int")
           \/ is_array(ElementOf(base.ty)) \/ value.ty # ElementOf(base.ty)
        THEN Reject
        ELSE End("accepted", Stores(value.val, gep(base.val, index.val)),
                 base.sound /\ index.sound /\ value.sound)

(* visitModification makes ref op= value the assignment to ref of the      *)
(* operation on ref and value.  Both hold the same node, so an index of    *)
(* ref is visited twice: "again" says that it can be.                      *)
Modify(ref, again, address, value) ==
  IF ref.ty \notin operand_types("arithmetic") \/ value.ty # ref.ty THEN Reject
  ELSE End("accepted",
           again /\ Computes("arithmetic", ref, value) /\ Stores(ref.val, address),
           again /\ ref.sound /\ value.sound)
visitModification(d) ==
  /\ Visiting /\ Len(stack) = 1
  /\ IF IsFunction(d) THEN Reject ELSE Modify(Use(d), TRUE, Address(d), Child(1, 1))
visitModificationElement(d) ==
  /\ Visiting /\ Len(stack) = 2
  /\ LET index == Child(2, 1)
         ref == UseIndex(d, index)
     IN CASE IsFunction(d) -> Crash
          [] ~IsFunction(d) /\ ~is_array(d.ty) -> Reject
          [] OTHER -> Modify([ref EXCEPT !.sound = @ /\ ~IsGlobal(d)],
                             index.form # "operation",
                             AssignedAddress(d, index.val), Child(2, 2))
visitModificationIndex ==
  /\ Visiting /\ Len(stack) = 3 /\ Child(3, 1).form # "name"
  /\ LET base == Child(3, 1)
         index == Child(3, 2)
     IN IF ~is_array(base.ty) \/ index.ty # Basic("int") THEN Reject
        ELSE Modify(Indexed(base, index), index.form # "operation",
                    gep(base.val, index.val), Child(3, 3))

visitVarDef(d) ==
  /\ Visiting /\ Len(stack) = 1 /\ d.kind = "VarDef"
  /\ LET value == Child(1, 1)
     IN IF ~Accepts(d) \/ value.ty # d.ty THEN Reject
        ELSE End("accepted", Stores(value.val, Address(d)), value.sound)

\* The size is multiplied with the size of an element for the memset.
visitArrayDef(d) ==
  /\ Visiting /\ Len(stack) = 1 /\ d.kind = "ArrayDef"
  /\ LET size == Child(1, 1)
     IN IF ~Accepts(d) \/ size.ty # Basic("int") THEN Reject
        ELSE End("accepted", size.val = getty(Basic("int")) /\ ~PointsToVoid(ElementOf(d.ty)),
                 size.sound /\ ~PointsToVoid(d.ty))

visitGlobalDef(d) ==
  /\ Visiting /\ Len(stack) = 1 /\ d.kind = "GlobalDef"
  /\ LET value == Child(1, 1)
     IN IF ~Accepts(d) \/ value.ty # d.ty \/ value.form # "constant" THEN Reject
        ELSE End("accepted", value.val = getty(d.ty), value.sound)

\* visitIf, visitWhile, visitDoWhile: the condition.
visitCondition ==
  /\ Visiting /\ Len(stack) = 1
  /\ LET cond == Child(1, 1)
     IN IF cond.ty # Basic("bool") THEN Reject
        ELSE End("accepted", cond.val = i1, cond.sound)

(* visitReturn in a function that returns retty.                           *)
visitReturn(retty) ==
  /\ Visiting
  /\ \/ /\ Len(stack) = 1
        /\ LET value == Child(1, 1)
           IN IF retty = Basic("void") \/ value.ty # retty THEN Reject
              ELSE End("accepted", value.val = getty(retty), value.sound)
     \/ /\ stack = <<>>
        /\ IF retty # Basic("void") THEN Reject ELSE End("accepted", TRUE, TRUE)

\* An expression as a statement is generated and dropped.
visitExprStatement ==
  /\ Visiting /\ Len(stack) = 1
  /\ End("accepted", Child(1, 1).val # Broken, Child(1, 1).sound)

Next ==
  \/ \E ty \in Constants : visitConst(ty)
  \/ \E d \in Visible :
       \/ visitVarUse(d) \/ visitVarUseIndex(d)
       \/ \E n \in 0..MaxStack : visitFunCall(d, n)
       \/ visitAssignment(d) \/ visitAssignmentElement(d)
       \/ visitModification(d) \/ visitModificationElement(d)
       \/ d.kind = "FunDef" /\ visitReturn(d.ty)
  \/ visitIndex
  \/ \E op \in Operators : visitBinaryOp(op)
  \/ \E op \in {"arithmetic", "logical"} : visitUnaryOp(op)
  \/ \E d \in Declarations : visitVarDef(d) \/ visitArrayDef(d) \/ visitGlobalDef(d)
  \/ visitAssignmentIndex \/ visitModificationIndex \/ visitCondition \/ visitExprStatement

Spec == Init /\ [][Next]_vars
----------------------------------------------------------------------------
(* Properties                                                              *)

(* The annotations of the checker are types, the values of the generator   *)
(* have LLVM types.                                                        *)
TypeOK ==
  /\ stack \in Seq(Expression) /\ Len(stack) <= MaxStack
  /\ statement \in [outcome : {"visiting", "accepted", "rejected", "crashed"},
                    compiled : BOOLEAN, sound : BOOLEAN]

(* The two visitors agree (typecheck.py:148-241, irgen.py:286-427): the    *)
(* value of every expression the checker lets pass, however deep, has the  *)
(* type the checker gave the expression - unless an index below is no      *)
(* integer, an argument is void or an array is of void, which the checker  *)
(* should not let pass (typecheck.py:153, :213, :105).                     *)
TypesAgree ==
  \A i \in DOMAIN stack : stack[i].sound => stack[i].val = getty(stack[i].ty)

(* A statement the checker accepts is ready for IR generation, as          *)
(* typecheck.py:9 promises: llvmlite takes all operands.  The exceptions   *)
(* are those above, the assignment to an element of a global array         *)
(* (irgen.py:118), and op= on an element whose index is an operation, as   *)
(* a[i + 1] += 1: desugar.py:51 makes two uses of one node, and the second *)
(* visit of the index fails (irgen.py:122, :340).                          *)
AcceptedCompiles ==
  statement.outcome = "accepted" /\ statement.sound => statement.compiled
=============================================================================
