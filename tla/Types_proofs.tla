---------------------------- MODULE Types_proofs ----------------------------
(***************************************************************************)
(* Proofs about the type checker and the generator, for all declarations   *)
(* and expressions of any depth and width.                                 *)
(***************************************************************************)
EXTENDS Types, TLAPS

(* The invariant: what waits on the stack is enough to know that the       *)
(* statement above it will compile.                                        *)
IInv == TypeOK /\ TypesAgree /\ AcceptedCompiles

----------------------------------------------------------------------------
(* Types                                                                   *)

(* LLVM has one type for each type of the language, none of them Broken.   *)
LEMMA GettyType ==
  ASSUME NEW ty \in Type
  PROVE  /\ getty(ty) \in LLVMType
         /\ getty(ty).depth = ty.depth /\ getty(ty).base # "none"
         /\ ty.base # "void" => getty(ty).base # "void"
<1>1. CASE ty.base = "bool" BY <1>1 DEF getty, Type, LLVMType, LLVMBase, Integer
<1>2. CASE ty.base = "char" BY <1>2 DEF getty, Type, LLVMType, LLVMBase, Integer
<1>3. CASE ty.base = "int" BY <1>3 DEF getty, Type, LLVMType, LLVMBase, Integer
<1>4. CASE ty.base = "float" BY <1>4 DEF getty, Type, LLVMType, LLVMBase, Integer
<1>5. CASE ty.base = "void" BY <1>5 DEF getty, Type, LLVMType, LLVMBase, Integer
<1> QED BY <1>1, <1>2, <1>3, <1>4, <1>5 DEF Type, Bases

(* The basic types are types, and known to LLVM.                           *)
LEMMA BasicTypes ==
  /\ \A b \in Bases : Basic(b) \in Type
  /\ \A ty \in Constants : ty \in Type
  /\ getty(Basic("bool")) = [base |-> "i1", depth |-> 0]
  /\ getty(Basic("char")) = [base |-> "i8", depth |-> 0]
  /\ getty(Basic("int")) = [base |-> "i32", depth |-> 0]
  /\ getty(Basic("float")) = [base |-> "double", depth |-> 0]
BY DEF Basic, Type, Bases, getty, LLVMBase, Constants

(* What points to an array's elements has the type of the array.           *)
LEMMA Elements ==
  ASSUME NEW ty \in Type
  PROVE  /\ Pointer(getty(ty)) \in LLVMType
         /\ load(Pointer(getty(ty))) = getty(ty)
         /\ Pointer(getty(ty)).depth > 0
         /\ is_array(ty) => /\ ElementOf(ty) \in Type
                            /\ getty(ty).depth > 0
                            /\ load(getty(ty)) = getty(ElementOf(ty))
<1>1. /\ getty(ty) = [base |-> LLVMBase[ty.base], depth |-> ty.depth]
      /\ getty(ty) \in LLVMType
  BY GettyType DEF getty
<1>2. /\ Pointer(getty(ty)) = [base |-> LLVMBase[ty.base], depth |-> ty.depth + 1]
      /\ Pointer(getty(ty)) \in LLVMType
  BY <1>1 DEF Pointer, LLVMType, Type
<1>3. load(Pointer(getty(ty))) = getty(ty)
  BY <1>1, <1>2 DEF load, Type
<1>4. ASSUME is_array(ty)
      PROVE  /\ ElementOf(ty) \in Type
             /\ getty(ty).depth > 0
             /\ load(getty(ty)) = getty(ElementOf(ty))
  <2>1. ElementOf(ty) = [base |-> ty.base, depth |-> ty.depth - 1]
    BY <1>4 DEF ElementOf, is_array, Type
  <2>2. load(getty(ty)) = [base |-> LLVMBase[ty.base], depth |-> ty.depth - 1]
    BY <1>1, <1>4 DEF load, is_array, Type
  <2> QED BY <1>1, <1>4, <2>1, <2>2 DEF getty, is_array, Type
<1> QED BY <1>2, <1>3, <1>4, GettyType, <1>1 DEF Type

(* Loads and addresses of values are values.                               *)
LEMMA Values ==
  ASSUME NEW val \in LLVMType, NEW index
  PROVE  load(val) \in LLVMType /\ gep(val, index) \in LLVMType
BY DEF load, gep, Broken, LLVMType

----------------------------------------------------------------------------
(* The two ways a visit ends                                               *)

(* The stack with one more expression.                                     *)
LEMMA Pushed ==
  ASSUME NEW S, NEW s \in Seq(S), NEW e \in S
  PROVE  /\ Append(s, e) \in Seq(S)
         /\ Len(Append(s, e)) = Len(s) + 1
         /\ \A i \in DOMAIN Append(s, e) :
              \/ Append(s, e)[i] = e
              \/ i \in DOMAIN s /\ Append(s, e)[i] = s[i]
OBVIOUS

(* An expression takes the place of its children.                          *)
LEMMA ReplaceKeeps ==
  ASSUME IInv, NEW n \in Nat, HasChildren(n), n > 0 \/ Len(stack) < MaxStack,
         NEW e \in Expression, e.sound => e.val = getty(e.ty), Replace(n, e)
  PROVE  IInv'
<1> USE StackAssumption DEF IInv, TypeOK, TypesAgree, AcceptedCompiles, HasChildren
<1>1. /\ Rest(n) \in Seq(Expression)
      /\ Len(Rest(n)) = Len(stack) - n
      /\ \A i \in DOMAIN Rest(n) : i \in DOMAIN stack /\ Rest(n)[i] = stack[i]
  BY DEF Rest
<1>2. stack' = Append(Rest(n), e) /\ statement' = statement
  BY DEF Replace
<1>3. /\ stack' \in Seq(Expression)
      /\ Len(stack') = Len(stack) - n + 1
      /\ \A i \in DOMAIN stack' : \/ stack'[i] = e
                                  \/ i \in DOMAIN Rest(n) /\ stack'[i] = Rest(n)[i]
  <2> HIDE DEF IInv, TypesAgree, AcceptedCompiles, HasChildren, TypeOK
  <2>1. PICK r : r = Rest(n)
    OBVIOUS
  <2>2. /\ Append(r, e) \in Seq(Expression)
        /\ Len(Append(r, e)) = Len(r) + 1
        /\ \A i \in DOMAIN Append(r, e) :
             \/ Append(r, e)[i] = e
             \/ i \in DOMAIN r /\ Append(r, e)[i] = r[i]
    BY <1>1, <2>1, Pushed
  <2> QED BY <1>1, <1>2, <2>1, <2>2
<1>4. TypeOK'
  BY <1>2, <1>3
<1>5. TypesAgree'
  BY <1>1, <1>2, <1>3
<1>6. AcceptedCompiles'
  BY <1>2
<1> QED BY <1>4, <1>5, <1>6

(* The statement is visited.                                               *)
LEMMA EndKeeps ==
  ASSUME IInv, NEW outcome \in {"accepted", "rejected", "crashed"},
         NEW compiled \in BOOLEAN, NEW sound \in BOOLEAN,
         outcome = "accepted" /\ sound => compiled,
         End(outcome, compiled, sound)
  PROVE  IInv'
<1>1. /\ stack' = <<>>
      /\ statement' = [outcome |-> outcome, compiled |-> compiled, sound |-> sound]
  BY DEF End
<1>2. TypeOK'
  BY <1>1, StackAssumption DEF TypeOK
<1>3. TypesAgree'
  BY <1>1 DEF TypesAgree
<1>4. AcceptedCompiles'
  BY <1>1 DEF AcceptedCompiles
<1> QED BY <1>2, <1>3, <1>4 DEF IInv

(* An error of the program or of the checker.                              *)
LEMMA RejectKeeps == IInv /\ (Reject \/ Crash) => IInv'
BY EndKeeps DEF Reject, Crash

(* The top of the stack: the children of a node with n children.           *)
LEMMA Children ==
  ASSUME IInv, NEW n \in Nat, HasChildren(n), NEW i \in 1..n
  PROVE  /\ Child(n, i) \in Expression
         /\ Child(n, i).sound => Child(n, i).val = getty(Child(n, i).ty)
BY DEF IInv, TypeOK, TypesAgree, HasChildren, Child

(* What the fields of an expression are.                                   *)
LEMMA Fields ==
  ASSUME NEW form \in Forms, NEW ty \in Type,
         NEW val \in LLVMType, NEW sound \in BOOLEAN
  PROVE  /\ Expr(form, ty, val, sound) \in Expression
         /\ Expr(form, ty, val, sound).sound = sound
         /\ Expr(form, ty, val, sound).val = val
         /\ Expr(form, ty, val, sound).ty = ty
BY DEF Expr, Expression

(* A node with n children becomes an expression of type ty and value val.  *)
LEMMA NodeKeeps ==
  ASSUME IInv, NEW n \in Nat, HasChildren(n), n > 0 \/ Len(stack) < MaxStack,
         NEW form \in Forms, NEW ty \in Type,
         NEW val \in LLVMType, NEW sound \in BOOLEAN,
         sound => val = getty(ty),
         Replace(n, Expr(form, ty, val, sound))
  PROVE  IInv'
BY Fields, ReplaceKeeps

----------------------------------------------------------------------------
(* Expressions                                                             *)

(* The declarations are declarations.                                      *)
LEMMA Declared ==
  ASSUME NEW d \in Declarations
  PROVE  /\ d.ty \in Type /\ d.params \in Seq(Type)
         /\ d.kind = "ArrayDef" => is_array(d.ty)
BY DeclarationsAssumption DEF Declaration

(* An address is a pointer: to what the declaration holds, or for an array *)
(* in memory or passed to the function, to its elements.                   *)
LEMMA Addresses ==
  ASSUME NEW d \in Declarations
  PROVE  /\ Address(d) \in LLVMType
         /\ Address(d).depth > 0
         /\ Address(d) = IF d.kind \in {"ArrayDef", "Param"} /\ is_array(d.ty)
                           THEN getty(d.ty) ELSE Pointer(getty(d.ty))
         /\ IsGlobal(d) => load(Address(d)) = getty(d.ty)
         /\ ~is_array(d.ty) => load(Address(d)) = getty(d.ty)
BY Declared, Elements, GettyType DEF Address, IsGlobal

(* Constants.                                                              *)
LEMMA ConstKeeps ==
  ASSUME IInv, NEW ty \in Constants, visitConst(ty)
  PROVE  IInv'
<1>1. ty \in Type
  BY BasicTypes
<1>2. HasChildren(0)
  BY DEF HasChildren, IInv, TypeOK
<1>3. "constant" \in Forms
  BY DEF Forms
<1> QED BY <1>1, <1>2, <1>3, GettyType, NodeKeeps DEF visitConst

(* The use of a variable.  A local array that is no argument and not       *)
(* defined with a size does not get past the check of its declaration.     *)
LEMMA Used ==
  ASSUME NEW d \in Visible, ~IsFunction(d)
  PROVE  /\ Use(d) \in Expression /\ Use(d).ty = d.ty
         /\ Use(d).val = getty(d.ty)
<1>1. d \in Declarations /\ Accepts(d)
  BY DEF Visible
<1>2. d.kind \in Variables
  BY <1>1, DeclarationsAssumption DEF IsFunction, Declaration
<1> DEFINE val == IF is_array(d.ty) /\ ~IsGlobal(d) THEN Address(d) ELSE load(Address(d))
<1>3. val = getty(d.ty)
  BY <1>1, <1>2, Addresses, Declared DEF Variables, Accepts, IsGlobal
<1>4. getty(d.ty) \in LLVMType /\ d.ty \in Type
  BY <1>1, Declared, GettyType
<1> DEFINE sound == ~PointsToVoid(d.ty)
<1>5. Use(d) = Expr("name", d.ty, val, sound)
  BY DEF Use
<1>6. "name" \in Forms /\ sound \in BOOLEAN
  BY DEF Forms
<1> HIDE DEF val, sound
<1>7. /\ Expr("name", d.ty, val, sound) \in Expression
      /\ Expr("name", d.ty, val, sound).val = val
      /\ Expr("name", d.ty, val, sound).ty = d.ty
  BY <1>3, <1>4, <1>6, Fields
<1> QED BY <1>3, <1>5, <1>7

LEMMA VarUseKeeps ==
  ASSUME IInv, NEW d \in Visible, visitVarUse(d)
  PROVE  IInv'
<1>1. CASE IsFunction(d)
  BY <1>1, RejectKeeps DEF visitVarUse
<1>2. CASE ~IsFunction(d)
  <2>1. HasChildren(0)
    BY DEF HasChildren, IInv, TypeOK
  <2>2. Len(stack) < MaxStack /\ Replace(0, Use(d))
    BY <1>2 DEF visitVarUse
  <2> QED BY <1>2, <2>1, <2>2, Used, ReplaceKeeps
<1> QED BY <1>1, <1>2

(* The use of an element of a variable's array.                            *)
LEMMA UsedElement ==
  ASSUME NEW d \in Visible, ~IsFunction(d), is_array(d.ty),
         NEW index \in Expression, index.sound => index.val = getty(index.ty)
  PROVE  /\ UseIndex(d, index) \in Expression
         /\ UseIndex(d, index).ty = ElementOf(d.ty)
         /\ UseIndex(d, index).sound =>
              /\ index.sound /\ index.ty = Basic("int")
              /\ UseIndex(d, index).val = getty(ElementOf(d.ty))
<1> DEFINE val == load(ElementAddress(d, index.val))
           sound == index.sound /\ index.ty = Basic("int") /\ ~PointsToVoid(d.ty)
<1>1. d \in Declarations /\ Accepts(d)
  BY DEF Visible
<1>2. d.kind \in Variables /\ d.ty \in Type /\ ElementOf(d.ty) \in Type
  BY <1>1, DeclarationsAssumption, Elements DEF IsFunction, Declaration
<1>3. val \in LLVMType
  BY <1>1, Addresses, Values DEF ElementAddress
<1>4. ASSUME sound PROVE val = getty(ElementOf(d.ty))
  <2>1. IsInteger(index.val)
    BY <1>4, BasicTypes DEF IsInteger, Integer
  <2>2. ElementAddress(d, index.val) = getty(d.ty)
    BY <1>1, <1>2, <2>1, Addresses, Elements
       DEF ElementAddress, gep, Accepts, Variables, IsGlobal
  <2> QED BY <1>2, <2>2, Elements
<1>5. UseIndex(d, index) = Expr("other", ElementOf(d.ty), val, sound)
  BY DEF UseIndex
<1>6. "other" \in Forms /\ sound \in BOOLEAN
  BY DEF Forms, Expression
<1>7. sound => index.sound /\ index.ty = Basic("int")
  OBVIOUS
<1> HIDE DEF val, sound
<1>8. /\ Expr("other", ElementOf(d.ty), val, sound) \in Expression
      /\ Expr("other", ElementOf(d.ty), val, sound).sound = sound
      /\ Expr("other", ElementOf(d.ty), val, sound).val = val
      /\ Expr("other", ElementOf(d.ty), val, sound).ty = ElementOf(d.ty)
  BY <1>2, <1>3, <1>6, Fields
<1> QED BY <1>4, <1>5, <1>7, <1>8

LEMMA VarUseIndexKeeps ==
  ASSUME IInv, NEW d \in Visible, visitVarUseIndex(d)
  PROVE  IInv'
<1>1. CASE IsFunction(d) \/ ~is_array(d.ty)
  BY <1>1, RejectKeeps DEF visitVarUseIndex
<1>2. CASE ~IsFunction(d) /\ is_array(d.ty)
  <2>1. HasChildren(1) /\ Replace(1, UseIndex(d, Child(1, 1)))
    BY <1>2 DEF visitVarUseIndex
  <2>2. /\ Child(1, 1) \in Expression
        /\ Child(1, 1).sound => Child(1, 1).val = getty(Child(1, 1).ty)
    BY <2>1, Children
  <2> QED BY <1>2, <2>1, <2>2, UsedElement, ReplaceKeeps
<1> QED BY <1>1, <1>2

(* The use of an element of any other array.                               *)
LEMMA IndexedElement ==
  ASSUME NEW base \in Expression, base.sound => base.val = getty(base.ty),
         NEW index \in Expression, index.sound => index.val = getty(index.ty),
         is_array(base.ty), index.ty = Basic("int")
  PROVE  /\ Indexed(base, index) \in Expression
         /\ Indexed(base, index).ty = ElementOf(base.ty)
         /\ Indexed(base, index).sound =>
              /\ Indexed(base, index).val = getty(ElementOf(base.ty))
              /\ gep(base.val, index.val) = getty(base.ty)
<1> DEFINE val == load(gep(base.val, index.val))
           sound == base.sound /\ index.sound
<1>1. /\ base.val \in LLVMType /\ base.ty \in Type
      /\ base.sound \in BOOLEAN /\ index.sound \in BOOLEAN
  BY DEF Expression
<1>2. val \in LLVMType /\ ElementOf(base.ty) \in Type
  BY <1>1, Values, Elements
<1>3. ASSUME sound
      PROVE  val = getty(ElementOf(base.ty)) /\ gep(base.val, index.val) = getty(base.ty)
  <2>1. IsInteger(index.val)
    BY <1>3, BasicTypes DEF IsInteger, Integer
  <2>2. gep(base.val, index.val) = getty(base.ty)
    BY <1>1, <1>3, <2>1, Elements DEF gep
  <2> QED BY <1>1, <2>2, Elements
<1>4. Indexed(base, index) = Expr("other", ElementOf(base.ty), val, sound)
  BY DEF Indexed
<1>5. "other" \in Forms /\ sound \in BOOLEAN
  BY <1>1 DEF Forms
<1> HIDE DEF val, sound
<1>6. /\ Expr("other", ElementOf(base.ty), val, sound) \in Expression
      /\ Expr("other", ElementOf(base.ty), val, sound).sound = sound
      /\ Expr("other", ElementOf(base.ty), val, sound).val = val
      /\ Expr("other", ElementOf(base.ty), val, sound).ty = ElementOf(base.ty)
  BY <1>2, <1>5, Fields
<1> QED BY <1>3, <1>4, <1>6

LEMMA IndexKeeps ==
  ASSUME IInv, visitIndex
  PROVE  IInv'
<1> DEFINE base == Child(2, 1)
           index == Child(2, 2)
<1>1. CASE ~is_array(base.ty) \/ index.ty # Basic("int")
  BY <1>1, RejectKeeps DEF visitIndex
<1>2. CASE is_array(base.ty) /\ index.ty = Basic("int")
  <2>1. HasChildren(2) /\ Replace(2, Indexed(base, index))
    BY <1>2 DEF visitIndex
  <2>2. /\ base \in Expression /\ index \in Expression
        /\ base.sound => base.val = getty(base.ty)
        /\ index.sound => index.val = getty(index.ty)
    BY <2>1, Children
  <2> QED BY <1>2, <2>1, <2>2, IndexedElement, ReplaceKeeps
<1> QED BY <1>1, <1>2

(* What an instruction gets when the checker lets its operands pass.       *)
LEMMA Operands ==
  ASSUME NEW op \in Operators, NEW ty \in operand_types(op)
  PROVE  /\ ty \in Type
         /\ op = "logical" => getty(ty) = i1
         /\ ty = Basic("float") \/ op = "logical" \/ IsInteger(getty(ty))
         /\ getty(ty) \in LLVMType
<1>1. \/ ty = Basic("bool")
      \/ op # "logical" /\ ty \in {Basic("char"), Basic("int"), Basic("float")}
  <2>1. CASE op = "logical"
    BY <2>1 DEF operand_types
  <2>2. CASE op \in {"arithmetic", "relational"}
    BY <2>2 DEF operand_types
  <2>3. CASE op = "equality"
    BY <2>3 DEF operand_types
  <2> QED BY <2>1, <2>2, <2>3 DEF Operators
<1>2. ty \in Type /\ getty(ty) \in LLVMType
  BY <1>1, BasicTypes, GettyType DEF Bases
<1> QED BY <1>1, <1>2, BasicTypes DEF i1, IsInteger, Integer

(* Operands of one type are fit for the instruction of that type.          *)
LEMMA ComputesSame ==
  ASSUME NEW op \in Operators, NEW lhs \in Expression, NEW rhs \in Expression,
         lhs.ty \in operand_types(op), rhs.ty = lhs.ty,
         lhs.val = getty(lhs.ty), rhs.val = getty(rhs.ty)
  PROVE  Computes(op, lhs, rhs)
<1>1. lhs.ty = Basic("float") \/ op = "logical" \/ IsInteger(lhs.val)
  BY Operands
<1>2. op = "logical" => lhs.val = i1
  BY Operands
<1>3. Basic("float") \in {lhs.ty, rhs.ty} => lhs.val = getty(Basic("float"))
  OBVIOUS
<1>4. lhs.ty = Basic("float") => Basic("float") \in {lhs.ty, rhs.ty}
  OBVIOUS
<1> QED BY <1>1, <1>2, <1>3, <1>4 DEF Computes

(* Binary operators.                                                       *)
LEMMA BinaryOpKeeps ==
  ASSUME IInv, NEW op \in Operators, visitBinaryOp(op)
  PROVE  IInv'
<1> DEFINE lhs == Child(2, 1)
           rhs == Child(2, 2)
           compares == op \in {"equality", "relational"}
<1>1. CASE lhs.ty \notin operand_types(op) \/ rhs.ty # lhs.ty
  BY <1>1, RejectKeeps DEF visitBinaryOp
<1>2. CASE lhs.ty \in operand_types(op) /\ rhs.ty = lhs.ty
  <2> DEFINE ty == IF compares THEN Basic("bool") ELSE lhs.ty
             val == CASE ~Computes(op, lhs, rhs) -> Broken
                      [] Computes(op, lhs, rhs) /\ compares -> i1
                      [] OTHER -> lhs.val
             sound == lhs.sound /\ rhs.sound
             form == IF op # "logical" \/ "operation" \in {lhs.form, rhs.form}
                       THEN "operation" ELSE "other"
  <2>1. HasChildren(2) /\ Replace(2, Expr(form, ty, val, sound))
    BY <1>2 DEF visitBinaryOp
  <2>2. /\ lhs \in Expression /\ rhs \in Expression
        /\ lhs.sound => lhs.val = getty(lhs.ty)
        /\ rhs.sound => rhs.val = getty(rhs.ty)
    BY <2>1, Children
  <2>3. ty \in Type
    BY <1>2, Operands, BasicTypes DEF Bases
  <2>4. val \in LLVMType
    <3>1. lhs.val \in LLVMType
      BY <2>2 DEF Expression
    <3>2. i1 \in LLVMType /\ Broken \in LLVMType
      BY BasicTypes, GettyType DEF Broken, LLVMType, i1, Bases
    <3> QED BY <3>1, <3>2
  <2>5. sound \in BOOLEAN
    BY <2>2 DEF Expression
  <2>6. ASSUME sound PROVE val = getty(ty)
    <3>1. Computes(op, lhs, rhs) /\ lhs.val = getty(lhs.ty)
      BY <1>2, <2>2, <2>6, ComputesSame
    <3> QED BY <3>1 DEF i1
  <2>7. form \in Forms
    BY DEF Forms
  <2> HIDE DEF val, sound, ty, form
  <2> QED BY <2>1, <2>3, <2>4, <2>5, <2>6, <2>7, NodeKeeps
<1> QED BY <1>1, <1>2

(* Unary operators: an operand that passes is compared with or subtracted  *)
(* from a constant of its own type.                                        *)
LEMMA UnaryOpKeeps ==
  ASSUME IInv, NEW op \in {"arithmetic", "logical"}, visitUnaryOp(op)
  PROVE  IInv'
<1> DEFINE value == Child(1, 1)
           zero == [value EXCEPT !.val = IF op = "logical" THEN i1 ELSE getty(value.ty)]
           op2 == IF op = "logical" THEN "equality" ELSE op
<1>1. CASE value.ty \notin operand_types(op)
  BY <1>1, RejectKeeps DEF visitUnaryOp
<1>2. CASE value.ty \in operand_types(op)
  <2> DEFINE val == IF Computes(op2, value, zero) THEN value.val ELSE Broken
             sound == value.sound
             form == IF value.form = "operation" THEN "operation" ELSE "other"
  <2>1. HasChildren(1) /\ Replace(1, Expr(form, value.ty, val, sound))
    BY <1>2 DEF visitUnaryOp
  <2>2. value \in Expression /\ (value.sound => value.val = getty(value.ty))
    BY <2>1, Children
  <2>3. value.ty \in Type /\ value.val \in LLVMType /\ sound \in BOOLEAN
    BY <2>2 DEF Expression
  <2>4. val \in LLVMType
    BY <2>3 DEF Broken, LLVMType
  <2>5. ASSUME sound PROVE val = getty(value.ty)
    <3>1. value.val = getty(value.ty)
      BY <2>2, <2>5
    <3>2. op = "logical" => i1 = getty(value.ty)
      BY <1>2, Operands DEF Operators
    <3>3. zero \in Expression /\ zero.ty = value.ty /\ zero.val = getty(zero.ty)
      BY <2>2, <2>3, <3>2, GettyType DEF Expression
    <3>4. op2 \in Operators /\ value.ty \in operand_types(op2)
      BY <1>2 DEF operand_types, Operators
    <3> QED BY <2>2, <3>1, <3>3, <3>4, ComputesSame
  <2>6. form \in Forms
    BY DEF Forms
  <2> HIDE DEF val, sound, form
  <2> QED BY <2>1, <2>3, <2>4, <2>5, <2>6, NodeKeeps
<1> QED BY <1>1, <1>2

(* Calls: the arguments that have a parameter fit it, the others only have *)
(* to be values.                                                           *)
LEMMA FunCallKeeps ==
  ASSUME IInv, NEW d \in Visible, NEW n \in 0..MaxStack, visitFunCall(d, n)
  PROVE  IInv'
<1> DEFINE args == [i \in 1..n |-> Child(n, i)]
<1>1. CASE ~IsFunction(d) \/ ~ArgumentsFit(d, args)
  BY <1>1, RejectKeeps DEF visitFunCall
<1>2. CASE IsFunction(d) /\ ArgumentsFit(d, args)
  <2> DEFINE val == call(d, args)
             sound == /\ ~PointsToVoid(d.ty)
                      /\ \A i \in 1..n : args[i].sound /\ args[i].ty.base # "void"
  <2>1. /\ HasChildren(n) /\ (n > 0 \/ Len(stack) < MaxStack)
        /\ Replace(n, Expr("other", d.ty, val, sound))
    BY <1>2 DEF visitFunCall
  <2>2. d.ty \in Type /\ getty(d.ty) \in LLVMType /\ d.params \in Seq(Type)
    BY Declared, GettyType DEF Visible
  <2>3. n \in Nat /\ DOMAIN args = 1..n /\ DOMAIN d.params = 1..Len(d.params)
    BY <2>2, StackAssumption
  <2>4. ASSUME NEW i \in 1..n
        PROVE  args[i] \in Expression /\ (args[i].sound => args[i].val = getty(args[i].ty))
    BY <2>1, <2>3, <2>4, Children
  <2>5. val \in LLVMType
    BY <2>2 DEF call, Broken, LLVMType
  <2>6. ASSUME sound PROVE val = getty(d.ty)
    <3>1. ASSUME NEW i \in 1..n
          PROVE  IF i \in DOMAIN d.params THEN args[i].val = getty(d.params[i])
                 ELSE args[i].val.base \notin {"void", "none"}
      <4>1. /\ args[i].ty \in Type /\ args[i].val = getty(args[i].ty)
            /\ args[i].ty.base # "void"
        BY <2>4, <2>6 DEF Expression
      <4>2. i \in DOMAIN d.params => args[i].ty = d.params[i]
        BY <1>2, <2>3 DEF ArgumentsFit
      <4> QED BY <4>1, <4>2, GettyType
    <3> QED BY <2>3, <3>1 DEF call
  <2> HIDE DEF val, sound
  <2>7. sound \in BOOLEAN /\ "other" \in Forms
    BY DEF sound, Forms
  <2> QED BY <2>1, <2>2, <2>3, <2>5, <2>6, <2>7, NodeKeeps
<1> QED BY <1>1, <1>2

----------------------------------------------------------------------------
(* Statements                                                              *)

(* An expression alone on the stack.                                       *)
LEMMA OnlyChild ==
  ASSUME IInv, NEW n \in Nat, Len(stack) = n, NEW i \in 1..n
  PROVE  /\ Child(n, i) \in Expression /\ Child(n, i).sound \in BOOLEAN
         /\ Child(n, i).ty \in Type /\ Child(n, i).val \in LLVMType
         /\ Child(n, i).sound => Child(n, i).val = getty(Child(n, i).ty)
<1>1. HasChildren(n)
  BY DEF HasChildren
<1> QED BY <1>1, Children DEF Expression

(* Assignments to a name.                                                  *)
LEMMA AssignmentKeeps ==
  ASSUME IInv, NEW d \in Visible, visitAssignment(d)
  PROVE  IInv'
<1> DEFINE value == Child(1, 1)
           compiled == Stores(value.val, Address(d))
<1>1. CASE IsFunction(d) \/ is_array(d.ty) \/ value.ty # d.ty
  BY <1>1, RejectKeeps DEF visitAssignment
<1>2. CASE ~(IsFunction(d) \/ is_array(d.ty) \/ value.ty # d.ty)
  <2>1. End("accepted", compiled, value.sound) /\ Len(stack) = 1
    BY <1>2 DEF visitAssignment
  <2>2. value.sound \in BOOLEAN /\ (value.sound => value.val = getty(value.ty))
    BY <2>1, OnlyChild
  <2>3. value.sound => compiled
    BY <1>2, <2>2, Addresses DEF Stores, Visible
  <2> HIDE DEF compiled
  <2>4. compiled \in BOOLEAN
    BY DEF compiled, Stores
  <2> QED BY <2>1, <2>2, <2>3, <2>4, EndKeeps
<1> QED BY <1>1, <1>2

(* Assignments to an element of a variable's array.                        *)
LEMMA AssignmentElementKeeps ==
  ASSUME IInv, NEW d \in Visible, visitAssignmentElement(d)
  PROVE  IInv'
<1> DEFINE index == Child(2, 1)
           value == Child(2, 2)
           compiled == Stores(value.val, AssignedAddress(d, index.val))
           sound == /\ index.sound /\ index.ty = Basic("int") /\ value.sound
                    /\ ~PointsToVoid(d.ty) /\ ~IsGlobal(d)
<1>1. CASE \/ IsFunction(d) \/ ~is_array(d.ty) \/ is_array(ElementOf(d.ty))
           \/ value.ty # ElementOf(d.ty)
  BY <1>1, RejectKeeps DEF visitAssignmentElement
<1>2. CASE ~(\/ IsFunction(d) \/ ~is_array(d.ty) \/ is_array(ElementOf(d.ty))
             \/ value.ty # ElementOf(d.ty))
  <2>1. End("accepted", compiled, sound) /\ Len(stack) = 2
    BY <1>2 DEF visitAssignmentElement
  <2>2. /\ index.sound => index.val = getty(index.ty)
        /\ value.sound => value.val = getty(value.ty)
    BY <2>1, OnlyChild
  <2>3. d \in Declarations /\ Accepts(d)
    BY DEF Visible
  <2>4. d.kind \in Variables /\ d.ty \in Type
    BY <1>2, <2>3, DeclarationsAssumption DEF IsFunction, Declaration
  <2>5. ASSUME sound PROVE compiled
    <3>1. IsInteger(index.val)
      BY <2>2, <2>5, BasicTypes DEF IsInteger, Integer
    <3>2. Address(d) = getty(d.ty)
      BY <1>2, <2>3, <2>4, <2>5, Addresses DEF Accepts, Variables, IsGlobal
    <3>3. AssignedAddress(d, index.val) = getty(d.ty)
      BY <1>2, <2>4, <3>1, <3>2, Elements DEF AssignedAddress, gep
    <3> QED BY <1>2, <2>2, <2>4, <2>5, <3>3, Elements DEF Stores
  <2> HIDE DEF compiled, sound
  <2>6. compiled \in BOOLEAN /\ sound \in BOOLEAN
    BY DEF compiled, sound, Stores
  <2> QED BY <2>1, <2>5, <2>6, EndKeeps
<1> QED BY <1>1, <1>2

(* Assignments to an element of any other array.                           *)
LEMMA AssignmentIndexKeeps ==
  ASSUME IInv, visitAssignmentIndex
  PROVE  IInv'
<1> DEFINE base == Child(3, 1)
           index == Child(3, 2)
           value == Child(3, 3)
           compiled == Stores(value.val, gep(base.val, index.val))
           sound == base.sound /\ index.sound /\ value.sound
           wrong == \/ ~is_array(base.ty) \/ index.ty # Basic("int")
                    \/ is_array(ElementOf(base.ty)) \/ value.ty # ElementOf(base.ty)
<1>1. CASE wrong
  BY <1>1, RejectKeeps DEF visitAssignmentIndex
<1>2. CASE ~wrong
  <2>1. End("accepted", compiled, sound) /\ Len(stack) = 3
    BY <1>2 DEF visitAssignmentIndex
  <2>2. /\ base.ty \in Type /\ base.sound \in BOOLEAN
        /\ index.sound \in BOOLEAN /\ value.sound \in BOOLEAN
        /\ base.sound => base.val = getty(base.ty)
        /\ index.sound => index.val = getty(index.ty)
        /\ value.sound => value.val = getty(value.ty)
    BY <2>1, OnlyChild
  <2>3. ASSUME sound PROVE compiled
    <3>1. IsInteger(index.val)
      BY <1>2, <2>2, <2>3, BasicTypes DEF IsInteger, Integer
    <3>2. gep(base.val, index.val) = getty(base.ty)
      BY <1>2, <2>2, <2>3, <3>1, Elements DEF gep
    <3> QED BY <1>2, <2>2, <2>3, <3>2, Elements DEF Stores
  <2> HIDE DEF compiled, sound
  <2>4. compiled \in BOOLEAN /\ sound \in BOOLEAN
    BY DEF compiled, sound, Stores
  <2> QED BY <2>1, <2>3, <2>4, EndKeeps
<1> QED BY <1>1, <1>2

(* op= on what the address holds.                                          *)
LEMMA ModifyKeeps ==
  ASSUME IInv, NEW ref \in Expression, NEW value \in Expression,
         NEW again \in BOOLEAN, NEW address \in LLVMType,
         value.sound => value.val = getty(value.ty),
         again /\ ref.sound /\ ref.ty \in operand_types("arithmetic") =>
           ref.val = getty(ref.ty) /\ Stores(ref.val, address),
         Modify(ref, again, address, value)
  PROVE  IInv'
<1> DEFINE compiled ==
             again /\ Computes("arithmetic", ref, value) /\ Stores(ref.val, address)
           sound == again /\ ref.sound /\ value.sound
           wrong == ref.ty \notin operand_types("arithmetic") \/ value.ty # ref.ty
<1>1. CASE wrong
  BY <1>1, RejectKeeps DEF Modify
<1>2. CASE ~wrong
  <2>1. End("accepted", compiled, sound)
    BY <1>2 DEF Modify
  <2>2. ASSUME sound PROVE compiled
    <3>1. ref.val = getty(ref.ty) /\ Stores(ref.val, address)
      BY <1>2, <2>2
    <3>2. Computes("arithmetic", ref, value)
      BY <1>2, <2>2, <3>1, ComputesSame DEF Operators
    <3> QED BY <2>2, <3>1, <3>2
  <2>3. compiled \in BOOLEAN /\ sound \in BOOLEAN
    BY DEF Stores, Computes, Expression
  <2> HIDE DEF compiled, sound
  <2> QED BY <2>1, <2>2, <2>3, EndKeeps
<1> QED BY <1>1, <1>2

(* Values that arithmetic takes are no arrays.                             *)
LEMMA Arithmetic == \A ty \in operand_types("arithmetic") : ~is_array(ty)
BY DEF operand_types, is_array, Basic

(* op= on a variable.                                                      *)
LEMMA ModificationKeeps ==
  ASSUME IInv, NEW d \in Visible, visitModification(d)
  PROVE  IInv'
<1>1. CASE IsFunction(d)
  BY <1>1, RejectKeeps DEF visitModification
<1>2. CASE ~IsFunction(d)
  <2> DEFINE value == Child(1, 1)
  <2>1. Modify(Use(d), TRUE, Address(d), value) /\ Len(stack) = 1
    BY <1>2 DEF visitModification
  <2>2. value \in Expression /\ (value.sound => value.val = getty(value.ty))
    BY <2>1, OnlyChild
  <2>3. /\ Use(d) \in Expression /\ Use(d).ty = d.ty
        /\ Use(d).val = getty(d.ty)
    BY <1>2, Used
  <2>4. Address(d) \in LLVMType
    BY Addresses DEF Visible
  <2>5. ASSUME Use(d).ty \in operand_types("arithmetic")
        PROVE  Stores(Use(d).val, Address(d))
    BY <2>3, <2>5, Arithmetic, Addresses DEF Stores, Visible
  <2> QED BY <2>1, <2>2, <2>3, <2>4, <2>5, ModifyKeeps
<1> QED BY <1>1, <1>2

(* op= on an element of a variable's array.                                *)
LEMMA ModificationElementKeeps ==
  ASSUME IInv, NEW d \in Visible, visitModificationElement(d)
  PROVE  IInv'
<1>1. CASE IsFunction(d) \/ ~is_array(d.ty)
  BY <1>1, RejectKeeps DEF visitModificationElement
<1>2. CASE ~IsFunction(d) /\ is_array(d.ty)
  <2> DEFINE index == Child(2, 1)
             value == Child(2, 2)
             used == UseIndex(d, index)
             ref == [used EXCEPT !.sound = @ /\ ~IsGlobal(d)]
             again == index.form # "operation"
             address == AssignedAddress(d, index.val)
  <2>1. Modify(ref, again, address, value) /\ Len(stack) = 2
    BY <1>2 DEF visitModificationElement
  <2>2. /\ index \in Expression /\ (index.sound => index.val = getty(index.ty))
        /\ value \in Expression /\ (value.sound => value.val = getty(value.ty))
    BY <2>1, OnlyChild
  <2>3. /\ used \in Expression /\ used.ty = ElementOf(d.ty)
        /\ used.sound => /\ index.sound /\ index.ty = Basic("int")
                         /\ used.val = getty(ElementOf(d.ty))
    BY <1>2, <2>2, UsedElement
  <2>4. /\ ref \in Expression /\ ref.ty = used.ty /\ ref.val = used.val
        /\ ref.sound => used.sound /\ ~IsGlobal(d)
    BY <2>3 DEF Expression
  <2>5. d \in Declarations /\ Accepts(d)
    BY DEF Visible
  <2>6. d.kind \in Variables /\ d.ty \in Type
    BY <1>2, <2>5, DeclarationsAssumption DEF IsFunction, Declaration
  <2>7. address \in LLVMType
    BY <2>5, Addresses, Values DEF AssignedAddress
  <2> HIDE DEF ref, used
  <2>8. ASSUME ref.sound PROVE Stores(ref.val, address)
    <3>1. IsInteger(index.val)
      BY <2>2, <2>3, <2>4, <2>8, BasicTypes DEF IsInteger, Integer
    <3>2. Address(d) = getty(d.ty)
      BY <1>2, <2>4, <2>5, <2>6, <2>8, Addresses DEF Accepts, Variables, IsGlobal
    <3>3. address = getty(d.ty)
      BY <1>2, <2>6, <3>1, <3>2, Elements DEF AssignedAddress, gep
    <3> QED BY <1>2, <2>3, <2>4, <2>6, <2>8, <3>3, Elements DEF Stores
  <2>9. again \in BOOLEAN
    OBVIOUS
  <2> HIDE DEF again, address
  <2> QED BY <2>1, <2>2, <2>3, <2>4, <2>7, <2>8, <2>9, ModifyKeeps
<1> QED BY <1>1, <1>2

(* op= on an element of any other array.                                   *)
LEMMA ModificationIndexKeeps ==
  ASSUME IInv, visitModificationIndex
  PROVE  IInv'
<1> DEFINE base == Child(3, 1)
           index == Child(3, 2)
           value == Child(3, 3)
<1>1. CASE ~is_array(base.ty) \/ index.ty # Basic("int")
  BY <1>1, RejectKeeps DEF visitModificationIndex
<1>2. CASE is_array(base.ty) /\ index.ty = Basic("int")
  <2> DEFINE ref == Indexed(base, index)
             again == index.form # "operation"
             address == gep(base.val, index.val)
  <2>1. Modify(ref, again, address, value) /\ Len(stack) = 3
    BY <1>2 DEF visitModificationIndex
  <2>2. /\ base \in Expression /\ (base.sound => base.val = getty(base.ty))
        /\ index \in Expression /\ (index.sound => index.val = getty(index.ty))
        /\ value \in Expression /\ (value.sound => value.val = getty(value.ty))
    BY <2>1, OnlyChild
  <2>3. /\ ref \in Expression /\ ref.ty = ElementOf(base.ty)
        /\ ref.sound => ref.val = getty(ElementOf(base.ty)) /\ address = getty(base.ty)
    BY <1>2, <2>2, IndexedElement
  <2>4. base.ty \in Type /\ address \in LLVMType
    BY <2>2, Values DEF Expression
  <2>5. ref.sound => Stores(ref.val, address)
    BY <1>2, <2>3, <2>4, Elements DEF Stores
  <2>6. again \in BOOLEAN
    OBVIOUS
  <2> HIDE DEF ref, again, address
  <2> QED BY <2>1, <2>2, <2>3, <2>4, <2>5, <2>6, ModifyKeeps
<1> QED BY <1>1, <1>2

(* Local variables and arrays.                                             *)
LEMMA VarDefKeeps ==
  ASSUME IInv, NEW d \in Declarations, visitVarDef(d) \/ visitArrayDef(d) \/ visitGlobalDef(d)
  PROVE  IInv'
<1> DEFINE value == Child(1, 1)
<1>1. /\ value.sound \in BOOLEAN /\ value.ty \in Type
      /\ value.sound => value.val = getty(value.ty)
  <2>1. Len(stack) = 1
    BY DEF visitVarDef, visitArrayDef, visitGlobalDef
  <2> QED BY <2>1, OnlyChild
<1>2. CASE visitVarDef(d)
  <2> DEFINE compiled == Stores(value.val, Address(d))
  <2>1. CASE ~Accepts(d) \/ value.ty # d.ty
    BY <1>2, <2>1, RejectKeeps DEF visitVarDef
  <2>2. CASE Accepts(d) /\ value.ty = d.ty
    <3>1. End("accepted", compiled, value.sound)
      BY <1>2, <2>2 DEF visitVarDef
    <3>2. ~is_array(d.ty)
      BY <1>2, <2>2 DEF visitVarDef, Accepts
    <3>3. value.sound => compiled
      BY <1>1, <2>2, <3>2, Addresses DEF Stores
    <3> HIDE DEF compiled
    <3>4. compiled \in BOOLEAN
      BY DEF compiled, Stores
    <3> QED BY <1>1, <3>1, <3>3, <3>4, EndKeeps
  <2> QED BY <2>1, <2>2
<1>3. CASE visitArrayDef(d)
  <2> DEFINE compiled == value.val = getty(Basic("int")) /\ ~PointsToVoid(ElementOf(d.ty))
             sound == value.sound /\ ~PointsToVoid(d.ty)
  <2>1. CASE ~Accepts(d) \/ value.ty # Basic("int")
    BY <1>3, <2>1, RejectKeeps DEF visitArrayDef
  <2>2. CASE Accepts(d) /\ value.ty = Basic("int")
    <3>1. End("accepted", compiled, sound)
      BY <1>3, <2>2 DEF visitArrayDef
    <3>2. d.ty \in Type /\ is_array(d.ty)
      BY <1>3, Declared DEF visitArrayDef
    <3>3. sound => compiled
      BY <1>1, <2>2, <3>2 DEF PointsToVoid, ElementOf, Type
    <3> HIDE DEF compiled, sound
    <3>4. compiled \in BOOLEAN /\ sound \in BOOLEAN
      BY <1>1 DEF compiled, sound
    <3> QED BY <3>1, <3>3, <3>4, EndKeeps
  <2> QED BY <2>1, <2>2
<1>4. CASE visitGlobalDef(d)
  <2> DEFINE compiled == value.val = getty(d.ty)
  <2>1. CASE ~Accepts(d) \/ value.ty # d.ty \/ value.form # "constant"
    BY <1>4, <2>1, RejectKeeps DEF visitGlobalDef
  <2>2. CASE ~(~Accepts(d) \/ value.ty # d.ty \/ value.form # "constant")
    <3>1. End("accepted", compiled, value.sound)
      BY <1>4, <2>2 DEF visitGlobalDef
    <3>2. value.sound => compiled
      BY <1>1, <2>2
    <3> HIDE DEF compiled
    <3>3. compiled \in BOOLEAN
      BY DEF compiled
    <3> QED BY <1>1, <3>1, <3>2, <3>3, EndKeeps
  <2> QED BY <2>1, <2>2
<1> QED BY <1>2, <1>3, <1>4

(* Conditions, expression statements and returns.                          *)
LEMMA ValueKeeps ==
  ASSUME IInv, visitCondition \/ visitExprStatement
  PROVE  IInv'
<1> DEFINE value == Child(1, 1)
<1>1. /\ value.sound \in BOOLEAN /\ value.ty \in Type
      /\ value.sound => value.val = getty(value.ty)
  <2>1. Len(stack) = 1
    BY DEF visitCondition, visitExprStatement
  <2> QED BY <2>1, OnlyChild
<1>2. CASE visitCondition
  <2> DEFINE compiled == value.val = i1
  <2>1. CASE value.ty # Basic("bool")
    BY <1>2, <2>1, RejectKeeps DEF visitCondition
  <2>2. CASE value.ty = Basic("bool")
    <3>1. End("accepted", compiled, value.sound)
      BY <1>2, <2>2 DEF visitCondition
    <3>2. value.sound => compiled
      BY <1>1, <2>2 DEF i1
    <3> HIDE DEF compiled
    <3>3. compiled \in BOOLEAN
      BY DEF compiled
    <3> QED BY <1>1, <3>1, <3>2, <3>3, EndKeeps
  <2> QED BY <2>1, <2>2
<1>3. CASE visitExprStatement
  <2> DEFINE compiled == value.val # Broken
  <2>1. End("accepted", compiled, value.sound)
    BY <1>3 DEF visitExprStatement
  <2>2. value.sound => compiled
    BY <1>1, GettyType DEF Broken
  <2> HIDE DEF compiled
  <2>3. compiled \in BOOLEAN
    BY DEF compiled
  <2> QED BY <1>1, <2>1, <2>2, <2>3, EndKeeps
<1> QED BY <1>2, <1>3

(* Returns with and without a value.                                       *)
LEMMA ReturnKeeps ==
  ASSUME IInv, NEW retty \in Type, visitReturn(retty)
  PROVE  IInv'
<1> DEFINE value == Child(1, 1)
           compiled == value.val = getty(retty)
<1>1. CASE stack = <<>>
  <2>1. Len(stack) # 1
    BY <1>1
  <2>2. Reject \/ End("accepted", TRUE, TRUE)
    BY <2>1 DEF visitReturn
  <2> QED BY <2>2, RejectKeeps, EndKeeps
<1>2. CASE stack # <<>>
  <2>1. /\ Len(stack) = 1
        /\ \/ Reject
           \/ value.ty = retty /\ End("accepted", compiled, value.sound)
    BY <1>2 DEF visitReturn
  <2>2. value.sound \in BOOLEAN /\ (value.sound => value.val = getty(value.ty))
    BY <2>1, OnlyChild
  <2>3. CASE Reject
    BY <2>3, RejectKeeps
  <2>4. CASE value.ty = retty /\ End("accepted", compiled, value.sound)
    <3>1. value.sound => compiled
      BY <2>2, <2>4
    <3> HIDE DEF compiled
    <3>2. compiled \in BOOLEAN
      BY DEF compiled
    <3> QED BY <2>2, <2>4, <3>1, <3>2, EndKeeps
  <2> QED BY <2>1, <2>3, <2>4
<1> QED BY <1>1, <1>2

----------------------------------------------------------------------------
(* Every program                                                           *)

(* Every step keeps the invariant.                                         *)
LEMMA NextKeeps == IInv /\ [Next]_vars => IInv'
<1> SUFFICES ASSUME IInv, [Next]_vars
             PROVE  IInv'
  OBVIOUS
<1>1. ASSUME NEW ty \in Constants, visitConst(ty) PROVE IInv'
  BY <1>1, ConstKeeps
<1>2. ASSUME NEW d \in Visible,
             \/ visitVarUse(d) \/ visitVarUseIndex(d)
             \/ \E n \in 0..MaxStack : visitFunCall(d, n)
             \/ visitAssignment(d) \/ visitAssignmentElement(d)
             \/ visitModification(d) \/ visitModificationElement(d)
             \/ d.kind = "FunDef" /\ visitReturn(d.ty)
      PROVE  IInv'
  <2>1. d.ty \in Type
    BY Declared DEF Visible
  <2> QED BY <1>2, <2>1, VarUseKeeps, VarUseIndexKeeps, FunCallKeeps, AssignmentKeeps,
             AssignmentElementKeeps, ModificationKeeps, ModificationElementKeeps, ReturnKeeps
<1>3. CASE visitIndex
  BY <1>3, IndexKeeps
<1>4. ASSUME NEW op \in Operators, visitBinaryOp(op) PROVE IInv'
  BY <1>4, BinaryOpKeeps
<1>5. ASSUME NEW op \in {"arithmetic", "logical"}, visitUnaryOp(op) PROVE IInv'
  BY <1>5, UnaryOpKeeps
<1>6. ASSUME NEW d \in Declarations,
             visitVarDef(d) \/ visitArrayDef(d) \/ visitGlobalDef(d)
      PROVE  IInv'
  BY <1>6, VarDefKeeps
<1>7. CASE visitAssignmentIndex \/ visitModificationIndex
  BY <1>7, AssignmentIndexKeeps, ModificationIndexKeeps
<1>8. CASE visitCondition \/ visitExprStatement
  BY <1>8, ValueKeeps
<1>9. CASE UNCHANGED vars
  BY <1>9 DEF vars, IInv, TypeOK, TypesAgree, AcceptedCompiles
<1> QED BY <1>1, <1>2, <1>3, <1>4, <1>5, <1>6, <1>7, <1>8, <1>9 DEF Next

(* The invariant holds for all declarations, and expressions of any size.  *)
LEMMA Invariance == Spec => []IInv
<1>1. Init => IInv
  BY StackAssumption DEF Init, IInv, TypeOK, TypesAgree, AcceptedCompiles
<1> QED BY <1>1, NextKeeps, PTL DEF Spec

(* typecheck.py annotates every expression with a type, and irgen.py gives *)
(* it a value of an LLVM type or fails.                                    *)
THEOREM TypeCorrect == Spec => []TypeOK
<1>1. IInv => TypeOK
  BY DEF IInv
<1> QED BY <1>1, Invariance, PTL

(* The LLVM type of the value irgen.py generates for an expression is the  *)
(* one of the type typecheck.py gives it.                                  *)
THEOREM CheckerAndGeneratorAgree == Spec => []TypesAgree
<1>1. IInv => TypesAgree
  BY DEF IInv
<1> QED BY <1>1, Invariance, PTL

(* Statements that typecheck.py accepts have operands llvmlite takes.      *)
THEOREM CheckedProgramsCompile == Spec => []AcceptedCompiles
<1>1. IInv => AcceptedCompiles
  BY DEF IInv
<1> QED BY <1>1, Invariance, PTL
=============================================================================
