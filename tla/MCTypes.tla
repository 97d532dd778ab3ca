------------------------------ MODULE MCTypes ------------------------------
(* All variables of three basic types, void and their arrays, and          *)
(* functions of each shape.                                                *)
EXTENDS Types

MCTypesUsed == [base : {"bool", "int", "float", "void"}, depth : 0..2]
Fun(kind, base, depth, params, varargs) ==
  [kind |-> kind, ty |-> [base |-> base, depth |-> depth],
   params |-> params, varargs |-> varargs]
IntType == Basic("int")
MCDeclarations ==
  {d \in [kind : Variables, ty : MCTypesUsed, params : {<<>>}, varargs : {FALSE}] :
     d.kind = "ArrayDef" => is_array(d.ty)}
  \cup {Fun("FunDef", "void", 0, <<>>, FALSE),
        Fun("FunDef", "int", 0, <<IntType, Basic("float")>>, FALSE),
        Fun("FunDef", "int", 1, <<>>, FALSE),
        Fun("FunDef", "bool", 0, <<Basic("void")>>, FALSE),
        Fun("FunDec", "float", 0, <<[base |-> "int", depth |-> 1]>>, FALSE),
        Fun("FunDec", "char", 1, <<>>, FALSE),
        Fun("FunDec", "void", 1, <<>>, FALSE),
        Fun("FunDec", "int", 0, <<[base |-> "char", depth |-> 1]>>, TRUE),
        Fun("FunDec", "void", 0, <<>>, TRUE)}
=============================================================================
