------------------------------- MODULE Stores -------------------------------
(***************************************************************************)
(* The interning tables of a module: types (src/src/types.rs), symbols     *)
(* (src/src/symbol.rs) and constants (src/src/constant.rs).  A table is a  *)
(* sequence without duplicates and an id is a position in it, so an id is  *)
(* one more than its index in the code.  Ids are untrusted: they may name  *)
(* no entry, and every question about one has an answer for that case.     *)
(***************************************************************************)
EXTENDS Integers, Sequences

NoId == 0   \* an absent id
Ids == Nat \ {NoId}

-----------------------------------------------------------------------------
(* Interning                                                               *)

IdsOf(table, data) == {i \in DOMAIN table : table[i] = data}

InternBug(table, data) == Append(table, data)   \* no lookup
Intern(table, data) == IF IdsOf(table, data) = {} THEN Append(table, data) ELSE table
IdOf(table, data) ==
    IF IdsOf(table, data) = {} THEN Len(table) + 1 ELSE CHOOSE i \in IdsOf(table, data) : TRUE

-----------------------------------------------------------------------------
(* Types                                                                   *)

VoidData == [tag |-> "Void"]
IntData(bits, signed) == [tag |-> "Int", bits |-> bits, signed |-> signed]
FloatData(bits) == [tag |-> "Float", bits |-> bits]
PointerData(pointee, space) == [tag |-> "Pointer", pointee |-> pointee, space |-> space]
ArrayData(element, length) == [tag |-> "Array", element |-> element, length |-> length]
StructData(fields) == [tag |-> "Struct", fields |-> fields]
FunctionData(params, variadic, result) ==
    [tag |-> "Function", params |-> params, variadic |-> variadic, result |-> result]

\* Whatever a table may be given: the ids need not name anything.
TypeData ==
    {VoidData} \cup [tag : {"Int"}, bits : Nat, signed : BOOLEAN] \cup [tag : {"Float"}, bits : Nat]
    \cup [tag : {"Pointer"}, pointee : Ids, space : Nat]
    \cup [tag : {"Array"}, element : Ids, length : Nat]
    \cup [tag : {"Struct"}, fields : Seq(Ids)]
    \cup [tag : {"Function"}, params : Seq(Ids), variadic : BOOLEAN, result : Ids]

\* TypeStore::new: the scalars, in the order of the TypeId constants below.
Scalars == <<VoidData, IntData(1, FALSE),
             IntData(8, TRUE), IntData(16, TRUE), IntData(32, TRUE), IntData(64, TRUE),
             IntData(128, TRUE),
             IntData(8, FALSE), IntData(16, FALSE), IntData(32, FALSE), IntData(64, FALSE),
             IntData(128, FALSE), FloatData(32), FloatData(64)>>

VOID == 1
I1 == 2
I8 == 3
F32 == 13
F64 == 14

IsInteger(d) == d.tag = "Int"
IsArithInteger(d) == d.tag = "Int" /\ d.bits >= 8
IsFloat(d) == d.tag = "Float"
IsPointer(d) == d.tag = "Pointer"
IsAggregate(d) == d.tag \in {"Struct", "Array"}
IsVoid(d) == d.tag = "Void"
IsFirstClass(d) == IsInteger(d) \/ IsFloat(d) \/ IsPointer(d) \/ IsAggregate(d)

\* types.get(t).map(P).unwrap_or(false)
Holds(types, t, P(_)) == t \in DOMAIN types /\ P(types[t])

FieldCount(d) == IF d.tag = "Array" THEN d.length ELSE Len(d.fields)
\* The type of field i, counted from 0; NoId when it is out of range.
FieldType(d, i) ==
    CASE d.tag = "Array" -> IF i < d.length THEN d.element ELSE NoId
      [] d.tag = "Struct" -> IF i < Len(d.fields) THEN d.fields[i + 1] ELSE NoId

\* The types an entry refers to.
References(d) ==
    CASE d.tag = "Pointer" -> {d.pointee}
      [] d.tag = "Array" -> {d.element}
      [] d.tag = "Struct" -> {d.fields[i] : i \in DOMAIN d.fields}
      [] d.tag = "Function" -> {d.params[i] : i \in DOMAIN d.params} \cup {d.result}
      [] OTHER -> {}

-----------------------------------------------------------------------------
(* Constants                                                               *)

ConstData ==
    [tag : {"Int"}, ty : Ids, width : Nat, bits : Nat] \cup [tag : {"Float"}, ty : Ids, bits : Nat]
    \cup [tag : {"Null"}, pointee : Ids] \cup [tag : {"String"}, bytes : Seq(Nat)]
    \cup [tag : {"Aggregate"}, ty : Ids, elements : Seq(Ids)]

\* The low width bits of a value, signed or not (widths small enough for TLC).
Mask(value, width) == value % (2 ^ width)

IntConst(ty, width, bits) == [tag |-> "Int", ty |-> ty, width |-> width, bits |-> bits]
FloatConst(ty, bits) == [tag |-> "Float", ty |-> ty, bits |-> bits]
NullConst(pointee) == [tag |-> "Null", pointee |-> pointee]
StringConst(bytes) == [tag |-> "String", bytes |-> bytes]
AggregateConst(ty, elements) == [tag |-> "Aggregate", ty |-> ty, elements |-> elements]

\* constant_fits_type: constant c can be typed as t.
ConstantFits(types, c, t) ==
    /\ t \in DOMAIN types
    /\ \/ c.tag = "Int" /\ c.ty = t /\ IsInteger(types[t]) /\ types[t].bits = c.width
       \/ c.tag = "Float" /\ c.ty = t /\ IsFloat(types[t])
       \/ c.tag = "Null" /\ types[t] = PointerData(c.pointee, 0)
       \/ c.tag = "String" /\ types[t] = PointerData(I8, 0)
       \/ c.tag = "Aggregate" /\ c.ty = t /\ IsAggregate(types[t])
=============================================================================
