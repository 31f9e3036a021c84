------------------------------ MODULE MCCalls -------------------------------
(* Calls with one integer and one SSE argument register, sizes up to 511    *)
(* and displacements up to 319:                                             *)
(*   Passing: every list of four scalars, passed to a generated function    *)
(*     and the first two, swapped, to an external one;                      *)
(*   Shaping: an aggregate built, taken apart, changed, stored and loaded;  *)
(*   Filling: constants and a call in frames around the limits.             *)
EXTENDS Calls

Integer(bits) == [tag |-> "Int", bits |-> bits]
FloatOf(bits) == [tag |-> "Float", bits |-> bits]
Array(t, n) == [tag |-> "Array", element |-> t, length |-> n]
Struct(fields) == [tag |-> "Struct", fields |-> fields]
Other(tag) == [tag |-> tag]

TypeTable ==
    << Integer(1), Integer(8), Integer(32), Integer(64), FloatOf(32), FloatOf(64), Other("Pointer"), \* 1-7
       Struct(<<2, 4>>), Struct(<<2, 8, 5>>), Struct(<<3, 1>>),                    \* 8-10
       Array(10, 2), Struct(<<1, 11>>), Struct(<<>>), Array(2, 0),                 \* 11-14
       Array(4, 36), Array(4, 38), Array(4, 64),                                   \* 15-17
       Integer(128), Other("Void"), Other("Function") >>                          \* 18-20

OneRegister == <<"rdi">>

Const(v) == [op |-> "const", result |-> v]
Construct(v, args) == [op |-> "construct", args |-> args, result |-> v]
Extract(v, agg, i) == [op |-> "extract", args |-> <<agg>>, index |-> i, result |-> v]
Insert(v, agg, i, x) == [op |-> "insert", args |-> <<agg, x>>, index |-> i, result |-> v]
Alloca(v, n) == [op |-> "alloca", args |-> <<>>, index |-> n, result |-> v]
Store(p, x) == [op |-> "store", args |-> <<p, x>>, result |-> 0]
Load(v, p) == [op |-> "load", args |-> <<p>>, result |-> v]
Call(v, args, external) ==
    [op |-> "call", args |-> args, result |-> v, external |-> external]

Program(types, insts, allocas, scratch, params, locals) ==
    [types |-> types, insts |-> insts, allocas |-> allocas, scratch |-> scratch,
     params |-> params, locals |-> locals, nested |-> <<8>>]

Passing ==
    {Program(args \o <<4, 5>>,
             <<Const(1), Const(2), Const(3), Const(4),
               Call(5, <<1, 2, 3, 4>>, FALSE), Call(6, <<2, 1>>, TRUE)>>,
             <<>>, <<2>>, args, <<2, 4>>) : args \in [1..4 -> {2, 4, 5}]}

\* Field i of a value of type t is taken out and put into a constant of type t.
ShapingOf(t, i) ==
    LET m == FieldCount(t)
        fields == [n \in 1..m |-> FieldType(t, n - 1)]
    IN  Program(fields \o <<t, fields[i], t, t, 2, 7, t>>,
                [n \in 1..m |-> Const(n)]
                  \o <<Construct(m + 1, [n \in 1..m |-> n]), Extract(m + 2, m + 1, i - 1),
                       Const(m + 3), Insert(m + 4, m + 3, i - 1, m + 2), Const(m + 5),
                       Alloca(m + 6, 2), Store(m + 6, m + 4), Load(m + 7, m + 6)>>,
                <<1, t>>, <<2, t>>, <<>>, <<>>)

Shaping == UNION {{ShapingOf(t, i) : i \in 1..FieldCount(t)} : t \in 8..12}

Filling ==
    {Program(<<s, t, 2, 2, 2>>,
             <<Const(3), Const(4), Construct(2, <<>>), Call(5, <<3, 4>>, TRUE)>>,
             <<>>, <<>>, <<>>, <<>>) : s \in DOMAIN TypeTable, t \in {13, 14}}
      \cup {Program(<<s, 2>>, <<Const(2)>>, <<t>>, <<>>, <<>>, <<>>) :
              s \in DOMAIN TypeTable, t \in DOMAIN TypeTable}
      \cup {Program(<<2>>, <<Const(1)>>, <<>>, <<>>, <<>>, <<t>>) : t \in DOMAIN TypeTable}

AllPrograms == Passing \cup Shaping \cup Filling
=============================================================================
