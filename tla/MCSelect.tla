------------------------------ MODULE MCSelect ------------------------------
(* Select on every instruction the verifier allows, with every value of the *)
(* operands that its type has.                                              *)
EXTENDS Select, FiniteSets

Wide == {IntTy(bits, signed) : bits \in {W8, W16, W32, W64}, signed \in BOOLEAN}
Ints == Wide \cup {Boolean}
Floats == {FloatTy(TRUE), FloatTy(FALSE)}

Values(t) == 0..2^t.bits - 1
Halves == {NaN} \cup -(2 * 2^W64 + 3)..2 * 2^W64 + 3
SomeHalves == {NaN, -2, 0, 1, 4}

K(op, ty, other, size, l, r) ==
    [op |-> op, ty |-> ty, other |-> other, size |-> size, l |-> l, r |-> r]

\* Sets of instructions, one for every type.
Pairs(ops, types) ==
    {{K(op, t, t, 0, l, r) : op \in ops, l \in Values(t), r \in Values(t)} : t \in types}
Shifted ==
    {{K(op, t, c, 0, l, r) : op \in {"shl", "shr"}, l \in Values(t), r \in Values(c)} :
       t \in Wide, c \in {Boolean, IntTy(W8, TRUE), IntTy(W64, FALSE)}}
Offsets ==
    {{K("ptr_offset", Pointer, t, size, l, r) :
        size \in {0, 1, 3, 2^(W32 - 1) - 1, 2^(W32 - 1), 2^W32 - 1, 2^W32},
        l \in {0, 5}, r \in Values(t)} : t \in Ints}
Converted ==
    {{K(p[1], p[2], p[3], 0, n, 0) : n \in Values(p[2])} :
       p \in {q \in {"ext"} \X Ints \X Ints : q[2].bits < q[3].bits}
               \cup {q \in {"trunc"} \X Ints \X Ints : q[2].bits > q[3].bits}
               \cup {"int_to_float"} \X Ints \X Floats \cup {<<"ptr_cast", Pointer, Pointer>>}}
Moved ==
    {{K("const", t, t, 0, n, 0) : n \in Values(t)}
       \cup {K("load", t, t, 0, 3, n) : n \in 0..2^WidthOf(t.bits) - 1}
       \cup {K("store", t, t, 0, 3, n) : n \in Values(t)} : t \in Ints}
OfFloats ==
    {{K(op, t, t, 0, l, r) :
        op \in {"add", "sub", "mul", "div"} \cup Comparisons, l \in SomeHalves, r \in SomeHalves}
       \cup {K(op, t, t, 0, 3, x) : op \in {"load", "store"}, x \in SomeHalves}
       \cup {K("float_to_int", t, to, 0, x, 0) : to \in Ints, x \in Halves} : t \in Floats}

Scalar ==
    UNION {Pairs({"add", "sub", "mul", "div", "rem", "lt", "le", "gt", "ge"}, Wide),
           Pairs({"and", "or", "xor", "eq", "ne"}, Ints),
           Shifted, Offsets, Converted, Moved, OfFloats}
=============================================================================
