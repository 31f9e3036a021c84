------------------------------ MODULE MCFrame -------------------------------
(* Frame on every way to wire the operands and edges of one skeleton:       *)
(*   bb1: entry, goes to bb2 or bb3;  bb2(v2, v3): loops or leaves to bb3;  *)
(*   bb3: v4 = op(x), then back to bb2 or return.                           *)
(* v1 is the parameter of the function.  The verifier accepts or rejects.   *)
EXTENDS Frame

CONSTANTS bool, void, none, zero, one, junk

Types == {bool}
AllTypes == Types \cup {void}
Bits == {zero, one}

Value(kind) == [ty |-> bool, kind |-> kind]
Param(v) == [value |-> v, ty |-> bool]
Flip == [args |-> <<bool>>, result |-> bool]

To(b, args) == [to |-> b, args |-> args]
Jmp(e) == [tag |-> "Jump", uses |-> <<>>, edges |-> <<e>>]
Br(c, e1, e2) == [tag |-> "Branch", uses |-> <<c>>, edges |-> <<e1, e2>>]
Return(v) == [tag |-> "Return", uses |-> <<v>>, edges |-> <<>>]

Skeleton(x, t1, t2, t3) ==
    [params |-> <<Param(1)>>, result |-> bool, external |-> FALSE, variadic |-> FALSE,
     values |-> <<Value(ParamKind(1)), Value(BlockParamKind(2, 1)),
                  Value(BlockParamKind(2, 2)), Value(InstKind(3, 1))>>,
     bparams |-> <<<<>>, <<Param(2), Param(3)>>, <<>>>>,
     insts |-> <<<<>>, <<>>, <<[op |-> Flip, args |-> <<x>>, result |-> 4]>>>>,
     terms |-> <<t1, t2, t3>>]

Loop(ids) == {To(2, <<v, w>>) : v, w \in ids}
Wirings(ids) ==
    {Skeleton(x, t1, t2, t3) :
       x \in ids,
       t1 \in {Jmp(To(2, <<v, v>>)) : v \in ids}
              \cup {Br(v, To(2, <<v, v>>), To(3, <<>>)) : v \in ids},
       t2 \in {Br(c, e, To(3, <<>>)) : c \in ids, e \in Loop(ids)},
       t3 \in {Jmp(e) : e \in Loop(ids)} \cup {Return(v) : v \in ids}}

\* bb2 out of the way: the edge arguments and the result may be an id nobody handed out.
OneFabricated ==
    {Skeleton(1, Jmp(To(3, <<>>)), Br(1, To(2, <<2, 3>>), To(3, <<>>)), t) :
       t \in {Jmp(e) : e \in Loop(1..5)} \cup {Return(v) : v \in 1..5}}

Wired == Wirings(1..4) \cup OneFabricated
=============================================================================
