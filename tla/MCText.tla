------------------------------- MODULE MCText -------------------------------
(* Text on all verified ways to wire two skeletons, with names:             *)
(*   bb1: v5 = op(v1), goes to bb3 and bb2;  bb3: v3 = op(x), goes on;      *)
(*   bb2(v4): use(x), returns or loops; bb3 or bb2 may be out of reach;     *)
(*   a declaration of the same parameters.                                  *)
(* Ids are not in the order of the text on purpose.                         *)
EXTENDS Text

CONSTANTS int, bool, void, none

Types == {int, bool}
AllTypes == Types \cup {void}

Inc == [args |-> <<int>>, result |-> int]
Use == [args |-> <<int>>, result |-> none]

Id(s) == <<"id", s>>

To(b, args) == [to |-> b, args |-> args]
Jmp(e) == [tag |-> "Jump", uses |-> <<>>, edges |-> <<e>>]
Br(c, e1, e2) == [tag |-> "Branch", uses |-> <<c>>, edges |-> <<e1, e2>>]
Return(v) == [tag |-> "Return", uses |-> <<v>>, edges |-> <<>>]

Params == <<[value |-> 1, ty |-> int], [value |-> 2, ty |-> bool]>>
Arity == <<[ty |-> int, kind |-> ParamKind(1)], [ty |-> bool, kind |-> ParamKind(2)]>>

Definition(x, y, t1, t2, t3, vnames, bnames) ==
    [params |-> Params, result |-> int, external |-> FALSE, variadic |-> FALSE,
     values |-> Arity \o <<[ty |-> int, kind |-> InstKind(3, 1)],
                           [ty |-> int, kind |-> BlockParamKind(2, 1)],
                           [ty |-> int, kind |-> InstKind(1, 1)]>>,
     vnames |-> vnames, bnames |-> bnames,
     bparams |-> << <<>>, <<[value |-> 4, ty |-> int]>>, <<>> >>,
     insts |-> << <<[op |-> Inc, args |-> <<1>>, result |-> 5]>>,
                  <<[op |-> Use, args |-> <<y>>, result |-> NoValue]>>,
                  <<[op |-> Inc, args |-> <<x>>, result |-> 3]>> >>,
     terms |-> <<t1, t2, t3>>]

Declaration(vnames) ==
    [params |-> Params, result |-> int, external |-> TRUE, variadic |-> FALSE,
     values |-> Arity, vnames |-> vnames, bnames |-> <<>>,
     bparams |-> <<>>, insts |-> <<>>, terms |-> <<>>]

ParamNames == {NoName, Id("x"), <<"digits", 0>>} \X {NoName, Id("x")}
ValueNames ==
    {p \o <<a, b, c>> : p \in ParamNames, a \in {NoName, Id("x"), <<"bb", 0>>},
                        b \in {NoName, Id("x"), Id("y")}, c \in {NoName, Id("y")}}
BlockNames == {<<NoName, a, b>> : a, b \in {NoName, Id("l")}}

Nameless(n) == [i \in 1..n |-> NoName]

Wired ==
    {Definition(x, y, t1, t2, t3, Nameless(5), Nameless(3)) :
       x \in {1, 4, 5}, y \in {1, 3, 4},
       t1 \in {Br(2, To(3, <<>>), To(2, <<5>>)), Jmp(To(2, <<1>>))},
       t2 \in {Return(4), Br(2, To(3, <<>>), To(2, <<5>>))},
       t3 \in {Jmp(To(2, <<3>>)), Return(5)}}

Printable ==
    {[m EXCEPT !.vnames = vs, !.bnames = bs] :
       m \in {w \in Wired : Verified(w)}, vs \in ValueNames, bs \in BlockNames}
    \cup {Declaration(p) : p \in ParamNames}
=============================================================================
