----------------------------- MODULE MCBuilder ------------------------------
(* Builder with a condition, an aggregate that has a field of type void, and *)
(* void itself: four ops and three signatures.  With VoidSig the function is  *)
(* given the aggregate, and extract is the only op.                          *)
EXTENDS Builder

CONSTANTS i1, agg, void, none

AllTypes == {i1, agg, void}
FirstClass == {i1, agg}
Const == [args |-> <<>>, result |-> i1]
Load == [args |-> <<i1>>, result |-> agg]
Extract == [args |-> <<agg>>, result |-> void]
Store == [args |-> <<void>>, result |-> none]
SomeOps == {Const, Load, Extract, Store}
ExtractOnly == {Extract}

Sig(tys, result, external, variadic) ==
    [types |-> tys, result |-> result, external |-> external, variadic |-> variadic]
SomeSigs == {Sig(<<i1>>, agg, FALSE, FALSE), Sig(<<>>, void, TRUE, TRUE)}
VoidSig == {Sig(<<agg>>, void, FALSE, FALSE)}
=============================================================================
