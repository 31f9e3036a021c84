--------------------------- MODULE MCModuleBuilder --------------------------
(* ModuleBuilder with one scalar of each class the typing rules tell apart, *)
(* one op of each kind of result, and by hand an integer type of odd width, *)
(* a constant that is not masked and an aggregate of the first constant.    *)
EXTENDS ModuleBuilder

CONSTANTS main, dash

Names == {main}
NotNames == {dash}
SomeScalars == {VOID, I8}
HandMadeTypes == {IntData(4, FALSE)}
HandMadeConsts == {IntConst(I8, 8, 256), AggregateConst(Len(Scalars) + 1, <<1>>)}
SomeLinkages == {"External"}
SomeInts == {-1}
SomeLengths == {1}
SomeOps == {"shl", "eq", "ext"}
=============================================================================
