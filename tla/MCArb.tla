-------------------------------- MODULE MCArb -------------------------------
(* ArbReader over modules that hold every kind of entry, over some that read *)
(* refuses, and over the damage of those that are small enough.  Ids count   *)
(* from 0; types 0 to 13 are the scalars, so the first composite type is 14. *)
EXTENDS ArbReader

Empty == [major |-> 1, minor |-> 0, name |-> None, symbols |-> <<>>, types |-> Scalars,
          constants |-> <<>>, functions |-> <<>>]

\* Two entries of a kind that one damaged byte makes equal, in every table.
Tables ==
    [Empty EXCEPT !.minor = 3, !.name = 1, !.symbols = <<<<1>>, <<2>>>>,
        !.types = Scalars \o <<PointerData(1, 0), PointerData(2, 0), ArrayData(2, 2),
                               StructData(<<2, 14>>), FunctionData(<<14>>, TRUE, 0)>>,
        !.constants = <<IntConst(2, 8, 255), FloatConst(13, 7), NullConst(1), NullConst(2),
                        StringConst(<<0, 9>>), AggregateConst(16, <<0, 0>>)>>]

Function(values, blocks) ==
    [symbol |-> 0, linkage |-> "External", abi |-> [tag |-> "C"], variadic |-> FALSE,
     result |-> 0, params |-> <<>>, values |-> values, blocks |-> blocks]
Value(kind, name) == [ty |-> 2, kind |-> kind, name |-> name]
Block(params, insts, term) == [name |-> None, params |-> params, insts |-> insts, term |-> term]
Body(values, blocks) ==
    [Empty EXCEPT !.symbols = <<<<1>>>>, !.functions = <<Function(values, blocks)>>]

ParamKind == [tag |-> "Param", index |-> 0]
InstKind == [tag |-> "Inst", block |-> 0, index |-> 0]

\* The shortest function there is, twice; and one with a name for everything.
Declarations == [Empty EXCEPT !.symbols = <<<<1>>>>,
    !.functions = <<Function(<<>>, <<>>), [Function(<<>>, <<>>) EXCEPT !.linkage = "Exported"]>>]
Names == [Empty EXCEPT !.symbols = <<<<1>>, <<195, 169>>>>,   \* the second is not ASCII
    !.functions = <<[Function(<<Value(ParamKind, 1), Value([tag |-> "Reserved"], None)>>,
                              <<[Block(<<>>, <<>>, [tag |-> "None"]) EXCEPT !.name = 1]>>)
                     EXCEPT !.abi = [tag |-> "Custom", symbol |-> 1], !.variadic = TRUE,
                            !.params = <<[value |-> 0, ty |-> 2]>>]>>]

Add == [kind |-> [tag |-> "add", lhs |-> 0, rhs |-> 1], result |-> 2]
Flow == Body(<<Value(ParamKind, None), Value([tag |-> "BlockParam", block |-> 1, index |-> 0], 0),
               Value(InstKind, None)>>,
             <<Block(<<>>, <<Add>>, [tag |-> "Jump", target |-> 1, args |-> <<0>>]),
               Block(<<[value |-> 1, ty |-> 2]>>, <<>>, [tag |-> "Return", value |-> 2])>>)

Insts == [kind : {[tag |-> "const", constant |-> 1], [tag |-> "alloca", ty |-> 2],
                  [tag |-> "load", ty |-> 1, pointer |-> 2],
                  [tag |-> "store", pointer |-> 1, value |-> 2],
                  [tag |-> "ptr_offset", pointer |-> 1, offset |-> 2],
                  [tag |-> "call", callee |-> 0, args |-> <<>>],
                  [tag |-> "call", callee |-> 1, args |-> <<2, 3>>],
                  [tag |-> "construct", ty |-> 14, args |-> <<1>>],
                  [tag |-> "extract", aggregate |-> 1, index |-> 2],
                  [tag |-> "insert", aggregate |-> 1, index |-> 2, value |-> 3]}
                 \cup [tag : {"ext", "trunc", "int_to_float", "float_to_int", "ptr_cast"},
                       to : {3}, value : {4}]
                 \cup [tag : Binary, lhs : {1}, rhs : {2}],
          result : {None, 5}]
Terms == {[tag |-> "None"], [tag |-> "Unreachable"], [tag |-> "Jump", target |-> 1, args |-> <<>>],
          [tag |-> "Branch", condition |-> 1, then_block |-> 2, then_args |-> <<3>>,
           else_block |-> 4, else_args |-> <<5, 6>>],
          [tag |-> "Return", value |-> None]}
OneOfEach ==
    {Body(<<>>, <<Block(<<>>, <<i, Add>>, [tag |-> "Unreachable"])>>) : i \in Insts}
    \cup {Body(<<>>, <<Block(<<>>, <<>>, t), Block(<<>>, <<Add>>, t)>>) : t \in Terms}

\* What a ModuleBuilder can make and read refuses: a type that refers to itself, to a later
\* one, one of no width, a constant that is not masked, an ABI whose symbol does not exist.
Unstorable ==
    {[Empty EXCEPT !.types = Scalars \o <<StructData(<<14>>)>>],
     [Empty EXCEPT !.types = Scalars \o <<PointerData(15, 0), ArrayData(2, 1)>>],
     [Empty EXCEPT !.types = Scalars \o <<IntData(0, FALSE)>>],
     [Empty EXCEPT !.constants = <<IntConst(2, 8, 256)>>],
     [Empty EXCEPT !.symbols = <<<<1>>>>,
        !.functions = <<[Function(<<>>, <<>>) EXCEPT !.abi = [tag |-> "Custom", symbol |-> 7]]>>]}

ToDamage == {Tables, Declarations, Names, Flow}
ToRead == ToDamage \cup OneOfEach \cup Unstorable \cup {Empty, [Empty EXCEPT !.functions = <<>>, !.minor = 300]}
DamagedBytes == {0, 1, 2, 14, 255}
=============================================================================
