---------------------------- MODULE ModuleBuilder ---------------------------
(***************************************************************************)
(* ModuleBuilder and the instruction half of FunctionBuilder, of           *)
(* src/src/builder.rs: types, symbols, constants and functions put into a  *)
(* module, and instructions emitted into the bodies, in any order.         *)
(*                                                                         *)
(* One action is one call.  A call whose checks fail returns Err before it *)
(* changes anything and is a stuttering step; a call that interns and then *)
(* fails to append, because no open block is selected, changes a table and *)
(* no body, and is modelled.  Blocks only matter here as something that is *)
(* open or terminated: edges and block parameters are in Builder.  Debug   *)
(* names of values and blocks, ABIs and the module name are left out.      *)
(*                                                                         *)
(* A FunctionBuilder borrows the module mutably, so a call on the          *)
(* ModuleBuilder ends the one there is: the cursor is gone, and another    *)
(* one starts without a current block.                                     *)
(***************************************************************************)
EXTENDS Typing, FiniteSets, Functions

CONSTANTS Idents, NonIdents,   \* names a caller may use, valid identifiers or not
          ScalarInputs,        \* the scalar type ids a caller uses
          TypeDataInputs,      \* the type data a caller interns by hand
          ConstDataInputs,     \* the constant data a caller interns by hand
          Lengths,             \* array lengths
          LinkageInputs,       \* the linkages a caller uses
          IntValues,           \* values for const_int and const_uint
          EmitOps,             \* the binary and conversion ops a caller emits
          MaxEntries,          \* bound on constants, instructions and composite types
          MaxFunctions, MaxParams, MaxFields, MaxBlocks, MaxArgs

Linkages == {"Internal", "External", "Exported"}

ASSUME ModuleBuilderAssumption ==
    /\ Idents \cap NonIdents = {}
    /\ ScalarInputs \subseteq DOMAIN Scalars
    /\ TypeDataInputs \subseteq TypeData /\ ConstDataInputs \subseteq ConstData
    /\ LinkageInputs \subseteq Linkages
    /\ Lengths \subseteq Nat /\ IntValues \subseteq Int
    /\ EmitOps \subseteq BinaryOps \cup ConvOps
    /\ {MaxEntries, MaxFunctions, MaxParams, MaxFields, MaxBlocks, MaxArgs} \subseteq Nat

VARIABLES types, symbols, consts,   \* the three interning tables
          functions,                \* function id -> function
          cursor,                   \* FunctionBuilder: its function, its current block
          raw                       \* history: the constants interned by hand first

vars == <<types, symbols, consts, functions, cursor, raw>>

M == [types |-> types, symbols |-> symbols, consts |-> consts, functions |-> functions]
F == functions[cursor.fn]

NoCursor == [fn |-> NoId, block |-> NoId]

-----------------------------------------------------------------------------
(* Inputs of the calls, within the bounds                                  *)

ListsUpTo(n, S) == UNION {[1..k -> S] : k \in 0..n}

\* Nothing keeps a caller from an id that the next calls will hand out, or none will.
Composites == Len(Scalars) + 1..Len(types)
TypeInputs == ScalarInputs \cup Composites \cup {Len(types) + 1, Len(types) + 2}
OperandTypes == TypeInputs \cup {I1, F32}   \* types named inside an instruction
ValueInputs(f) == 1..Len(f.values) + 1      \* the last one names nothing
ConstInputs == 1..Len(consts) + 1
FunctionInputs == 1..Len(functions) + 1
BlockInputs == 1..Len(F.terms) + 1
IndexInputs == 0..MaxFields

Building == cursor.fn # NoId

\* The bound on what a module holds; the n-th composite type counts n times.
Composed == Len(types) - Len(Scalars)
Entries == (Composed * (Composed + 1)) \div 2 + Len(consts)
           + FoldFunction(LAMBDA fn, n : n + Len(fn.insts), 0, functions)
Bounded == Entries <= MaxEntries

-----------------------------------------------------------------------------
(* ModuleBuilder: types, symbols, constants, functions                     *)

\* types().intern, for any data, and below it the calls that make the data.  The types
\* referred to are not looked at: a type may name itself, a later one or none.
InternType(data) ==
    /\ types' = Intern(types, data)
    /\ cursor' = NoCursor
    /\ UNCHANGED <<symbols, consts, functions, raw>>

PtrType(t) == InternType(PointerData(t, 0))
ArrayType(t, n) == InternType(ArrayData(t, n))
StructType(fields) == InternType(StructData(fields))
FnType(params, variadic, result) == InternType(FunctionData(params, variadic, result))

InternSymbol(n) ==
    /\ symbols' = Intern(symbols, n)
    /\ cursor' = NoCursor
    /\ UNCHANGED <<types, consts, functions, raw>>

\* intern_constant_data looks at nothing: width, mask, type and elements are the caller's.
InternConstantData(data) ==
    /\ consts' = Intern(consts, data)
    /\ raw' = raw \cup (DOMAIN consts' \ DOMAIN consts)
    /\ cursor' = NoCursor
    /\ UNCHANGED <<types, symbols, functions>>

FunctionNames == {symbols[functions[g].symbol] : g \in DOMAIN functions}

\* declare_function_inner accepts the name and the signature.
SignatureOk(n, params, result) ==
    /\ n \in Idents /\ n \notin FunctionNames
    /\ \A i \in DOMAIN params : Holds(types, params[i], IsFirstClass)
    /\ Holds(types, result, IsFirstClass) \/ Holds(types, result, IsVoid)

\* declare_function is never variadic, declare_extern is always external.
DeclareFunction(n, linkage, params, variadic, result) ==
    /\ Len(functions) < MaxFunctions
    /\ variadic => linkage = "External"
    /\ SignatureOk(n, params, result)
    /\ symbols' = Intern(symbols, n)
    /\ functions' = Append(functions,
          [symbol |-> IdOf(symbols, n), linkage |-> linkage, params |-> params,
           variadic |-> variadic, result |-> result,
           values |-> params, insts |-> <<>>, terms |-> <<>>])
    /\ cursor' = NoCursor
    /\ UNCHANGED <<types, consts, raw>>

\* function_builder: a cursor without a block.
FunctionBuilder(g) ==
    /\ g \in DOMAIN functions
    /\ cursor' = [fn |-> g, block |-> NoId]
    /\ UNCHANGED <<types, symbols, consts, functions, raw>>

-----------------------------------------------------------------------------
(* FunctionBuilder: blocks                                                 *)

AppendBlock ==
    /\ Building
    /\ Len(F.terms) < MaxBlocks
    /\ functions' = [functions EXCEPT ![cursor.fn].terms = Append(@, FALSE)]
    /\ cursor' = [cursor EXCEPT !.block = Len(F.terms) + 1]
    /\ UNCHANGED <<types, symbols, consts, raw>>

SwitchTo(b) ==
    /\ Building /\ b \in DOMAIN F.terms
    /\ cursor' = [cursor EXCEPT !.block = b]
    /\ UNCHANGED <<types, symbols, consts, functions, raw>>

\* append and set_terminator need a current block without a terminator.
CursorOpen == cursor.block # NoId /\ ~F.terms[cursor.block]

\* unreachable, the terminator that looks at nothing.
Unreachable ==
    /\ Building /\ CursorOpen
    /\ functions' = [functions EXCEPT ![cursor.fn].terms[cursor.block] = TRUE]
    /\ UNCHANGED <<types, symbols, consts, cursor, raw>>

-----------------------------------------------------------------------------
(* append                                                                  *)

\* The instruction, and a value of type rt for its result unless rt is NoId.
Emitted(f, k, rt) ==
    [f EXCEPT !.values = IF rt = NoId THEN @ ELSE Append(@, rt),
              !.insts = Append(@, [kind |-> k,
                                   result |-> IF rt = NoId THEN NoId ELSE Len(f.values) + 1])]

\* append as the last thing a call does: what the call interned stays when it fails.
AppendInstBug(k, rt) ==   \* takes the result value before it looks at the block
    functions' = [functions EXCEPT ![cursor.fn] =
        IF CursorOpen THEN Emitted(F, k, rt)
        ELSE [F EXCEPT !.values = IF rt = NoId THEN @ ELSE Append(@, rt)]]
AppendInst(k, rt) ==
    functions' = IF CursorOpen THEN [functions EXCEPT ![cursor.fn] = Emitted(F, k, rt)]
                 ELSE functions

NoTableChanges == UNCHANGED <<types, symbols, consts, cursor, raw>>

-----------------------------------------------------------------------------
(* What the calls accept, and the type they give the result                *)

ClassOf(op, d) ==
    CASE op \in {"add", "sub", "mul", "div"} -> IsArithInteger(d) \/ IsFloat(d)
      [] op = "rem" -> IsArithInteger(d)
      [] op \in {"and", "or", "xor"} -> IsInteger(d)
      [] op \in {"shl", "shr"} -> IsArithInteger(d)
      [] op \in {"eq", "ne"} -> IsInteger(d) \/ IsFloat(d) \/ IsPointer(d)
      [] op \in {"lt", "le", "gt", "ge"} -> IsArithInteger(d) \/ IsFloat(d)

BinaryOk(f, k) ==
    LET inClass(d) == ClassOf(k.op, d)
    IN  /\ {k.lhs, k.rhs} \subseteq DOMAIN f.values
        /\ IF k.op \in {"shl", "shr"} THEN Holds(types, f.values[k.rhs], IsInteger)
           ELSE f.values[k.lhs] = f.values[k.rhs]
        /\ Holds(types, f.values[k.lhs], inClass)
BinaryResult(f, k) == IF k.op \in EqualityOps \cup OrderOps THEN I1 ELSE f.values[k.lhs]

\* pointee_of: the type behind a pointer value, NoId when it is not one.
PointeeOf(f, v) == Pointee(M, TyOf(f, v))

LoadOk(f, k) == PointeeOf(f, k.pointer) = k.ty /\ Holds(types, k.ty, IsFirstClass)
StoreOk(f, k) ==
    /\ PointeeOf(f, k.pointer) # NoId /\ k.value \in DOMAIN f.values
    /\ PointeeOf(f, k.pointer) = f.values[k.value]
PtrOffsetOk(f, k) ==
    /\ Holds(types, TyOf(f, k.pointer), IsPointer)
    /\ Holds(types, TyOf(f, k.offset), IsArithInteger)

\* conv and ptr_cast, with the two checks each of their callers passes.
ConvOk(f, k) ==
    LET toOk(d) == CASE k.op \in {"ext", "float_to_int"} -> IsArithInteger(d)
                     [] k.op = "trunc" -> IsInteger(d)
                     [] k.op = "int_to_float" -> IsFloat(d)
                     [] k.op = "ptr_cast" -> IsPointer(d)
        fromOk(d) == CASE k.op \in {"ext", "trunc"} -> IsInteger(d)
                       [] k.op = "int_to_float" -> IsArithInteger(d)
                       [] k.op = "float_to_int" -> IsFloat(d)
                       [] k.op = "ptr_cast" -> IsPointer(d)
        bits(t) == types[t].bits
        from == TyOf(f, k.value)
    IN  /\ Holds(types, k.to, toOk) /\ Holds(types, from, fromOk)
        /\ k.op = "ext" => bits(k.to) > bits(from)
        /\ k.op = "trunc" => bits(k.to) < bits(from)

CallOk(f, k) ==
    /\ k.callee \in DOMAIN functions
    /\ LET callee == functions[k.callee]
           n == Len(callee.params)
       IN  /\ IF callee.variadic THEN Len(k.args) >= n ELSE Len(k.args) = n
           /\ \A i \in DOMAIN k.args :
                 /\ k.args[i] \in DOMAIN f.values
                 /\ IF i <= n THEN f.values[k.args[i]] = callee.params[i]
                    ELSE Holds(types, f.values[k.args[i]], IsFirstClass)
CallResult(k) ==
    IF Holds(types, functions[k.callee].result, IsVoid) THEN NoId
    ELSE functions[k.callee].result

ConstructOk(f, k) ==
    /\ Holds(types, k.ty, IsAggregate)
    /\ FieldCount(types[k.ty]) = Len(k.args)
    /\ \A i \in DOMAIN k.args :
          /\ k.args[i] \in DOMAIN f.values
          /\ f.values[k.args[i]] = FieldType(types[k.ty], i - 1)
FieldOf(f, k) == FieldAt(M, f, k)
InsertOk(f, k) == FieldOf(f, k) # NoId /\ TyOf(f, k.value) = FieldOf(f, k)

\* The call that would emit k does; and the type of the result.
Accepts(f, k) ==
    CASE k.op \in BinaryOps -> BinaryOk(f, k)
      [] k.op = "alloca" -> Holds(types, k.ty, IsFirstClass)
      [] k.op = "load" -> LoadOk(f, k)
      [] k.op = "store" -> StoreOk(f, k)
      [] k.op = "ptr_offset" -> PtrOffsetOk(f, k)
      [] k.op \in ConvOps -> ConvOk(f, k)
      [] k.op = "call" -> CallOk(f, k)
      [] k.op = "construct" -> ConstructOk(f, k)
      [] k.op = "extract" -> FieldOf(f, k) # NoId
      [] k.op = "insert" -> InsertOk(f, k)
ResultType(f, k) ==
    CASE k.op \in BinaryOps -> BinaryResult(f, k)
      [] k.op = "alloca" -> IdOf(types, PointerData(k.ty, 0))
      [] k.op \in {"load", "construct"} -> k.ty
      [] k.op = "store" -> NoId
      [] k.op = "ptr_offset" -> f.values[k.pointer]
      [] k.op \in ConvOps -> k.to
      [] k.op = "call" -> CallResult(k)
      [] k.op = "extract" -> FieldOf(f, k)
      [] k.op = "insert" -> f.values[k.aggregate]

-----------------------------------------------------------------------------
(* The calls that emit                                                     *)

Emit(k) ==
    /\ Accepts(F, k)
    /\ AppendInst(k, ResultType(F, k))

Binary(op, l, r) == Emit([op |-> op, lhs |-> l, rhs |-> r]) /\ NoTableChanges
Load(p) == Emit([op |-> "load", ty |-> PointeeOf(F, p), pointer |-> p]) /\ NoTableChanges
Store(p, v) == Emit([op |-> "store", pointer |-> p, value |-> v]) /\ NoTableChanges
PtrOffset(p, o) == Emit([op |-> "ptr_offset", pointer |-> p, offset |-> o]) /\ NoTableChanges
Convert(op, to, v) == Emit([op |-> op, to |-> to, value |-> v]) /\ NoTableChanges
Call(g, args) == Emit([op |-> "call", callee |-> g, args |-> args]) /\ NoTableChanges
Construct(t, args) == Emit([op |-> "construct", ty |-> t, args |-> args]) /\ NoTableChanges
Extract(a, i) == Emit([op |-> "extract", aggregate |-> a, index |-> i]) /\ NoTableChanges
Insert(a, i, v) ==
    Emit([op |-> "insert", aggregate |-> a, index |-> i, value |-> v]) /\ NoTableChanges

\* alloca interns the pointer type before it appends.
Alloca(t) ==
    /\ Emit([op |-> "alloca", ty |-> t])
    /\ types' = Intern(types, PointerData(t, 0))
    /\ UNCHANGED <<symbols, consts, cursor, raw>>

\* The const_* calls intern the constant, then the type of its value, then append.
EmitConst(c, table, rt) ==
    /\ consts' = Intern(consts, c)
    /\ types' = table
    /\ AppendInst([op |-> "const", constant |-> IdOf(consts, c)], rt)
    /\ UNCHANGED <<symbols, cursor, raw>>
EmitConstPtr(c, pointee) ==
    EmitConst(c, Intern(types, PointerData(pointee, 0)), IdOf(types, PointerData(pointee, 0)))

ConstIntDataBug(t, v) == IntConst(t, types[t].bits, v)   \* not masked
ConstIntData(t, v) == IntConst(t, types[t].bits, Mask(v, types[t].bits))

ConstInt(t, v) == Holds(types, t, IsInteger) /\ EmitConst(ConstIntData(t, v), types, t)
ConstFloat(t) == EmitConst(FloatConst(t, 0), types, t)
ConstNull(t) == Holds(types, t, IsFirstClass) /\ EmitConstPtr(NullConst(t), t)
ConstString == EmitConstPtr(StringConst(<<>>), I8)

\* check_aggregate_constant as const_aggregate calls it.
AggregateOkBug(t, elements) ==   \* the element types are not looked at
    /\ Holds(types, t, IsAggregate)
    /\ FieldCount(types[t]) = Len(elements)
    /\ ValuesOf(elements) \subseteq DOMAIN consts
AggregateOk(t, elements) ==
    /\ Holds(types, t, IsAggregate)
    /\ FieldCount(types[t]) = Len(elements)
    /\ \A i \in DOMAIN elements :
          /\ elements[i] \in DOMAIN consts
          /\ ConstantFits(types, consts[elements[i]], FieldType(types[t], i - 1))
ConstAggregate(t, elements) ==
    AggregateOk(t, elements) /\ EmitConst(AggregateConst(t, elements), types, t)

-----------------------------------------------------------------------------
(* The specification                                                       *)

Init ==
    /\ types = Scalars /\ symbols = <<>> /\ consts = <<>>
    /\ functions = <<>> /\ cursor = NoCursor /\ raw = {}

ModuleCalls ==
    \/ \E t \in TypeInputs : PtrType(t) \/ \E n \in Lengths : ArrayType(t, n)
    \/ \E fields \in ListsUpTo(MaxFields, TypeInputs) : StructType(fields)
    \/ \E t \in ScalarInputs : FnType(<<t>>, TRUE, t)
    \/ \E data \in TypeDataInputs : InternType(data)
    \/ \E n \in Idents : InternSymbol(n)
    \/ \E data \in ConstDataInputs : InternConstantData(data)
    \/ \E n \in Idents \cup NonIdents, l \in LinkageInputs, v \in BOOLEAN, r \in TypeInputs :
          \E params \in ListsUpTo(MaxParams, TypeInputs) : DeclareFunction(n, l, params, v, r)
    \/ \E g \in FunctionInputs : FunctionBuilder(g)

BlockCalls == AppendBlock \/ Unreachable \/ (Building /\ \E b \in BlockInputs : SwitchTo(b))

ConstCalls ==
    \/ \E t \in TypeInputs : ConstNull(t) \/ \E v \in IntValues : ConstInt(t, v)
    \/ \E t \in {F32, F64} : ConstFloat(t)
    \/ ConstString
    \/ \E t \in TypeInputs, es \in ListsUpTo(MaxArgs, ConstInputs) : ConstAggregate(t, es)

InstCalls ==
    \/ \E t \in TypeInputs : Alloca(t)
    \/ \E v \in ValueInputs(F) :
          \/ Load(v)
          \/ \E w \in ValueInputs(F) :
                \/ Store(v, w) \/ PtrOffset(v, w)
                \/ \E op \in EmitOps \cap BinaryOps : Binary(op, v, w)
                \/ \E i \in IndexInputs : Insert(v, i, w)
          \/ \E t \in OperandTypes, op \in EmitOps \cap ConvOps : Convert(op, t, v)
          \/ \E i \in IndexInputs : Extract(v, i)
    \/ \E args \in ListsUpTo(MaxArgs, ValueInputs(F)) :
          \/ \E g \in FunctionInputs : Call(g, args)
          \/ \E t \in TypeInputs : Construct(t, args)

\* Where the bound is reached, constants and instructions would only go past it.
Next ==
    /\ \/ ModuleCalls \/ BlockCalls
       \/ Building /\ Entries < MaxEntries /\ (ConstCalls \/ InstCalls)
    /\ Bounded'

Spec == Init /\ [][Next]_vars

-----------------------------------------------------------------------------
(* Properties                                                              *)

\* The shape of the module.  Type ids are only known to be ids: a field may have a type
\* that is not there, and so may what is extracted from it.  Integer constants are stored
\* masked (constant.rs:24) and aggregates refer backwards, but for those interned by hand.
TypeOK ==
    /\ types \in Seq(TypeData) /\ symbols \in Seq(Idents) /\ consts \in Seq(ConstData)
    /\ raw \subseteq DOMAIN consts
    /\ \A c \in DOMAIN consts \ raw :
          /\ consts[c].tag = "Int" => consts[c].bits \in 0..2 ^ consts[c].width - 1
          /\ consts[c].tag = "Aggregate" => ValuesOf(consts[c].elements) \subseteq 1..c - 1
    /\ \A g \in DOMAIN functions :
          /\ functions[g].symbol \in DOMAIN symbols
          /\ functions[g].linkage \in Linkages
          /\ functions[g].values \in Seq(Ids)
          /\ functions[g].terms \in Seq(BOOLEAN)
    /\ cursor.fn \in {NoId} \cup DOMAIN functions
    /\ cursor.block \in {NoId} \cup (IF Building THEN DOMAIN F.terms ELSE {})

\* What the builder checks, the verifier accepts, in every state a caller can leave the
\* module in: types may be missing, refer to themselves or be filled in later, the tables
\* may have grown since an instruction was checked, a failed call may have left a constant
\* nobody uses, and constants interned by hand may be anything, elements of others too.
\* Only these constants are the caller's own affair, and two rules about bodies: a
\* function without one must be external, one with a body not variadic (mod.rs:101-113).
BuiltModulesTypeCheck ==
    TypingErrors(M, DOMAIN consts \ raw) \subseteq {"InvalidDeclaration", "VariadicDefinition"}

\* Builder and verifier are two implementations of one typing table
\* (builder.rs:531-1374, verify/types.rs:133-854).  They agree on every
\* instruction over the arena of every function, operands that do not exist
\* included: the verifier accepts it with a result of type r exactly when the
\* builder emits it with that result type.  The const_* calls are not among the
\* candidates: they make the constant they emit, and BuiltModulesTypeCheck has them.
Candidates(f) ==
    LET V == (1..Len(f.values)) \cup {Len(f.values) + 2}
        T == OperandTypes
    IN  [op : BinaryOps, lhs : V, rhs : V]
        \cup [op : {"alloca"}, ty : T]
        \cup [op : {"load"}, ty : T, pointer : V]
        \cup [op : {"store"}, pointer : V, value : V]
        \cup [op : {"ptr_offset"}, pointer : V, offset : V]
        \cup [op : ConvOps, to : T, value : V]
        \cup [op : {"call"}, callee : FunctionInputs, args : ListsUpTo(MaxArgs, V)]
        \cup [op : {"construct"}, ty : T, args : ListsUpTo(MaxArgs, V)]
        \cup [op : {"extract"}, aggregate : V, index : IndexInputs]
        \cup [op : {"insert"}, aggregate : V, index : IndexInputs, value : V]
\* The verifier accepts k with a result of type r, over the table the call leaves.
VerifierAccepts(f, k, r) ==
    LET table == IF k.op = "alloca" /\ Accepts(f, k) THEN Intern(types, PointerData(k.ty, 0))
                 ELSE types
        m == [M EXCEPT !.types = table]
    IN  IF r = NoId THEN CheckInstruction(m, f, [kind |-> k, result |-> NoId]) = {}
        ELSE CheckInstruction(m, [f EXCEPT !.values = Append(@, r)],
                              [kind |-> k, result |-> Len(f.values) + 1]) = {}
TypingTablesAgree ==
    \A g \in DOMAIN functions : \A k \in Candidates(functions[g]), r \in OperandTypes \cup {NoId} :
        VerifierAccepts(functions[g], k, r) <=>
            Accepts(functions[g], k) /\ r = ResultType(functions[g], k)

\* The cursor and the constants no instruction emits have no part in it: it is looked at
\* where there are none, and while the bounds leave room for one more instruction.
EmittedConsts ==
    UNION {{i.kind.constant : i \in {j \in ValuesOf(functions[g].insts) : j.kind.op = "const"}}
             : g \in DOMAIN functions}
BuilderAgreesWithVerifier ==
    ~Building /\ DOMAIN consts = EmittedConsts /\ Entries < MaxEntries => TypingTablesAgree

\* Types t and u look alike when the types they refer to are the same or related by R.
Alike(R, t, u) ==
    LET d == types[t]
        e == types[u]
        same(a, b) == a = b \/ <<a, b>> \in R
        sameList(p, q) == Len(p) = Len(q) /\ \A i \in DOMAIN p : same(p[i], q[i])
    IN  CASE d.tag = "Pointer" ->
                e.tag = "Pointer" /\ e.space = d.space /\ same(d.pointee, e.pointee)
          [] d.tag = "Array" ->
                e.tag = "Array" /\ e.length = d.length /\ same(d.element, e.element)
          [] d.tag = "Struct" -> e.tag = "Struct" /\ sameList(d.fields, e.fields)
          [] d.tag = "Function" ->
                /\ e.tag = "Function" /\ e.variadic = d.variadic
                /\ sameList(d.params, e.params) /\ same(d.result, e.result)
          [] OTHER -> d = e

\* The references of t end, at scalars and at types that are not there: t is in every
\* set of composite types that holds a type as soon as it holds those it refers to.
Grounded(t) ==
    \A S \in SUBSET Composites :
        (\A u \in Composites : References(types[u]) \cap Composites \subseteq S => u \in S) => t \in S

\* Type equality is equality of ids (types.rs:1-5): two ids never stand for one structure,
\* seen through the references.  A relation of types that look alike under it is equality,
\* where the references end; of those that run in a circle several may look alike.
SameShapeSameId ==
    \A R \in SUBSET (Composites \X Composites) :
        (\A p \in R : Grounded(p[1]) /\ Alike(R, p[1], p[2])) => \A p \in R : p[1] = p[2]

\* A call that fails after interning leaves no trace in a body: the arena is the
\* parameters and then the results of the instructions, one each and in order.
ArenaMatchesBody ==
    \A g \in DOMAIN functions :
        LET f == functions[g]
            results == {j \in DOMAIN f.insts : f.insts[j].result # NoId}
        IN  /\ Len(f.values) = Len(f.params) + Cardinality(results)
            /\ \A j \in results :
                  f.insts[j].result =
                      Len(f.params) + Cardinality({i \in results : i <= j})
=============================================================================
