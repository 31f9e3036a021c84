------------------------------ MODULE ArbWriter -----------------------------
(***************************************************************************)
(* The .arb encoder, src/src/binary/writer.rs, with the tables it shares   *)
(* with the decoder, src/src/binary/mod.rs.                                *)
(*                                                                         *)
(* A file is a sequence of bytes.  A module is a record [major, minor,     *)
(* name, symbols, types, constants, functions] whose ids are the numbers   *)
(* in the file, counted from 0; an absent id is None.  An entry that comes *)
(* in kinds is a record with a tag, and WritesX(tag) lists its fields in   *)
(* the order they are written, as <<name, how it is written>>.             *)
(*                                                                         *)
(* Numbers are little-endian as in the code, but narrower: W16 to W128     *)
(* bytes instead of 2 to 16.  The magic and the section tags, compared as  *)
(* a whole, are one byte each.  The checksum is not written; a file is     *)
(* kept together with whether its checksum fits.                           *)
(***************************************************************************)
EXTENDS Stores, SequencesExt

W16 == 1
W32 == 2
W64 == 3
W128 == 3

None == -1
MAGIC == 127
FORMAT_MAJOR == 1
FORMAT_MINOR == 0

SectionTags == <<77, 83, 84, 67, 70>>   \* MODL SYMB TYPE CNST FUNC
TypeTags == <<"Void", "Int", "Float", "Pointer", "Array", "Struct", "Function">>
ConstTags == <<"Int", "Float", "Null", "String", "Aggregate">>
ValueTags == <<"Reserved", "Param", "BlockParam", "Inst">>
TermTags == <<"None", "Jump", "Branch", "Return", "Unreachable">>
Opcodes == <<"const", "add", "sub", "mul", "div", "rem", "and", "or", "xor", "shl", "shr",
             "eq", "ne", "lt", "le", "gt", "ge", "alloca", "load", "store", "ptr_offset",
             "ext", "trunc", "int_to_float", "float_to_int", "ptr_cast", "call", "construct",
             "extract", "insert">>
LinkageTags == <<"Internal", "External", "Exported">>
AbiTags == <<"Astronomy", "C", "System", "Custom">>
FloatKinds == <<32, 64>>

CodeOf(tags, tag) == CHOOSE i \in 0..Len(tags) - 1 : tags[i + 1] = tag

-----------------------------------------------------------------------------
(* Writer                                                                  *)

\* Byte by byte, as many as the width; no width is above three.
Number(v, width) ==
    LET high == v \div 256
    IN  [i \in 1..width |-> <<v, high, high \div 256>>[i] % 256]
U8(v) == Number(v, 1)
U32(v) == Number(v, W32)
Opt(v) == IF v = None THEN U8(0) ELSE U8(1) \o U32(v)
Concat(list, Bytes(_)) == FlattenSeq([i \in DOMAIN list |-> Bytes(list[i])])
List(list, Bytes(_)) == U32(Len(list)) \o Concat(list, Bytes)
Pair(p) == U32(p.value) \o U32(p.ty)
AbiBytes(abi) ==
    U8(CodeOf(AbiTags, abi.tag)) \o IF abi.tag = "Custom" THEN U32(abi.symbol) ELSE <<>>

\* A field, by how it is written.
FieldBytes(how, v) ==
    CASE how = "u32" -> U32(v)
      [] how = "u64" -> Number(v, W64)
      [] how = "u128" -> Number(v, W128)
      [] how = "bool" -> U8(IF v THEN 1 ELSE 0)
      [] how = "opt" -> Opt(v)
      [] how = "blob" -> List(v, U8)
      [] how = "ids" -> List(v, U32)
      [] how = "pairs" -> List(v, Pair)
      [] how = "float" -> U8(CodeOf(FloatKinds, v))
      [] how = "linkage" -> U8(CodeOf(LinkageTags, v))
      [] how = "abi" -> AbiBytes(v)

FieldsBytes(fields, record) ==
    FlattenSeq([i \in DOMAIN fields |-> FieldBytes(fields[i][2], record[fields[i][1]])])
TaggedBytes(tags, Writes(_), record) ==
    U8(CodeOf(tags, record.tag)) \o FieldsBytes(Writes(record.tag), record)

\* type_data
WritesType(tag) ==
    CASE tag = "Void" -> <<>>
      [] tag = "Int" -> <<<<"bits", "u32">>, <<"signed", "bool">>>>
      [] tag = "Float" -> <<<<"bits", "float">>>>
      [] tag = "Pointer" -> <<<<"pointee", "u32">>, <<"space", "u32">>>>
      [] tag = "Array" -> <<<<"element", "u32">>, <<"length", "u64">>>>
      [] tag = "Struct" -> <<<<"fields", "ids">>>>
      [] tag = "Function" -> <<<<"params", "ids">>, <<"variadic", "bool">>, <<"result", "u32">>>>

\* constant
WritesConst(tag) ==
    CASE tag = "Int" -> <<<<"ty", "u32">>, <<"width", "u32">>, <<"bits", "u128">>>>
      [] tag = "Float" -> <<<<"ty", "u32">>, <<"bits", "u64">>>>
      [] tag = "Null" -> <<<<"pointee", "u32">>>>
      [] tag = "String" -> <<<<"bytes", "blob">>>>
      [] tag = "Aggregate" -> <<<<"ty", "u32">>, <<"elements", "ids">>>>

\* The kind of a value, in function.
WritesKind(tag) ==
    CASE tag = "Reserved" -> <<>>
      [] tag = "Param" -> <<<<"index", "u32">>>>
      [] tag \in {"BlockParam", "Inst"} -> <<<<"block", "u32">>, <<"index", "u32">>>>

\* The terminator, in block.
WritesTerm(tag) ==
    CASE tag \in {"None", "Unreachable"} -> <<>>
      [] tag = "Jump" -> <<<<"target", "u32">>, <<"args", "ids">>>>
      [] tag = "Branch" ->
            <<<<"condition", "u32">>, <<"then_block", "u32">>, <<"then_args", "ids">>,
              <<"else_block", "u32">>, <<"else_args", "ids">>>>
      [] tag = "Return" -> <<<<"value", "opt">>>>

\* instruction
Binary == {"add", "sub", "mul", "div", "rem", "and", "or", "xor", "shl", "shr",
           "eq", "ne", "lt", "le", "gt", "ge"}
WritesInst(tag) ==
    CASE tag = "const" -> <<<<"constant", "u32">>>>
      [] tag \in Binary -> <<<<"lhs", "u32">>, <<"rhs", "u32">>>>
      [] tag = "alloca" -> <<<<"ty", "u32">>>>
      [] tag = "load" -> <<<<"ty", "u32">>, <<"pointer", "u32">>>>
      [] tag = "store" -> <<<<"pointer", "u32">>, <<"value", "u32">>>>
      [] tag = "ptr_offset" -> <<<<"pointer", "u32">>, <<"offset", "u32">>>>
      [] tag \in {"ext", "trunc", "int_to_float", "float_to_int", "ptr_cast"} ->
            <<<<"to", "u32">>, <<"value", "u32">>>>
      [] tag = "call" -> <<<<"callee", "u32">>, <<"args", "ids">>>>
      [] tag = "construct" -> <<<<"ty", "u32">>, <<"args", "ids">>>>
      [] tag = "extract" -> <<<<"aggregate", "u32">>, <<"index", "u32">>>>
      [] tag = "insert" -> <<<<"aggregate", "u32">>, <<"index", "u32">>, <<"value", "u32">>>>

TypeBytes(d) == TaggedBytes(TypeTags, WritesType, d)
ConstBytes(c) == TaggedBytes(ConstTags, WritesConst, c)
ValueBytes(v) == U32(v.ty) \o TaggedBytes(ValueTags, WritesKind, v.kind) \o Opt(v.name)
InstBytes(i) == TaggedBytes(Opcodes, WritesInst, i.kind) \o Opt(i.result)
BlockBytes(b) ==
    Opt(b.name) \o List(b.params, Pair) \o List(b.insts, InstBytes)
    \o TaggedBytes(TermTags, WritesTerm, b.term)
WritesSignature ==
    <<<<"symbol", "u32">>, <<"linkage", "linkage">>, <<"abi", "abi">>, <<"variadic", "bool">>,
      <<"result", "u32">>, <<"params", "pairs">>>>
FunctionBytes(f) ==
    FieldsBytes(WritesSignature, f) \o List(f.values, ValueBytes) \o List(f.blocks, BlockBytes)

Section(i, body) == <<SectionTags[i]>> \o Number(Len(body), W64) \o body

\* write: the bytes before the checksum.
Write(m) ==
    <<MAGIC>> \o Number(FORMAT_MAJOR, W16) \o Number(FORMAT_MINOR, W16) \o U32(0)
    \o Section(1, U32(m.major) \o U32(m.minor) \o Opt(m.name))
    \o Section(2, List(m.symbols, LAMBDA name : List(name, U8)))
    \o Section(3, List(m.types, TypeBytes))
    \o Section(4, List(m.constants, ConstBytes))
    \o Section(5, List(m.functions, FunctionBytes))
-----------------------------------------------------------------------------
(* Modules as the Rust types have them: what each field holds, by how it   *)
(* is written, and no list longer than its length field can say            *)

\* v is a number of w bytes, w at most three.
FitsIn(v, w) ==
    /\ v \in Nat
    /\ w = 1 => v < 256
    /\ w = 2 => v \div 256 < 256
    /\ w = 3 => (v \div 256) \div 256 < 256
ListOf(l, Ok(_)) == l \in Seq(Range(l)) /\ FitsIn(Len(l), W32) /\ \A i \in DOMAIN l : Ok(l[i])
OptFits(v) == v = None \/ FitsIn(v, W32)
PairFits(p) == p = [value |-> p.value, ty |-> p.ty] /\ FitsIn(p.value, W32) /\ FitsIn(p.ty, W32)
AbiFits(abi) ==
    IF abi.tag = "Custom" THEN abi = [tag |-> "Custom", symbol |-> abi.symbol] /\ FitsIn(abi.symbol, W32)
    ELSE abi = [tag |-> abi.tag] /\ abi.tag \in Range(AbiTags)
Fits(how, v) ==
    CASE how = "u32" -> FitsIn(v, W32)
      [] how = "u64" -> FitsIn(v, W64)
      [] how = "u128" -> FitsIn(v, W128)
      [] how = "bool" -> v \in BOOLEAN
      [] how = "opt" -> OptFits(v)
      [] how = "blob" -> ListOf(v, LAMBDA x : FitsIn(x, 1))
      [] how = "ids" -> ListOf(v, LAMBDA x : FitsIn(x, W32))
      [] how = "pairs" -> ListOf(v, PairFits)
      [] how = "float" -> v \in Range(FloatKinds)
      [] how = "linkage" -> v \in Range(LinkageTags)
      [] how = "abi" -> AbiFits(v)

\* The record has these fields, and others, and no more.
HasFields(record, fields, others) ==
    /\ record = [x \in others \cup {fields[i][1] : i \in DOMAIN fields} |-> record[x]]
    /\ \A i \in DOMAIN fields : Fits(fields[i][2], record[fields[i][1]])
HasTag(record, tags, Writes(_)) ==
    record.tag \in Range(tags) /\ HasFields(record, Writes(record.tag), {"tag"})

NameFits(name) == Fits("blob", name)
TypeFits(d) == HasTag(d, TypeTags, WritesType)
ConstFits(c) == HasTag(c, ConstTags, WritesConst)
ValueFits(v) ==
    /\ v = [ty |-> v.ty, kind |-> v.kind, name |-> v.name]
    /\ FitsIn(v.ty, W32) /\ HasTag(v.kind, ValueTags, WritesKind) /\ OptFits(v.name)
InstFits(i) ==
    /\ i = [kind |-> i.kind, result |-> i.result]
    /\ HasTag(i.kind, Opcodes, WritesInst) /\ OptFits(i.result)
BlockFits(b) ==
    /\ b = [name |-> b.name, params |-> b.params, insts |-> b.insts, term |-> b.term]
    /\ OptFits(b.name) /\ ListOf(b.params, PairFits)
    /\ ListOf(b.insts, InstFits) /\ HasTag(b.term, TermTags, WritesTerm)
FunctionFits(f) ==
    /\ HasFields(f, WritesSignature, {"values", "blocks"})
    /\ ListOf(f.values, ValueFits) /\ ListOf(f.blocks, BlockFits)
Typed(m) ==
    /\ m = [major |-> m.major, minor |-> m.minor, name |-> m.name, symbols |-> m.symbols,
            types |-> m.types, constants |-> m.constants, functions |-> m.functions]
    /\ FitsIn(m.major, W32) /\ FitsIn(m.minor, W32) /\ OptFits(m.name)
    /\ ListOf(m.symbols, NameFits) /\ ListOf(m.types, TypeFits)
    /\ ListOf(m.constants, ConstFits) /\ ListOf(m.functions, FunctionFits)
    /\ FitsIn(Len(Write(m)), W64)   \* so does every section
=============================================================================
