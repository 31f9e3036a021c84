------------------------------ MODULE ArbReader -----------------------------
(***************************************************************************)
(* The .arb decoder, src/src/binary/reader.rs: a cursor over untrusted     *)
(* bytes, and tables rebuilt by interning one entry after the other.       *)
(*                                                                         *)
(* A file is what write makes of a module, or that damaged: one byte       *)
(* changed, lost or too many, the end cut off.  Damage as a bad disk does  *)
(* it leaves a checksum that does not fit; a file of another writer has    *)
(* any bytes and a checksum that fits.                                     *)
(*                                                                         *)
(* One action reads one entry of a table, one value, block, instruction    *)
(* or terminator.  Every kind of error ends in "rejected".  pos is the     *)
(* number of bytes consumed, end where the cursor must stop: the end of    *)
(* the section inside one, else of the file.                               *)
(***************************************************************************)
EXTENDS ArbWriter

CONSTANTS Modules,        \* modules that are written
          DamagedModules, \* of these, the ones whose file is damaged too
          DamageTo        \* what a damaged byte becomes

ASSUME ArbAssumption == DamagedModules \subseteq Modules /\ DamageTo \subseteq 0..255
ASSUME FilesAreBytes == \A m \in Modules : Write(m) \in Seq(0..255)   \* write gives a Vec<u8>

VARIABLES
    source, bytes, intact, sumFits,  \* the file, and what was written: never change
    pos, end, section, stage,        \* the cursor
    left,                            \* entries still to read of each open list
    out,                             \* what is read so far
    status                           \* "reading", "ok" or "rejected"

file == <<source, bytes, intact, sumFits>>
vars == <<file, pos, end, section, stage, left, out, status>>

SCALAR_TYPES == Len(Scalars)
MIN_SYMBOL_LEN == W32
MIN_TYPE_LEN == 1
MIN_CONSTANT_LEN == 1 + W32
MIN_FUNCTION_LEN == W32 + 1 + 1 + 1 + W32 + W32 + W32 + W32
MIN_PARAM_LEN == 2 * W32
MIN_VALUE_LEN == W32 + 1 + 1
MIN_BLOCK_LEN == 1 + W32 + W32 + 1
MIN_INSTRUCTION_LEN == 1 + W32 + 1
ID_LEN == W32

-----------------------------------------------------------------------------
(* Cursor: a read from p gives the set of its results [val, pos], which is *)
(* empty when it fails and has one member when it does not                 *)

Good(v, p) == {[val |-> v, pos |-> p]}
Then(r, Read(_)) == UNION {Read(s) : s \in r}
Ensure(r, Ok(_)) == {s \in r : Ok(s.val)}

UInt(p, width) ==
    LET byte(i) == IF i <= width THEN bytes[p + i] ELSE 0
    IN  byte(1) + 256 * (byte(2) + 256 * byte(3))
Fixed(p, width) == IF p + width > end THEN {} ELSE Good(UInt(p, width), p + width)

\* A byte that is an index into tags.
Tag(p, tags) ==
    {[s EXCEPT !.val = tags[@ + 1]] : s \in Ensure(Fixed(p, 1), LAMBDA v : v < Len(tags))}
Bool(p) == Tag(p, <<FALSE, TRUE>>)
OptU32(p) ==
    Then(Bool(p), LAMBDA s : IF s.val THEN Fixed(s.pos, W32) ELSE Good(None, s.pos))

\* A list length is refused unless that many shortest entries still fit.
CountBug(p, minLen) == Fixed(p, W32)   \* trusts it
Count(p, minLen) ==
    {s \in Fixed(p, W32) : s.val * minLen <= end - s.pos}

\* A list of entries of fixed width, read entry by entry.
FixedList(p, width, Entry(_)) ==
    Then(Count(p, width),
         LAMBDA n : Good([i \in 1..n.val |-> Entry(n.pos + (i - 1) * width)],
                         n.pos + n.val * width))
IdList(p) == FixedList(p, ID_LEN, LAMBDA at : UInt(at, W32))
Blob(p) == FixedList(p, 1, LAMBDA at : UInt(at, 1))
Pairs(p) ==
    FixedList(p, MIN_PARAM_LEN,
              LAMBDA at : [value |-> UInt(at, W32), ty |-> UInt(at + W32, W32)])

\* check_symbol: symbol ids are looked up in the finished symbol table.
SymbolExists(id) == id < Len(out.symbols)
Symbol(p) == Ensure(Fixed(p, W32), SymbolExists)
OptSymbol(p) == Ensure(OptU32(p), SymbolExists)   \* None is below every id

AbiAt(p) ==
    Then(Tag(p, AbiTags),
         LAMBDA t : IF t.val # "Custom" THEN Good([tag |-> t.val], t.pos)
                    ELSE Then(Symbol(t.pos),
                              LAMBDA s : Good([tag |-> "Custom", symbol |-> s.val], s.pos)))

Field(how, p) ==
    CASE how = "u8" -> Fixed(p, 1)
      [] how = "u16" -> Fixed(p, W16)
      [] how = "u32" -> Fixed(p, W32)
      [] how = "u64" -> Fixed(p, W64)
      [] how = "u128" -> Fixed(p, W128)
      [] how = "bool" -> Bool(p)
      [] how = "opt" -> OptU32(p)
      [] how = "blob" -> Blob(p)
      [] how = "ids" -> IdList(p)
      [] how = "pairs" -> Pairs(p)
      [] how = "float" -> Tag(p, FloatKinds)
      [] how = "linkage" -> Tag(p, LinkageTags)
      [] how = "abi" -> AbiAt(p)
      [] how = "symbol" -> Symbol(p)
      [] how = "opt symbol" -> OptSymbol(p)

\* The fields of a record, and those that follow a tag.
With(record, name, v) ==
    [x \in DOMAIN record \cup {name} |-> IF x = name THEN v ELSE record[x]]
Fields(p, fields, record) ==
    LET read[n \in 0..Len(fields)] ==
          IF n = 0 THEN Good(record, p)
          ELSE Then(read[n - 1], LAMBDA s :
               Then(Field(fields[n][2], s.pos), LAMBDA v :
                   Good(With(s.val, fields[n][1], v.val), v.pos)))
    IN  read[Len(fields)]
Tagged(p, tags, Reads(_)) ==
    Then(Tag(p, tags), LAMBDA t : Fields(t.pos, Reads(t.val), [tag |-> t.val]))

-----------------------------------------------------------------------------
(* What follows each tag                                                   *)

\* read_type
ReadsType(tag) ==
    CASE tag = "Void" -> <<>>
      [] tag = "Int" -> <<<<"bits", "u32">>, <<"signed", "bool">>>>
      [] tag = "Float" -> <<<<"bits", "float">>>>
      [] tag = "Pointer" -> <<<<"pointee", "u32">>, <<"space", "u32">>>>
      [] tag = "Array" -> <<<<"element", "u32">>, <<"length", "u64">>>>
      [] tag = "Struct" -> <<<<"fields", "ids">>>>
      [] tag = "Function" -> <<<<"params", "ids">>, <<"variadic", "bool">>, <<"result", "u32">>>>

\* read_constants
ReadsConst(tag) ==
    CASE tag = "Int" -> <<<<"ty", "u32">>, <<"width", "u32">>, <<"bits", "u128">>>>
      [] tag = "Float" -> <<<<"ty", "u32">>, <<"bits", "u64">>>>
      [] tag = "Null" -> <<<<"pointee", "u32">>>>
      [] tag = "String" -> <<<<"bytes", "blob">>>>
      [] tag = "Aggregate" -> <<<<"ty", "u32">>, <<"elements", "ids">>>>

\* read_function: signature and value kinds
ReadsSignature ==
    <<<<"symbol", "symbol">>, <<"linkage", "linkage">>, <<"abi", "abi">>, <<"variadic", "bool">>,
      <<"result", "u32">>, <<"params", "pairs">>>>
ReadsKind(tag) ==
    CASE tag = "Reserved" -> <<>>
      [] tag = "Param" -> <<<<"index", "u32">>>>
      [] tag = "BlockParam" -> <<<<"block", "u32">>, <<"index", "u32">>>>
      [] tag = "Inst" -> <<<<"block", "u32">>, <<"index", "u32">>>>

\* read_block: the terminator
ReadsTerm(tag) ==
    CASE tag = "None" -> <<>>
      [] tag = "Jump" -> <<<<"target", "u32">>, <<"args", "ids">>>>
      [] tag = "Branch" ->
            <<<<"condition", "u32">>, <<"then_block", "u32">>, <<"then_args", "ids">>,
              <<"else_block", "u32">>, <<"else_args", "ids">>>>
      [] tag = "Return" -> <<<<"value", "opt">>>>
      [] tag = "Unreachable" -> <<>>

\* read_instruction
ReadsInstBug(tag) ==   \* pointer and type of a load the wrong way round
    IF tag = "load" THEN <<<<"pointer", "u32">>, <<"ty", "u32">>>> ELSE WritesInst(tag)
ReadsInst(tag) ==
    CASE tag = "const" -> <<<<"constant", "u32">>>>
      [] tag \in {"add", "sub", "mul", "div", "rem", "and", "or", "xor", "shl", "shr",
                  "eq", "ne", "lt", "le", "gt", "ge"} -> <<<<"lhs", "u32">>, <<"rhs", "u32">>>>
      [] tag = "alloca" -> <<<<"ty", "u32">>>>
      [] tag = "load" -> <<<<"ty", "u32">>, <<"pointer", "u32">>>>
      [] tag = "store" -> <<<<"pointer", "u32">>, <<"value", "u32">>>>
      [] tag = "ptr_offset" -> <<<<"pointer", "u32">>, <<"offset", "u32">>>>
      [] tag \in {"ext", "trunc", "int_to_float", "float_to_int", "ptr_cast"} ->
            <<<<"to", "u32">>, <<"value", "u32">>>>
      [] tag = "call" -> <<<<"callee", "u32">>, <<"args", "ids">>>>
      [] tag = "construct" -> <<<<"ty", "u32">>, <<"args", "ids">>>>
      [] tag = "extract" -> <<<<"aggregate", "u32">>, <<"index", "u32">>>>
      [] tag = "insert" -> <<<<"aggregate", "u32">>, <<"index", "u32">>, <<"value", "u32">>>>

-----------------------------------------------------------------------------
(* Entries of the tables                                                   *)

\* What str::from_utf8 accepts: a first byte says how many follow it, and the byte after
\* it is restricted so that no character has two encodings and none is a surrogate.
CharLen(b) ==
    CASE b < 128 -> 1
      [] b \in 194..223 -> 2
      [] b \in 224..239 -> 3
      [] b \in 240..244 -> 4
      [] OTHER -> 0
Following(b, k) ==
    CASE k = 1 /\ b = 224 -> 160..191
      [] k = 1 /\ b = 237 -> 128..159
      [] k = 1 /\ b = 240 -> 144..191
      [] k = 1 /\ b = 244 -> 128..143
      [] OTHER -> 128..191
Utf8(name) ==
    \A i \in DOMAIN name :
        /\ \A k \in 1..CharLen(name[i]) - 1 :
              i + k \in DOMAIN name /\ name[i + k] \in Following(name[i], k)
        /\ CharLen(name[i]) = 0 =>
              \E k \in 1..3 : i - k \in DOMAIN name /\ CharLen(name[i - k]) > k

\* An entry that interning gives an earlier id is a duplicate.
InternedAt(table, data) == IdOf(table, data) = Len(table) + 1

SymbolEntry ==
    Ensure(Blob(pos), LAMBDA name : Utf8(name) /\ InternedAt(out.symbols, name))

EarlierOnlyBug(d, index) == References(d) \subseteq 0..index   \* off by one
EarlierOnly(d, index) == References(d) \subseteq 0..index - 1
IntTypeOk(d) == d.bits \in 1..128 /\ ~(d.bits = 1 /\ d.signed)
TypeOk(d, index) ==
    /\ d.tag = "Int" => IntTypeOk(d)
    /\ EarlierOnly(d, index)
    /\ IF index < SCALAR_TYPES THEN d = Scalars[index + 1] ELSE InternedAt(out.types, d)
TypeEntry ==
    Ensure(Tagged(pos, TypeTags, ReadsType), LAMBDA d : TypeOk(d, Len(out.types)))

Masked(c) == c.width \in 1..128 /\ (c.width < 8 * W128 => c.bits < 2 ^ c.width)
ConstantEntry ==
    Ensure(Tagged(pos, ConstTags, ReadsConst),
           LAMBDA c : (c.tag = "Int" => Masked(c)) /\ InternedAt(out.constants, c))

\* A function up to its values, with their number.
FunctionEntry ==
    Then(Fields(pos, ReadsSignature, [values |-> <<>>, blocks |-> <<>>]),
         LAMBDA f : Then(Count(f.pos, MIN_VALUE_LEN), LAMBDA n :
             Good([function |-> f.val, values |-> n.val], n.pos)))

ValueEntry ==
    Then(Fixed(pos, W32), LAMBDA t :
    Then(Tagged(t.pos, ValueTags, ReadsKind), LAMBDA k :
    Then(OptSymbol(k.pos), LAMBDA n :
        Good([ty |-> t.val, kind |-> k.val, name |-> n.val], n.pos))))

\* A block up to its instructions, with their number.
BlockEntry ==
    Then(Fields(pos, <<<<"name", "opt symbol">>, <<"params", "pairs">>>>,
                [insts |-> <<>>, term |-> [tag |-> "None"]]),
         LAMBDA b : Then(Count(b.pos, MIN_INSTRUCTION_LEN), LAMBDA n :
             Good([block |-> b.val, insts |-> n.val], n.pos)))

InstEntry ==
    Then(Tagged(pos, Opcodes, ReadsInst), LAMBDA k :
    Then(OptU32(k.pos), LAMBDA r : Good([kind |-> k.val, result |-> r.val], r.pos)))

TermEntry == Tagged(pos, TermTags, ReadsTerm)

-----------------------------------------------------------------------------
(* Header and sections                                                     *)

\* The minor version of the format is ignored.
HeaderEntry ==
    Ensure(Fields(0, <<<<"magic", "u8">>, <<"major", "u16">>, <<"minor", "u16">>,
                       <<"flags", "u32">>>>, [tag |-> "Header"]),
           LAMBDA h : h.magic = MAGIC /\ h.major = FORMAT_MAJOR /\ h.flags = 0 /\ sumFits)

\* The tag of the next section and its length; val is where it ends.
SectionLen ==
    Then(Ensure(Fixed(pos, 1), LAMBDA tag : tag = SectionTags[section]),
         LAMBDA t : Fixed(t.pos, W64))
SectionEntryBug == Then(SectionLen, LAMBDA n : Good(n.pos + n.val, n.pos))   \* unchecked
SectionEntry ==
    Then(SectionLen,
         LAMBDA n : IF n.val <= end - n.pos THEN Good(n.pos + n.val, n.pos) ELSE {})

ModuleEntry ==
    Ensure(Fields(pos, <<<<"major", "u32">>, <<"minor", "u32">>, <<"name", "opt">>>>,
                  [tag |-> "Module"]),
           LAMBDA m : m.major = 1)

\* The number of entries of a table.
CountEntry ==
    LET minLen == <<0, MIN_SYMBOL_LEN, MIN_TYPE_LEN, MIN_CONSTANT_LEN, MIN_FUNCTION_LEN>>
    IN  Ensure(Count(pos, minLen[section]), LAMBDA n : section = 3 => n >= SCALAR_TYPES)

\* A section ends where it said, the name of the module is a symbol, and nothing
\* follows the last section.
ClosesBug == section = 2 => SymbolExists(out.name)   \* skips what is left of a section
Closes ==
    /\ pos = end
    /\ section = 2 => SymbolExists(out.name)
    /\ section = 5 => end = Len(bytes)

-----------------------------------------------------------------------------
(* Modules                                                                 *)

\* What the stores and the code behind them take for granted (reader.rs:4-8):
\* the scalars are where the TypeIds say, ids are dense and unique, types form
\* no cycle, integer constants are masked, and symbols exist.
NoDuplicates(table) == \A i, j \in DOMAIN table : table[i] = table[j] => i = j
SymbolsOf(f) ==
    {f.symbol} \cup {f.abi.symbol : t \in {f.abi.tag} \cap {"Custom"}}
    \cup {f.values[i].name : i \in DOMAIN f.values} \cup {f.blocks[i].name : i \in DOMAIN f.blocks}
WellFormed(m) ==
    /\ IsPrefix(Scalars, m.types)
    /\ NoDuplicates(m.symbols) /\ NoDuplicates(m.types) /\ NoDuplicates(m.constants)
    /\ \A t \in DOMAIN m.types : References(m.types[t]) \subseteq 0..t - 2
    /\ \A c \in DOMAIN m.constants : m.constants[c].tag = "Int" => Masked(m.constants[c])
    /\ (UNION {SymbolsOf(m.functions[g]) : g \in DOMAIN m.functions}) \cup {m.name}
          \subseteq {None} \cup 0..Len(m.symbols) - 1

\* What read asks of a module besides, in its words: integer types have the widths there are
\* (types.rs:47), names are strings and the version is the one the library knows
\* (module.rs:29).  Not every module is like that.  The builder interns types before those
\* they refer to, or over ids that name nothing, integer types of any width, constants as
\* they come, and takes any id for the symbol of an ABI (builder.rs:107-136, 148).
Storable(m) ==
    /\ Typed(m) /\ WellFormed(m) /\ m.major = 1
    /\ \A t \in DOMAIN m.types : m.types[t].tag = "Int" => IntTypeOk(m.types[t])
    /\ \A i \in DOMAIN m.symbols : Utf8(m.symbols[i])

-----------------------------------------------------------------------------
(* Reading                                                                 *)

Damaged(b) ==
    {[b EXCEPT ![i] = v] : i \in DOMAIN b, v \in DamageTo}
    \cup {SubSeq(b, 1, n) : n \in 0..Len(b) - 1} \cup {Append(b, v) : v \in DamageTo}
    \cup {RemoveAt(b, i) : i \in DOMAIN b}

Init ==
    /\ source \in Modules
    /\ \/ bytes = Write(source) /\ sumFits = TRUE
       \/ /\ source \in DamagedModules
          /\ bytes \in Damaged(Write(source))
          /\ sumFits \in BOOLEAN
    /\ intact = (bytes = Write(source))
    /\ sumFits \/ ~intact
    /\ pos = 0 /\ end = Len(bytes) /\ section = 1 /\ stage = "header"
    /\ left = [entries |-> 0, values |-> 0, blocks |-> 0, insts |-> 0]
    /\ out = [major |-> 0, minor |-> 0, name |-> None, symbols |-> <<>>, types |-> <<>>,
              constants |-> <<>>, functions |-> <<>>]
    /\ status = "reading"

At(s) == status = "reading" /\ stage = s
\* A read that succeeds moves the cursor on to a stage.
Advance(r, to) == pos' = r.pos /\ stage' = to /\ UNCHANGED <<file, status>>
OneLess(list) == left' = [left EXCEPT ![list] = @ - 1]

ReadHeader ==
    /\ At("header")
    /\ \E r \in HeaderEntry : Advance(r, "open")
    /\ UNCHANGED <<end, section, left, out>>
OpenSection ==
    /\ At("open")
    /\ \E r \in SectionEntry : Advance(r, "start") /\ end' = r.val
    /\ UNCHANGED <<section, left, out>>
ReadModule ==
    /\ At("start") /\ section = 1
    /\ \E r \in ModuleEntry :
          /\ Advance(r, "entries")
          /\ out' = [out EXCEPT !.major = r.val.major, !.minor = r.val.minor,
                                !.name = r.val.name]
    /\ UNCHANGED <<end, section, left>>
ReadCount ==
    /\ At("start") /\ section > 1
    /\ \E r \in CountEntry :
          /\ Advance(r, "entries")
          /\ left' = [left EXCEPT !.entries = r.val]
    /\ UNCHANGED <<end, section, out>>
CloseSection ==
    /\ At("entries") /\ left.entries = 0 /\ section < 5 /\ Closes
    /\ section' = section + 1 /\ end' = Len(bytes) /\ pos' = end /\ stage' = "open"
    /\ UNCHANGED <<file, left, out, status>>
Finish ==
    /\ At("entries") /\ left.entries = 0 /\ section = 5 /\ Closes
    /\ status' = "ok"
    /\ UNCHANGED <<file, pos, end, section, stage, left, out>>

ReadSymbol ==
    /\ At("entries") /\ section = 2 /\ left.entries > 0
    /\ \E r \in SymbolEntry :
          Advance(r, "entries") /\ out' = [out EXCEPT !.symbols = Intern(@, r.val)]
    /\ OneLess("entries") /\ UNCHANGED <<end, section>>
ReadType ==
    /\ At("entries") /\ section = 3 /\ left.entries > 0
    /\ \E r \in TypeEntry :
          Advance(r, "entries") /\ out' = [out EXCEPT !.types = Intern(@, r.val)]
    /\ OneLess("entries") /\ UNCHANGED <<end, section>>
ReadConstant ==
    /\ At("entries") /\ section = 4 /\ left.entries > 0
    /\ \E r \in ConstantEntry :
          Advance(r, "entries") /\ out' = [out EXCEPT !.constants = Intern(@, r.val)]
    /\ OneLess("entries") /\ UNCHANGED <<end, section>>
ReadFunction ==
    /\ At("entries") /\ section = 5 /\ left.entries > 0
    /\ \E r \in FunctionEntry :
          /\ Advance(r, "values")
          /\ left' = [left EXCEPT !.entries = @ - 1, !.values = r.val.values]
          /\ out' = [out EXCEPT !.functions = Append(@, r.val.function)]
    /\ UNCHANGED <<end, section>>

\* The function and the block being read.
InFunction == Len(out.functions)
InBlock == Len(out.functions[InFunction].blocks)

ReadValue ==
    /\ At("values") /\ left.values > 0
    /\ \E r \in ValueEntry :
          /\ Advance(r, "values")
          /\ out' = [out EXCEPT !.functions[InFunction].values = Append(@, r.val)]
    /\ OneLess("values") /\ UNCHANGED <<end, section>>
ReadBlockCount ==
    /\ At("values") /\ left.values = 0
    /\ \E r \in Count(pos, MIN_BLOCK_LEN) :
          Advance(r, "blocks") /\ left' = [left EXCEPT !.blocks = r.val]
    /\ UNCHANGED <<end, section, out>>
ReadBlock ==
    /\ At("blocks") /\ left.blocks > 0
    /\ \E r \in BlockEntry :
          /\ Advance(r, "insts")
          /\ left' = [left EXCEPT !.blocks = @ - 1, !.insts = r.val.insts]
          /\ out' = [out EXCEPT !.functions[InFunction].blocks = Append(@, r.val.block)]
    /\ UNCHANGED <<end, section>>
ReadInst ==
    /\ At("insts") /\ left.insts > 0
    /\ \E r \in InstEntry :
          /\ Advance(r, "insts")
          /\ out' = [out EXCEPT !.functions[InFunction].blocks[InBlock].insts = Append(@, r.val)]
    /\ OneLess("insts") /\ UNCHANGED <<end, section>>
ReadTerm ==
    /\ At("insts") /\ left.insts = 0
    /\ \E r \in TermEntry :
          /\ Advance(r, "blocks")
          /\ out' = [out EXCEPT !.functions[InFunction].blocks[InBlock].term = r.val]
    /\ UNCHANGED <<end, section, left>>
EndFunction ==
    /\ At("blocks") /\ left.blocks = 0
    /\ stage' = "entries"
    /\ UNCHANGED <<file, pos, end, section, left, out, status>>

\* Some `?' of the step that is due returns an error.
EntryFails ==
    CASE section = 2 -> SymbolEntry = {}
      [] section = 3 -> TypeEntry = {}
      [] section = 4 -> ConstantEntry = {}
      [] section = 5 -> FunctionEntry = {}
Fails ==
    CASE stage = "header" -> HeaderEntry = {}
      [] stage = "open" -> SectionEntry = {}
      [] stage = "start" -> IF section = 1 THEN ModuleEntry = {} ELSE CountEntry = {}
      [] stage = "entries" -> IF left.entries = 0 THEN ~Closes ELSE EntryFails
      [] stage = "values" ->
            IF left.values = 0 THEN Count(pos, MIN_BLOCK_LEN) = {} ELSE ValueEntry = {}
      [] stage = "blocks" -> left.blocks > 0 /\ BlockEntry = {}
      [] stage = "insts" -> IF left.insts = 0 THEN TermEntry = {} ELSE InstEntry = {}
Reject ==
    /\ status = "reading" /\ Fails
    /\ status' = "rejected"
    /\ UNCHANGED <<file, pos, end, section, stage, left, out>>

Returned == status # "reading" /\ UNCHANGED vars

Next ==
    \/ ReadHeader \/ OpenSection \/ ReadModule \/ ReadCount \/ CloseSection \/ Finish
    \/ ReadSymbol \/ ReadType \/ ReadConstant \/ ReadFunction
    \/ ReadValue \/ ReadBlockCount \/ ReadBlock \/ ReadInst \/ ReadTerm \/ EndFunction
    \/ Reject \/ Returned

Spec == Init /\ [][Next]_vars

-----------------------------------------------------------------------------
(* Properties                                                              *)

\* The cursor stays inside its section and the section inside the file.
TypeOK ==
    /\ 0 <= pos /\ pos <= end /\ end <= Len(bytes)
    /\ section \in 1..5
    /\ status \in {"reading", "ok", "rejected"}

\* What of "lossless" (binary/mod.rs:16-18, for every module) holds: a storable module that
\* was written and not damaged is read back as it was, and no step of the way refuses it.
RoundTrip ==
    intact /\ Storable(source) => /\ status # "rejected"
                                  /\ status = "ok" => out = source

\* The other direction: a file that is accepted, damaged or not, is the encoding
\* of the module it gives, but for the minor version of the format.  No byte is
\* skipped, and no two bytes mean the same.
AcceptedIsCanonical ==
    status = "ok" => /\ sumFits
                     /\ Write(out) = [bytes EXCEPT ![1 + W16 + 1] = FORMAT_MINOR]

\* What is accepted is what the stores and the code behind them take for granted
\* (reader.rs:4-8), whatever the file was.
AcceptedIsWellFormed == status = "ok" => WellFormed(out)

\* The lists that are open at once, at every depth of nesting, were not given room
\* for more entries than the file has bytes (binary/mod.rs:22-23).
CapacityJustified ==
    left.entries + left.values + left.blocks + left.insts <= Len(bytes)
=============================================================================
