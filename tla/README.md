# Specifications of Astronomy IR

Astronomy is a compiler library: an SSA intermediate representation with a
builder, a verifier, a text form (ARN), a binary form (ARB) and an x86-64
backend that writes NASM text or ELF objects. It is sequential and keeps
nothing on disk between runs. What is hard in it is not concurrency but data
that refers to data: ids that must stay valid, definitions that must reach
their uses on every path, fixpoints that must end, copies that must happen at
once, and components that promise each other things no type expresses.

## 1. Inventory

| component | state it keeps | operations | relies on / used by |
|---|---|---|---|
| stores (`types.rs`, `symbol.rs`, `constant.rs`, `module.rs`) | interned tables, index = id | `intern`, `get` | everything refers to their ids |
| module builder (`builder.rs`) | a `Module` | declare functions, intern | stores |
| function builder (`builder.rs`) | the body of one function and a cursor | append blocks, parameters, instructions, terminators | checks types and ids as it goes; promises a body the verifier mostly accepts |
| control-flow analysis (`verify/cfg.rs`, `CfgInfo`) | reachability, reverse post-order, immediate dominators | `compute`, `dominates` | used by the verifier |
| verifier (`verify/`) | a list of errors | `verify` | takes any module, also a fabricated one; a `VerifiedModule` is what the backend accepts |
| text form (`text/`) | names, pending references | `lex`, `parse`, `print` | print of a parse, parse of a print |
| binary form (`binary/`) | cursor, tables read so far | `read`, `write` | rebuilds the stores |
| x86 layout (`astronomy-x86/src/layout.rs`) | none | sizes, alignments, offsets | code generation |
| code generation (`astronomy-x86/src/codegen.rs`, `asm.rs`) | slots of the frame, labels, instructions | `lower` | takes only verified modules, checks nothing again |
| encoding (`astronomy-object/src/encode.rs`) | branch forms, offsets | `encode_text`, `relax` | ELF writer |
| ELF writer, NASM printer, tools | none | output | - |

Calls go one way: builder, parser or reader make a `Module`; the verifier
turns it into a `VerifiedModule`; the backend lowers it. The contracts between
them are the subject of this project.

What is hard, and the properties that answer it:

* **Sequences of builder calls.** An edge is checked when it is made, but its
  target may still get parameters; a call may fail half way; the cursor may
  return to any block. `BuilderErrorsBounded`, `EdgeArgsPrefix`,
  `SameBlockUsesInOrder`, `OperandsOlder`, `BodyOnlyGrows`, `VerifiedBodyStays`.
* **Fixpoints.** The dominator computation ends and is exact on loops,
  irreducible graphs, unreachable blocks and edges to missing blocks.
  `IdomClimbs`, `IdomOnlyRises`, `Terminates`, `ReachableExact`, `DominanceExact`.
* **Uncleared memory.** Generated code never clears its frame; that no garbage
  is read follows only from the dominance check. `NoUninitializedLoad`.
* **Parallel assignment.** An edge assigns all block parameters at once; the
  code copies slot by slot. `ImplementsSsa`.
* **Trust.** The backend panics on ids that name nothing. `LoweringNeverPanics`
  (violated, see section 5).
* **Sizes that depend on distances that depend on sizes.** Branch relaxation may
  shrink what it widened and is cut off after a number of passes.
  `ResultHolds`, `SettledIsFinal`, `FailsOnUndefined`, `Returns`, `PassesSettle`.
* **One rule written twice.** The builder types an instruction as it is made, the
  verifier again; struct layout is computed once for the size and once for each
  field; caller and callee each plan the arguments; writer and reader each list
  the fields of an entry. `BuilderAgreesWithVerifier`, `FieldsInPlace`,
  `ValuesInSlots`, `RoundTrip`.
* **Tables that identify things by position.** Equal types must be one id, and a
  table read from a file must give every entry its old id. `SameShapeSameId`,
  `BuiltModulesTypeCheck`, `ArenaMatchesBody`, `AcceptedIsWellFormed`.
* **Forms that must read back.** A damaged binary file is rejected or is the
  canonical form of another module; a text names every value once.
  `AcceptedIsCanonical`, `CapacityJustified`, `ReadsBack`, `PrintsTheSame`.
* **Limits.** Frames near 2^31, sums near 2^64, arguments past the registers.
  `SlotsDisjoint`, `SlotsAligned`, `OutgoingBelowSlots`.
* **Machine arithmetic.** The least number by -1, shifts by more than the width,
  conversions of large unsigned numbers, NaN. `ComputesMeaning`.

`PROJECT.json` lists every hazard at its line.

## 2. Modules

| module | what it is |
|---|---|
| `Dominators` | `CfgInfo::compute`, `intersect`, `dominates`: one action per turn of each loop |
| `DominatorsProofs` | theorems about `Dominators` |
| `Verify` | `check_function`: the kinds of errors reported for a function, as operators on a function record |
| `Builder` | `FunctionBuilder`: one action per call that changes the function |
| `BuilderProofs` | theorems about `Builder` |
| `Ssa` | abstract specification: how a verified function runs |
| `Frame` | the generated code of one function running on its stack frame |
| `FrameProofs` | theorems about `Frame`, among them that it implements `Ssa` |
| `Relax` | `relax` of the encoder: one action per turn of each loop |
| `RelaxProofs` | theorems about `Relax` |
| `Stores` | interning, type data, constants, `constant_fits_type` |
| `Typing` | the typing half of the verifier: `check_module`, `check_constant`, `check_instruction` |
| `ModuleBuilder` | `ModuleBuilder` and the instruction calls of `FunctionBuilder` |
| `ModuleBuilderProofs` | theorems about `ModuleBuilder`, and about `Typing` and `Stores` below it |
| `ArbWriter` | `binary/writer.rs`: a module as a sequence of bytes |
| `ArbReader` | `binary/reader.rs`: one action per entry; files may be damaged |
| `ArbReadFacts` | what each read of `ArbReader` returns, in terms of `ArbWriter` |
| `ArbReaderProofs` | theorems about `ArbReader` |
| `Align`, `Layout` | checked 64-bit sums, sizes, alignments, field offsets, `plan_types` |
| `StackFrame` | `build` and `reserve_slot`: slots and outgoing area of a frame |
| `StackFrameProofs` | theorems about `StackFrame` |
| `Calls` | generated code of a caller and a callee at work on bytes of memory |
| `Text` | names, block order and references from print to parse |
| `Select` | the code of every scalar instruction, and a processor that runs it |
| `MC...` | instances for TLC |

`Builder` and `Frame` extend `Verify`: the builder is judged by the errors of
the function it has made so far, and the code generator starts from functions
without errors; so does `Text`. `Frame` refines `Ssa`. `ModuleBuilder` extends
`Typing`, which extends `Stores`; `ArbWriter` extends `Stores`, and `ArbReader`
extends it. `Calls` composes `Layout` and two `StackFrame`s (one by `INSTANCE`).
Definitions named `...Bug` hold one plausible mistake each; no specification
uses them, they show that a property notices the mistake.

### Dominators

`succ` is the successor list of every block (the code's `successors`), chosen
in `Init` and constant. `pc` tells which loop runs: `dfs` (the depth-first
search with its explicit `stack` of block and next successor), `pass` (the
loop over blocks in reverse post-order), `fold` (predecessors of one block),
`meet` (`intersect`). `post`, `rpoNum`, `idom`, `changed`, `newIdom` are the
code's variables; `pos` and `last` stand for its loop positions, `fa` and `fb`
for the two fingers. The two nested `while` loops of `intersect` are one
action, `MeetClimb`: in each turn the finger with the larger number climbs.
`Succs`, `IsReachable` and `IsDominator` are definitions from the literature,
by closed sets, that share nothing with the algorithm.

### Verify

A function is a record of the fields of `Function`. All ids are positions from
1 where the code counts from 0. Errors are kept as a set of kinds, since no
property depends on wording or count. An instruction kind at given types is an
*op* with operand types and a result type, so the typing rules of
`types.rs` appear as one comparison, `IllTyped`. The dominance relation is
stated by closed sets; that `CfgInfo` computes exactly that relation is what
the runs of `Dominators` show (`ReachableExact`, `DominanceExact`).

### Builder

`values`, `bparams`, `insts`, `terms` are the value arena, block parameters,
instructions and terminators of `Function`; `current` is the cursor and `sig`
the signature it was declared with. A call that returns `Err` without changing
the function is a stuttering step. `AppendBlockWithParams` is modelled with its
partial failure: the block exists, the cursor has moved, and the parameters
before the first bad one are there. `NoType` is an instruction without a result;
`Void` is a type, which an op may give its result: `extract` of a void element
does (`builder.rs:1314-1329`), and a void function may return that value
(`builder.rs:1480-1489`), which the verifier reports.

### Ssa and Frame

`Ssa` runs a verified function: a value is data or `Undef`; an instruction
runs only if its operands are defined; an edge assigns all parameters at once.
`Frame` runs the code `FuncGen` generates: `slots` and `scratch` are the stack
slots of values and the staging slots of block parameters, all `Undef` (what
the stack held before) at the start. `SaveArgument` is a turn of the prologue,
`Stage` and `Commit` are turns of the two loops of `emit_edge`. Nothing in
`Frame` checks that a slot was written. Under the mapping `Abstract` (`SsaBlock`,
`SsaPos`, `SsaEnv`) a function in its commit loop has already followed its edge:
parameters not yet copied are read from their scratch slots. The turn of the
stage loop that stages the last argument is the step that follows the edge.

### Relax

`code` is the section, a sequence of pieces (bytes, labels, branches), chosen in
`Init`; `long` is the form of each branch. `phase` tells which loop runs:
`pass` (a sizing pass; `seen`, `previous`, `resized`, `settled` are the code's
variables, `passes` its loop counter), `lay` (offsets and labels of a layout),
`widen` (short branches that do not reach grow). `seen` is cloned from
`previous` at the end of the pass before. `done` and `failed` are the two ways
to return. `limit` stands for
`MAX_PASSES`. The bytes themselves, calls and data references are left out.

### Stores, Typing and ModuleBuilder

A table is a sequence and an id a position in it, from 1 (`NoId` for none). `Intern`
appends data that is not there yet. `Typing` gives the set of kinds of errors of a
module, with the early returns of the code: after an unknown operand no typing rule
is tried. In `ModuleBuilder` an action is a call with any arguments within the
bounds; `Emit` is `append` after the checks of the call. A `const_*` call changes
the constant table before it can fail, and that is a step of its own kind here.
Types are interned with any ids: past the table, later ones or their own
(`TypeInputs`), with any data (`InternType`), and so are constants
(`InternConstantData`). `raw` is a history variable, the constants that were
interned by hand before any `const_*` call made them. `BuilderAgreesWithVerifier`
quantifies, in every reachable state, over all instructions that could be emitted
next and all types their result could have, so that also what the builder refuses is
compared with the verifier. The `const_*` calls are not among these candidates: they
take numbers and make the constant they emit, so there is nothing to compare but the
result, and `BuiltModulesTypeCheck` has the verifier look at it. `types()` lends the
whole store; only interning through it is modelled, not putting another store in its
place.

### ArbWriter and ArbReader

A file is a sequence of bytes. Both modules list, per entry, the fields with
their widths (`WritesInst`, `ReadsInst` and so on), each translated from its own
source file. Numbers are scaled: 1, 2, 3 and 3 bytes for `u16`, `u32`, `u64`
and `u128`; the magic number and the section tags take one byte, what the
constant pool adds up is a sum, and a rejected file has one kind of error. `Init`
chooses a module, writes it, and lets the file be as it is, cut anywhere, or
changed in one byte; the reader takes one step per entry, as its loops do. Names are
UTF-8, with the rules of `str::from_utf8` byte by byte. `Storable` says which modules
`read` asks nothing more of: `write` takes every module, the builder makes others
(section 5).

### Layout, StackFrame and Calls

`Layout` has sizes, alignments and offsets as recursive functions over a type
table; `Overflow` stands for `None`. `SizeOf` and `FieldOffset` are separate
translations of `struct_layout` and `field_offset`. `StackFrame` has one action
per slot, per call looked at, and for the two places that refuse a frame. In
`Calls` the memory is a function from addresses to bytes, addresses count from
the caller's `rbp`. The bytes of a scalar are named, so that a byte out of place
or of another value shows. `Copy` is one `copy_slot` or scalar store of an
instruction, `MoveArg` and `SaveParam` are turns of the loops of `gen_call` and
`emit_prologue`. `Return` forgets everything the callee may have overwritten.
Left out: `al` for variadic callees, the refusal of stack arguments past 32 bits,
the contents of the upper bytes of a narrow argument (`Junk`), and edges, whose
scratch slots are only reserved (`Frame` runs them).

### Text

A function is that of `Verify` with names. A string is one of three kinds, the
ones the code tells apart: an identifier, digits, `bb` with digits. `Rendered` is
the printer. The parser's actions are the skeleton of a function, one per block
of the first pass, one per block of the second. `Renumbered` states what a reader
may expect, from the documentation: blocks and values numbered in the order of
the text, names lost where they are not unique.

### Select

The code of an instruction is a sequence of machine instructions; the processor
runs them one by one. Registers start with ones, and a slot is followed by ones,
so that a missing extension, or a store that is too wide, shows. Widths are 2, 3,
4 and 6 bits for 8, 16, 32 and 64, significands 2 and 3 bits for 24 and 53; an
`i1` is stored in the width of 8. A float is NaN or a number of halves. Sums and
differences of floats are exact, all the conversions need; products and quotients
are only named. Meaning is stated from the specification, with integers.

## 3. Runs

| run | instance | shows |
|---|---|---|
| `dominators` | every graph of 4 blocks, up to 2 successors each, and of 3 blocks with a missing target, up to renaming of the non-entry blocks | dominance and reachability exact; the tree climbs; immediate dominators only rise; `compute()` returns |
| `builder` | 2 blocks, 3 values, 2 instructions per block, edges of up to 1 argument, 2 types and void, 4 ops, 2 signatures | the five safety properties and `BodyOnlyGrows` |
| `builder_wide` | 3 blocks, 2 values, an op that extracts a void element | `VerifiedBodyStays` |
| `frame` | every wiring of a branching, looping skeleton (section 4) | no uninitialised load; refinement of `Ssa` |
| `relax` | every section of 6 pieces, 2 labels, cut off after 2 or 8 passes | the result holds, settled passes are final, undefined labels, `relax` returns, 8 passes settle |
| `module_builder` | 1 function (a second one of its name is refused), 3 entries beyond the scalars, types over missing ids, constants by hand, one name of each kind | what is built type-checks, but for constants interned by hand; builder and verifier agree; ids are structural identity |
| `arb` | modules with every kind of entry, four of them damaged, and five that are not storable | read inverts write on storable modules; what is accepted is canonical and well-formed |
| `calls` | 81 lists of four arguments over one register of each kind; aggregates of 5 shapes; frames around the limits | slots disjoint and aligned, values in place |
| `text` | every verified wiring of two skeletons with clashing names, and declarations | reads back renumbered, prints the same |
| `select` | every scalar instruction at every type, every operand value | the result, and nothing else, is what the instruction means |
| `fabricated_operand` | as `frame` | finds the first divergence of section 5 |
| `text_names` | as `text` | finds the second |

Every property of a passing run has a mutant in `PROJECT.json`, a plausible
mistake in the code under which TLC finds the property violated.

## 4. Bounds, and why they are enough

* **Dominators.** Four blocks with two successors each contain all reducible
  and irreducible shapes with two nested or crossing loops, several passes of
  the fixpoint and intersections of depth two. Three blocks are enough for an
  edge to a missing target before, inside and after a loop. Only graphs whose
  blocks are numbered in the order they are mentioned are taken: the code never
  compares block ids other than the entry's, only their numbers.
* **Builder.** Two blocks are enough for an edge, a loop and an entry block; three
  values for a parameter, an operand and a result; two instructions for an order.
  Inputs include one block id and one value id past the end and two types that are
  not first-class, void among them. `MaxBlocks`, `MaxValues`, `MaxInsts` and
  `MaxArgs` are bounds of the model alone. The theorems hold for all of them.
* **Frame.** The skeleton is an entry that jumps or branches, a block with two
  parameters that may loop to itself with any two arguments (swap and rotate
  included), and a block with an instruction that may go back or return. All
  operands and edge arguments range over all values, 1794 accepted functions.
  Two data values are enough to tell which of two slots was copied.
* **Relax.** The reach of a short branch is scaled from -128..127 to -8..7 and
  bytes come 5 at a time, so that one or two pieces of bytes, or one long
  branch, decide whether a target is near; branch sizes are the real ones. Six
  pieces are the fewest in which one widening pushes an earlier branch out of
  reach after the last of two passes, so that the grow loop has work. With
  1000 passes, the code's limit, the loop after settled passes is all that
  could be seen; hence two limits, 2 and 8.
* **ModuleBuilder.** One type that is not first-class and one integer, with the
  composite types over them, reach every rule of operands and results; a type may
  also refer to itself, to the next one or to one that never comes; one field, one
  parameter and one argument are enough for a list to be too short, right or too
  long. `EmitOps` takes one operator of each kind of result into bodies;
  `BuilderAgreesWithVerifier` looks at all of them. Three entries allow a type, a
  constant of it and an instruction that uses it.
* **Arb.** Modules that are damaged hold two entries of a kind that one byte makes
  equal, in every table, and references to the entry before. A damaged byte
  becomes 0, 1, 2, 14 (the first id that is not a scalar) or 255.
* **Calls.** One integer and one SSE register make every split of four arguments
  over registers and stack happen. `U64Max = 511` and `I32Max = 319` keep the
  order of the two limits, and the table has arrays that end just below, at and
  above them. The theorems of section 6 hold for all limits.
* **Text.** The skeletons have a loop, a join and a block out of reach, and
  ids that are not in the order of the text. Three parameter names, and three or
  two for each other value, make every clash of two or three names happen.
* **Select.** All operand values of each type are taken, so the only question is
  the scale. The widths keep their order and 64 keeps more bits than a
  significand needs, so that conversions round; a narrow result fits in a wider
  register. The code never uses the distance between two widths.
* Deadlock is checked where a step follows every end: `Returned`, `Ended` and
  the like. `ModuleBuilder`, `Calls`, `Text` and `Select` stop when the bounds are
  reached, a frame is refused, or the program is over, and their runs do not
  check it.

**Fairness.** Only `Terminates` and `Returns` need it: `WF_vars(Compute)` and
`WF_vars(Relaxing)`, a sequential program that can take a step takes one. The
other properties are safety properties and hold without fairness.

## 5. Findings

`fabricated_operand` is a disagreement between the code and what the repository
says of it. `SPECIFICATION.md` ("a fabricated ID is an error, never undefined
behavior") and `id.rs` say the verifier guarantees that every id exists. It
reports unknown operands of *instructions* only (`types.rs:144-154`). In
terminators they are skipped, by `cfg.rs:171` with the comment "Already
reported as UnknownValue.". A function that passes an unknown value over an
edge or returns it is therefore verified, and lowering it panics. The builder
never makes such a function (`BuilderErrors`); reading or assembling one by
hand does. `NoUninitializedLoad` and its theorem concern the code of functions
that can be lowered.

`text_names` prints and reads functions with any names. `compute_names` gives a
name to one value only, as `SPECIFICATION.md:383` promises, but the header of a
function prints the names of its parameters past it (`printer.rs:224-229`). If a
parameter shares its name with another value, the text is rejected or its
operands name nothing, while `USAGE.md:305` promises that print, parse and verify
succeed. `ReadsBack` is the same property for functions whose parameters have
names of their own that are identifiers, and holds.

Smaller disagreements met on the way that no run shows:

* `SPECIFICATION.md:445` and `binary/mod.rs:16` promise that `read` inverts `write` for
  any module. Legal calls of a `ModuleBuilder` make modules that `write` encodes and
  `read` refuses: a type over itself or over a later one (`builder.rs:107-124`,
  refused at `reader.rs:205-218`), an integer type of no width (`builder.rs:102`), a
  constant that is not masked (`builder.rs:134`), an ABI whose symbol does not exist
  (`builder.rs:148`). One of each is among the modules of the run `arb`
  (`Unstorable`); `RoundTrip` and its theorem speak of the storable ones.
* `void` is "legal only as a function result" (`USAGE.md:82`,
  `SPECIFICATION.md:86`), but arrays and structs may have elements of type void
  (`types.rs:126`), and extracting one is a value of type void. A void function
  may return it as far as the builder is concerned (`builder.rs:1480-1489`); the
  verifier reports `ReturnMismatch` (`verify/cfg.rs:306-318`).
* A type interned before those it refers to may contain itself. Neither builder nor
  verifier looks for that (nor that pointees and elements exist, nor that a constant
  is masked), and `type_to_string` and `size_of` then recurse without end.
* Constants "in aggregates must reference earlier pool entries (no cycles, by
  construction)" (`USAGE.md:422`); a constant interned by hand may refer to a later
  one or to itself.
* Parameter names that `declare_function` takes but the parser does not:
  digits, or not identifiers at all. A value named `bb0` lends its name to an
  anonymous block of that label (`parser.rs:1300`). `inf` and `nan` are lexed as
  identifiers, and integers above `i128::MAX` cannot be read. The minor version
  of a module is not printed.
* Aggregates with `i1` fields are loaded as they are in memory, unlike an `i1`,
  which is masked.

## 6. Proofs

All theorems hold for every value of the constants. The assumptions
`TypesAssumption`, `BuilderAssumption`, `FrameAssumption`, `StackFrameAssumption`,
`BlocksAssumption`, `RelaxAssumption`, `ModuleBuilderAssumption`, `ArbAssumption`
and `FilesAreBytes` (`write` gives a `Vec<u8>`) only say that constants have the
shapes the Rust types give them. Nothing is assumed of the modules that are written:
`RoundTrip` itself speaks of storable ones, those `read` asks nothing more of.
`LabelsDefinedOnce` says that a section defines no label twice: the code generator
emits a block's label at the head of the block, and any other where it takes a fresh
number (`codegen.rs:214`, `codegen.rs:558`).

The library's induction theorems take an operator as a parameter, which the
provers cannot instantiate. Where an argument is an induction, the proofs take
the least counterexample instead (`LeastOf`), from the well-foundedness of the
naturals.

**BuilderProofs.** The invariant `IInv` says, beyond `TypeOK`, that the arena
and the places that define values agree in both directions: the kind of each
arena entry names a parameter or instruction that holds this value with this
type (`ValueInOrder`), and every parameter and result has such an entry
(`ParamInOrder`, `InstInOrder`); operands were checked against entries that
were there (`InstInOrder`), edges against parameters that were there
(`TermInOrder`, `EdgeInOrder`), and the entry block has no parameters
(`EntryPlain`). The properties alone are not inductive: that an old instruction
keeps the right operand types needs that arena entries never change. So the
proof first shows `Grows`, that every call only appends, then that `Grows`
keeps what was in order in order (`KeepsOrder`), and what remains for each call
is the item it adds. `BuilderErrors` (the errors of any built function are
among six kinds), `EdgesFeedPrefix`, `UsesInOrder`, `OlderOperands` and
`BodyGrows` follow. `VerifiedBodiesStay` is an action property about two verdicts
of the verifier, before and after any call: in a body it accepts, the blocks that
can be reached are terminated, so every call leaves them alone; from there on the
same blocks can be reached, the same definitions dominate, and what a call adds is
out of reach.

**FrameProofs.** `NoGarbageIsRead` is the soundness of the dominance check for
this backend: for every verified function, of any size and shape, no load sees
an unwritten slot. The invariant `IInv` says where a slot may still be
unwritten: only at a place that can be reached without passing the definition,
where reachable is expressed by closed sets (`Avoidable`): the place lies in
every set of blocks that holds the entry, without the defining block, and is
closed under successors. Each step carries this along (a jump stays inside a
closed set or reaches the defining block, where an instruction or the staged
copy writes the slot). A use the verifier accepts lies outside one such set, so
its slot is written. During a staged copy the invariant also says that the
scratch slots filled so far hold data (`Copying`), during the prologue that the
arguments saved so far do (`SavedArguments`).

`FrameImplementsSsa`: for every set of verified functions the
generated code does what the function means, although `Frame` takes a step per
slot where `Ssa` takes one per edge. The invariant of the simulation, `RInv`,
adds to `IInv` that before the body runs nothing but arguments has been stored
(`Blanks`) and that an edge being staged is the one `Ssa` would follow from these
slots, with what has been staged of it equal to them (`Following`). A copy of the
commit loop then moves a value from where the mapping reads it to where the
mapping reads it next, a stutter; that it disturbs no other value needs that no
two parameters of a block are one value, which `Verified` says.

**StackFrameProofs.** For every list of slots and calls, and for every limit on
displacements and sums. The invariant says of the slots reserved so far what the
properties say of all: they end at `used`, counted down from `rbp`, one above the
other (`SlotsDisjoint` alone is not inductive: nothing in it says that the next
slot lies below the last), and the outgoing area is at least what every call
looked at needs. The lemmas about `AlignUp` are stated for one alignment at a
time, as the powers of two it is used with: a multiple no smaller than the value,
or an overflow.

**RelaxProofs.** For every section, reach and limit. `SafeInv` holds whether the
passes settled or were cut off: the layout being made is contiguous so far
(`LaidOut`), and once made, as long as no branch grew since, it is the layout of
the forms there are, in which the branches looked at reach (`Checked`); a layout
is returned only if none grew, hence `LayoutHolds`. `FailsExactly` says that an
undefined label is the only reason to fail, and is always found. `SettledLayout`
needs `SettleInv` as well: a pass keeps no offsets, only those of the labels, so
the invariant says that *there is* a function from pieces to offsets that the
pass agrees with, and that the layout after settled passes is this function.

**DominatorsProofs.** For every graph, edges to missing blocks included. `DfsInv`
follows the search: marked blocks are on the stack or retired, a retired block
has had its successors looked at, the entry is at the bottom. What it leaves
behind, `GraphInv`, is all the loop needs to know: the numbering is one-to-one,
the entry has number 0, the marked blocks are closed under successors, and each
but the entry has a predecessor with a smaller number. The properties are not
inductive: that an immediate dominator only rises needs to be known of every
tree the loop builds, half-finished ones included. `TreeInv` says of them that no
dominator is ever climbed past (`KeepsDominators`), that the tree is connected by
paths of the graph (`FlowsDown`), and that the common ancestors of the
predecessors are never nearer than what is recorded (`NeverNearer`). When a pass
changes nothing, what is recorded is above every predecessor (`SettledBlocks`), and
`DominanceRight` follows: `dominates` is dominance, on reducible and irreducible
graphs alike.

**ModuleBuilderProofs.** The verifier collects errors, the builder tests conditions.
The first part shows of each arm of `check_instruction` that it reports nothing
exactly when a conjunction holds (`InstructionChecks`); the precondition is that every value
has a type id, in the table or not, which the invariant provides. `Agreement`
compares these conjunctions with the builder's, op by op. The invariant `IInv` says
of the module (`ModuleFine`) that signatures, instructions and the constants that
were not interned by hand type check, names differ, tables have no duplicates, and
that every arena is the parameters and the results. Types may refer to anything;
what was checked around an id that names nothing goes on when the id gets a meaning,
since a check passes by what it finds in the table or by equality of ids. The
properties alone are not inductive: `BuiltModulesTypeCheck` says nothing of the
order in tables and arenas, so it would not survive their growth. What type checks
in a module does so in a larger one (`InstructionStays`, `ConstantStays`), and each
call then only has to answer for what it adds. That a masked integer fits its width
is shown by counting subsets, as the library has no fact about powers.
`BuilderAgrees` holds in every state (the run
looks at some of them, enough since neither cursor nor idle constants matter) and covers operands and callees that do not exist, and results of any
type. `ShapesDiffer` is about the types whose references end (`Grounded`): under any
relation of types that look alike, the types related to nothing but themselves are a
set that holds a type as soon as it holds those it refers to, hence every type that
is grounded.

**ArbReadFacts and ArbReaderProofs.** For every set of modules that are written and of bytes that
damage them. The constants of the format (tags, widths) are those of the model:
numbers have their scaled widths here too. `ArbReadFacts` is about reads,
bottom up, in one form: a result is in the set of a read *exactly when* its
value is legal and its bytes, as the writer gives them, lie at the cursor
(`FixedReads` for numbers, then lists, tags, fields and the entries of every
table, `ValueRead` the last). This is where each list of fields of the reader
meets the one of the writer (`WritesX` and `ReadsX`, tag by tag), and where the
recursive functions on both sides, `Fields` and the library's flattening, are
pinned down by their least counterexample. `ArbReaderProofs` is about states:

* `Cursor`: which stages a section has and where its end can lie. `ArbTypes`
  follows.
* `Room`: each open list on its own was given room for no more entries than the
  file could hold in their shortest forms, 13, 4, 6 and 4 bytes at the four depths
  of nesting. `CapacityJustified` alone is not inductive: it bounds the sum and
  would not survive the opening of one more list. `RoomJustified` follows, since
  the four fractions of the file add up to less than the file.
* `Shape`, `Tables`, `Refs`: what has been read so far is legal, and already
  well-formed as far as it goes; the type section cannot close before the scalars
  are there (`TypesDue`), and what has no turn yet is empty (`Fresh`).
  `AcceptedWellFormed` follows.
* `Laid`: at every position of the cursor the bytes before it are what the writer
  would have made of the module so far, up to the entries still due: in the
  middle of a block the counts of its instructions, of the blocks and of the
  functions are already those of the finished lists. `AcceptedIsCanonical`
  speaks of accepted files only and says nothing that a step could preserve. A step
  moves the end of what is laid (`LaidWithin`), the sections before stay as they
  are since each writes another part of the module (`BodiesStay`), and a section
  that closes where its length field said is the one the writer would have written
  (`SectionCloses`). `AcceptedCanonical` follows: every accepted file, however it
  came about, is byte for byte what `write` gives, except for the minor version
  (`HeaderThird`), which the reader does not look at.
* `Comes`, the other direction, for files that were not damaged: what the cursor has
  behind it was read as it was written, and what it has before it are the bytes of
  the entries that are due. `RoundTrip` alone is not inductive: a reader that
  has gone astray is not rejected before it notices. That a whole file is laid out like
  that (`WriteSections`) is taken apart by one section, table, function, block and
  entry at a time (`Ahead`, `AheadStep`), down to what each stage of the reader has
  due (`TableDue`, `FunctionDue`, `InstsDue`). In every stage the read that comes then
  finds the entry that was written (`HeaderDue` to `ATermDue`), an entry of a
  table is new to it because that table held no duplicates (`NewEntry`), symbols
  that are looked up exist (`SymbolsKnown`), each count leaves room for its
  entries, and sections end where they said (`CloseDue`); so no step rejects
  (`NothingFails`). The result of a read being the only one (`HeadsOne` and the
  like), the step that is taken is that read (`HeaderComes` to `EndComes`).
  `Lossless` follows: `read(&write(&m))` is `m` for every storable `m`.

**Only model-checked:**

* `Terminates` and `Returns` (liveness under fairness) and `PassesSettle`, which
  is about one number of passes that is enough for the sections of the run, not
  about all sections.
* `FieldsInPlace` and `ValuesInSlots` of `Calls`: they rest on what the recursive
  functions of `Layout` compute for every type.
* `Text` and `Select`: the first has a recursive operator, the depth-first search,
  the second uses bitwise operators; neither can be the subject of a proof as they
  are.

## 7. Plan

1. *Done*: `Dominators`, `Verify`, `Builder`, `Ssa`, `Frame`, `Relax`; `Stores`,
   `Typing`, `ModuleBuilder`; `ArbWriter`, `ArbReader`; `Align`, `Layout`,
   `StackFrame`, `Calls`; `Text`; `Select`.
2. *Done*: proofs for `Builder`, `Frame`, its refinement of `Ssa`, `StackFrame`,
   `Relax`, `Dominators` and `ModuleBuilder`, with the interning of `Stores` and
   the rules of `Typing`.
3. *Done*: `ArbReader`: its types, its bounds, that what it accepts is
   well-formed, and that it is the encoding of the module it gives, for every file;
   that the encoding of every storable module is accepted and gives that module.
4. `Layout`: the fields of a struct lie inside it, apart and aligned, for every
   type table, by the least type for which they do not; with it `FieldsInPlace`.

### Not modelled

* **ELF writer**: a pure function from sections, symbols and relocations to
  bytes, with no state or order of its own.
* **Encoding of single instructions** and the relocations beside them: tables,
  compared with NASM by the repository's tests.
* **NASM text, command-line tools, error wording**: output only.
* **Lexer and grammar of the text form**, constants and types in it: read
  and written in place; a model would repeat the grammar.
* **Debug names in the builder**: only the printer looks at them. A name that is
  interned by a `set_value_name` that then fails stays in the table, unused.
* **Float arithmetic**: the code emits one instruction of the processor.
