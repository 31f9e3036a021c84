------------------------------ MODULE Builder -------------------------------
(***************************************************************************)
(* FunctionBuilder of src/src/builder.rs: the calls that put the body of   *)
(* one function together, in any order a caller likes.  The signature is   *)
(* chosen once (declare_function_inner, Function::new).                    *)
(*                                                                         *)
(* One action is one call that changes the function.  A call whose check   *)
(* fails returns Err and leaves the function alone, a stuttering step; the *)
(* call that fails half way, append_block_with_params, is modelled in      *)
(* full.  Ids are positions, see Verify; a caller may pass the id one past *)
(* the last, which names nothing.  Names, spans and the constant pool are  *)
(* left out.                                                               *)
(***************************************************************************)
EXTENDS Verify, SequencesExt

CONSTANTS Ops,        \* the ops a caller may emit: [args, result]
          Sigs,       \* signatures: [types, result, external, variadic]
          MaxBlocks, MaxValues, MaxInsts, MaxArgs   \* bounds of the model

ASSUME BuilderAssumption ==
    /\ Ops \subseteq [args : Seq(TypeIds), result : TypeIds \cup {NoType}]
    /\ Sigs \subseteq [types : Seq(ValTypes), result : ValTypes \cup {Void},
                       external : BOOLEAN, variadic : BOOLEAN]
    /\ \A s \in Sigs : s.variadic => s.external
    /\ {MaxBlocks, MaxValues, MaxInsts, MaxArgs} \subseteq Nat

VARIABLES sig,       \* never changes
          values,    \* the value arena
          bparams,   \* block id -> its parameters
          insts,     \* block id -> its instructions
          terms,     \* block id -> its terminator
          current    \* the cursor, NoBlock before the first block is chosen

vars == <<sig, values, bparams, insts, terms, current>>

NoBlock == 0
NoTerm == [tag |-> "None", uses |-> <<>>, edges |-> <<>>]

\* The function as the verifier sees it.
Fn == [params |-> [i \in DOMAIN sig.types |-> [value |-> i, ty |-> sig.types[i]]],
       result |-> sig.result, external |-> sig.external, variadic |-> sig.variadic,
       values |-> values, bparams |-> bparams, insts |-> insts, terms |-> terms]

-----------------------------------------------------------------------------
(* Inputs of the calls, within the bounds                                  *)

BlockCount == Len(terms)
BlockInputs == 1..BlockCount + 1
ValueInputs == 1..Len(values) + 1
ArgLists == UNION {[1..n -> ValueInputs] : n \in 0..MaxArgs}
TypeLists == UNION {[1..n -> TypeIds] : n \in 1..MaxArgs + 1}

IsBlock(b) == b \in 1..BlockCount

\* A definition named ...Bug makes one plausible mistake in the definition that
\* follows it.  No specification uses it; it shows that a property would notice.

\* ty_of: the value exists and has type ty.
HasTypeBug(v, ty) == v \in DOMAIN values => values[v].ty = ty   \* skips unknown values
HasType(v, ty) == v \in DOMAIN values /\ values[v].ty = ty

-----------------------------------------------------------------------------
Init ==
    /\ sig \in Sigs
    /\ values = [i \in DOMAIN sig.types |-> [ty |-> sig.types[i], kind |-> ParamKind(i)]]
    /\ bparams = <<>>
    /\ insts = <<>>
    /\ terms = <<>>
    /\ current = NoBlock

\* function_builder on a declared function: a fresh cursor over what is there already.
FunctionBuilder ==
    /\ current' = NoBlock
    /\ UNCHANGED <<sig, values, bparams, insts, terms>>

SwitchTo(b) ==
    /\ IsBlock(b)
    /\ current' = b
    /\ UNCHANGED <<sig, values, bparams, insts, terms>>

\* What a new block b adds to the arena, and its parameters, when these have types tys.
ParamValues(b, tys) ==
    [i \in DOMAIN tys |-> [ty |-> tys[i], kind |-> BlockParamKind(b, i)]]
ParamList(tys) ==
    [i \in DOMAIN tys |-> [value |-> Len(values) + i, ty |-> tys[i]]]

NewBlock(tys) ==
    /\ BlockCount < MaxBlocks
    /\ values' = values \o ParamValues(BlockCount + 1, tys)
    /\ bparams' = Append(bparams, ParamList(tys))
    /\ insts' = Append(insts, <<>>)
    /\ terms' = Append(terms, NoTerm)
    /\ current' = BlockCount + 1
    /\ UNCHANGED sig

\* append_block and append_named_block.
AppendBlock == NewBlock(<<>>)

\* The first n of tys are added: all, or those before the first not first-class.
AcceptedBug(tys, n) == n = Len(tys)          \* no is_first_class()
Accepted(tys, n) ==
    /\ \A i \in 1..n : tys[i] \in ValTypes
    /\ n < Len(tys) => tys[n + 1] \notin ValTypes

\* append_block_with_params: the block is there and current even when adding its
\* parameters fails, at once on the entry block, else at a type that is not first-class.
AppendBlockWithParams(tys) ==
    \E n \in 0..Len(tys) :
      /\ Accepted(tys, n)
      /\ LET added == IF BlockCount = 0 THEN <<>> ELSE SubSeq(tys, 1, n)
         IN  Len(values) + Len(added) <= MaxValues /\ NewBlock(added)

NotEntryBug(b) == TRUE                       \* no check of block.index()
NotEntry(b) == b # Entry

EmptyBlock(b) == insts[b] = <<>> /\ terms[b] = NoTerm

\* add_block_param and add_block_param_named.
AddBlockParam(b, ty) ==
    /\ Len(values) < MaxValues
    /\ IsBlock(b) /\ NotEntry(b) /\ EmptyBlock(b)
    /\ ty \in ValTypes
    /\ values' = Append(values, [ty |-> ty, kind |-> BlockParamKind(b, Len(bparams[b]) + 1)])
    /\ bparams' = [bparams EXCEPT ![b] = Append(@, [value |-> Len(values) + 1, ty |-> ty])]
    /\ UNCHANGED <<sig, insts, terms, current>>

-----------------------------------------------------------------------------
OpenBug == current # NoBlock                 \* no BlockTerminated check
Open == current # NoBlock /\ terms[current] = NoTerm

ArgsFit(op, args) ==
    /\ Len(args) = Len(op.args)
    /\ \A i \in DOMAIN args : HasType(args[i], op.args[i])

PlacedBug(list, inst) == <<inst>> \o list    \* new instructions go first
Placed(list, inst) == Append(list, inst)

\* append: the result, if the op has one, is the next value of the arena.
Emit(op, args) ==
    /\ Len(values) < MaxValues
    /\ ArgsFit(op, args) /\ Open
    /\ Len(insts[current]) < MaxInsts
    /\ LET hasResult == op.result # NoType
           inst == [op |-> op, args |-> args,
                    result |-> IF hasResult THEN Len(values) + 1 ELSE NoValue]
           data == [ty |-> op.result, kind |-> InstKind(current, Len(insts[current]) + 1)]
       IN  /\ insts' = [insts EXCEPT ![current] = Placed(@, inst)]
           /\ values' = IF hasResult THEN Append(values, data) ELSE values
    /\ UNCHANGED <<sig, bparams, terms, current>>

Edge(to, args) == [to |-> to, args |-> args]

\* check_branch_args
ArgsMatchBug(e) ==                           \* compares only what `zip' pairs up
    /\ IsBlock(e.to)
    /\ \A i \in DOMAIN e.args \cap DOMAIN bparams[e.to] : HasType(e.args[i], bparams[e.to][i].ty)
ArgsMatch(e) ==
    /\ IsBlock(e.to)
    /\ Len(e.args) = Len(bparams[e.to])
    /\ \A i \in DOMAIN e.args : HasType(e.args[i], bparams[e.to][i].ty)

\* set_terminator: the cursor stays on the block.
SetTerminator(tag, uses, edges) ==
    /\ Open
    /\ terms' = [terms EXCEPT ![current] = [tag |-> tag, uses |-> uses, edges |-> edges]]
    /\ UNCHANGED <<sig, values, bparams, insts, current>>

Jump(e) == ArgsMatch(e) /\ SetTerminator("Jump", <<>>, <<e>>)

Branch(c, e1, e2) ==
    /\ HasType(c, I1)
    /\ ArgsMatch(e1) /\ ArgsMatch(e2)
    /\ SetTerminator("Branch", <<c>>, <<e1, e2>>)

\* ret compares types and no more: in a void function it takes a value of type void,
\* which the verifier refuses.
Ret(v) == HasType(v, sig.result) /\ SetTerminator("Return", <<v>>, <<>>)
RetVoid == sig.result = Void /\ SetTerminator("Return", <<>>, <<>>)
Unreachable == SetTerminator("Unreachable", <<>>, <<>>)

\* The edges check_branch_args lets through.
PassingEdges == {e \in [to : BlockInputs, args : ArgLists] : ArgsMatch(e)}

Next ==
    \/ FunctionBuilder
    \/ AppendBlock
    \/ \E b \in BlockInputs : SwitchTo(b)
    \/ \E tys \in TypeLists : AppendBlockWithParams(tys)
    \/ \E b \in BlockInputs, ty \in TypeIds : AddBlockParam(b, ty)
    \/ \E op \in Ops, args \in ArgLists : Emit(op, args)
    \/ \E e \in PassingEdges : Jump(e)
    \/ \E c \in ValueInputs, e1, e2 \in PassingEdges : Branch(c, e1, e2)
    \/ \E v \in ValueInputs : Ret(v)
    \/ RetVoid
    \/ Unreachable

Spec == Init /\ [][Next]_vars

-----------------------------------------------------------------------------
(* Properties                                                              *)

Kinds == [tag : {"Param", "BlockParam", "Inst"}, block : Nat, index : Nat]
ValueData == [ty : TypeIds, kind : Kinds]
BlockParam == [value : Nat, ty : ValTypes]
Instruction == [op : Ops, args : Seq(Nat), result : Nat]
Terminator == [tag : {"None", "Jump", "Branch", "Return", "Unreachable"},
               uses : Seq(Nat), edges : Seq([to : Nat, args : Seq(Nat)])]

\* Types of the variables, and one entry of each table per block.
TypeOK ==
    /\ sig \in Sigs
    /\ values \in Seq(ValueData)
    /\ bparams \in Seq(Seq(BlockParam))
    /\ insts \in Seq(Seq(Instruction))
    /\ terms \in Seq(Terminator)
    /\ Len(bparams) = BlockCount /\ Len(insts) = BlockCount
    /\ current \in 0..BlockCount

\* Whatever calls were made, in whatever order, the verifier can only complain of what
\* the builder does not look at: a block left open, a parameter added to a block after
\* a jump to it, a use its definition does not dominate, the linkage of the function,
\* and a value of type void returned from a void function.  Never of ids, definitions or
\* any other type (builder.rs:388-529, 1378-1514).
BuilderErrorsBounded ==
    /\ Errors(Fn) \subseteq {"MissingTerminator", "BlockArgCountMismatch", "UseNotDominated",
                             "InvalidDeclaration", "VariadicDefinition", "ReturnMismatch"}
    /\ "ReturnMismatch" \in Errors(Fn) => sig.result = Void /\ \E v \in DOMAIN values : HasType(v, Void)

\* An edge checked when it was made stays good for the parameters its target had then:
\* parameters added later can only make it too short, never change those it feeds.
EdgeArgsPrefix ==
    \A e \in Edges(Fn) :
      /\ e.to \in BlockIds(Fn)
      /\ Len(e.args) <= Len(bparams[e.to])
      /\ \A n \in DOMAIN e.args : HasType(e.args[n], bparams[e.to][n].ty)

\* Inside one block a definition always stands before its uses, also when the cursor
\* left the block and came back: the dominance errors of a built function are between
\* blocks, so a function of one block has none.
SameBlockUsesInOrder ==
    \A b \in 1..BlockCount :
      /\ \A i \in DOMAIN insts[b] : \A v \in Range(insts[b][i].args) :
           LET k == values[v].kind IN k.tag = "Inst" /\ k.block = b => k.index < i
      /\ \A v \in TermValues(terms[b]) :
           LET k == values[v].kind IN k.tag = "Inst" /\ k.block = b => k.index <= Len(insts[b])

\* A result is younger than its operands wherever the blocks are: definitions can only
\* depend on each other in a circle through the parameters of a block.
OperandsOlder ==
    \A b \in 1..BlockCount : \A i \in DOMAIN insts[b] :
      insts[b][i].result # NoValue =>
        \A v \in Range(insts[b][i].args) : v < insts[b][i].result

\* Ids handed out stay valid and mean the same: no call rewrites an arena entry, a
\* block's instructions or parameters, or a terminator that is set, and nothing is added
\* to a block after its terminator or to its parameters after its first instruction.
BodyOnlyGrows ==
    [][/\ IsPrefix(values, values')
       /\ BlockCount <= BlockCount'
       /\ \A b \in 1..BlockCount :
            /\ IsPrefix(bparams[b], bparams'[b]) /\ IsPrefix(insts[b], insts'[b])
            /\ terms[b] # NoTerm => terms'[b] = terms[b] /\ insts'[b] = insts[b]
            /\ ~EmptyBlock(b) => bparams'[b] = bparams[b]]_vars

\* Once a body passes the verifier nothing built on to it can break what was verified:
\* new blocks cannot be reached from it, so the only errors that come back are those of
\* the new blocks themselves: one left open, a parameter added after a jump to it, and,
\* if the function is void, a void value returned from it.
VerifiedBodyStays ==
    []((Verified(Fn) /\ terms # <<>>)
         => [](/\ Errors(Fn) \subseteq {"MissingTerminator", "BlockArgCountMismatch", "ReturnMismatch"}
               /\ "ReturnMismatch" \in Errors(Fn) => sig.result = Void))
=============================================================================
