------------------------------- MODULE Verify -------------------------------
(***************************************************************************)
(* What the verifier says of one function: check_function of               *)
(* src/src/verify/mod.rs with ssa.rs, types.rs and cfg.rs below it.  The   *)
(* code appends VerifyError values to a list; Errors(f) is the set of the  *)
(* kinds it appends, and a function passes when that set is empty.         *)
(*                                                                         *)
(* A function is a record                                                  *)
(*   params    function parameters, [value, ty]                            *)
(*   result    result type, Void for none                                  *)
(*   external, variadic                                                    *)
(*   values    the value arena: [ty, kind]                                 *)
(*   bparams   for each block its parameters, [value, ty]                  *)
(*   insts     for each block its instructions, [op, args, result]         *)
(*   terms     for each block its terminator, [tag, uses, edges]           *)
(*                                                                         *)
(* Value and block ids are positions, 1 for the code's 0.  The result of   *)
(* an instruction without one is NoValue.  An op stands for an instruction *)
(* kind at given types (add at i32, store to ptr<i8>, a call of one        *)
(* callee): the operand types it asks for and the result type it gives,    *)
(* NoType for no result.  That is not Void: an extract from a struct with  *)
(* a void field has a result, of type void (builder.rs:1314-1329).         *)
(***************************************************************************)
EXTENDS Integers, Sequences, Functions

CONSTANTS TypeIds,   \* the type ids a value may have, of whatever type
          ValTypes,  \* those of first-class types
          I1,        \* the type of conditions
          Void,      \* result type of a function without a result
          NoType     \* the missing result type of an op without a result

ASSUME TypesAssumption ==
    /\ ValTypes \subseteq TypeIds /\ I1 \in ValTypes
    /\ Void \in TypeIds \ ValTypes /\ NoType \notin TypeIds

NoValue == 0
Entry == 1

-----------------------------------------------------------------------------
(* Reading a function                                                      *)

BlockIds(f) == DOMAIN f.terms
Arena(f) == DOMAIN f.values

\* What a terminator reads: the condition or result, then the edge arguments.
TermValues(t) ==
    Range(t.uses) \cup UNION {Range(t.edges[e].args) : e \in DOMAIN t.edges}

Successors(f, b) ==
    {f.terms[b].edges[e].to : e \in DOMAIN f.terms[b].edges} \cap BlockIds(f)

\* Reachability and dominance as the analysis of module Dominators computes
\* them: S holds the entry and all successors of its members, d left out.
ClosedAvoiding(f, S, d) ==
    /\ Entry \in S \cup {d}
    /\ \A b \in S : Successors(f, b) \ {d} \subseteq S

Reachable(f, b) == \A S \in SUBSET BlockIds(f) : ClosedAvoiding(f, S, 0) => b \in S

\* A definition named ...Bug makes one plausible mistake in the definition that
\* follows it.  No specification uses it; it shows that a property would notice.

StrictlyDominatesBug(f, d, b) == d # b      \* any other reachable block will do
StrictlyDominates(f, d, b) ==
    d # b /\ \E S \in SUBSET (BlockIds(f) \ {d}) : ClosedAvoiding(f, S, d) /\ b \notin S

-----------------------------------------------------------------------------
(* ssa.rs: every value is defined once, where its arena entry says.        *)

ParamKind(i) == [tag |-> "Param", block |-> 0, index |-> i]
BlockParamKind(b, i) == [tag |-> "BlockParam", block |-> b, index |-> i]
InstKind(b, i) == [tag |-> "Inst", block |-> b, index |-> i]
Reserved == [tag |-> "Reserved", block |-> 0, index |-> 0]

Site(v, k) == [value |-> v, kind |-> k]

DefSites(f) ==
    {Site(f.params[i].value, ParamKind(i)) : i \in DOMAIN f.params}
    \cup (UNION {{Site(f.bparams[b][i].value, BlockParamKind(b, i)) :
                    i \in DOMAIN f.bparams[b]} : b \in BlockIds(f)})
    \cup (UNION {{Site(f.insts[b][i].result, InstKind(b, i)) :
                    i \in {j \in DOMAIN f.insts[b] : f.insts[b][j].result \in Arena(f)}} :
                 b \in BlockIds(f)})

ValueRedefined(f) ==
    \E s, t \in DefSites(f) : s # t /\ s.value = t.value

UnknownResult(f) ==
    \E b \in BlockIds(f) : \E i \in DOMAIN f.insts[b] :
      f.insts[b][i].result \notin Arena(f) \cup {NoValue}

\* The arena entry v names a place where v is defined, with the type declared there.
DefinedAsClaimed(f, v) ==
    LET k == f.values[v].kind
    IN  /\ Site(v, k) \in DefSites(f)
        /\ k.tag = "Param" => f.params[k.index].ty = f.values[v].ty
        /\ k.tag = "BlockParam" => f.bparams[k.block][k.index].ty = f.values[v].ty

UndefinedValue(f) == \E v \in Arena(f) : f.values[v].kind = Reserved

InconsistentDefinition(f) ==
    \/ \E i \in DOMAIN f.params : f.params[i].value # i
    \/ \E v \in Arena(f) : f.values[v].kind # Reserved /\ ~DefinedAsClaimed(f, v)

-----------------------------------------------------------------------------
(* mod.rs: linkage, signature and entry block.                             *)

InvalidDeclaration(f) == f.terms = <<>> /\ ~f.external
VariadicDefinition(f) == f.terms # <<>> /\ f.variadic

InvalidSignature(f) ==
    \/ Len(f.values) < Len(f.params)
    \/ f.result \notin ValTypes \cup {Void}
    \/ \E i \in DOMAIN f.params : f.params[i].ty \notin ValTypes
    \/ \E b \in BlockIds(f) : \E i \in DOMAIN f.bparams[b] : f.bparams[b][i].ty \notin ValTypes

EntryBlockWithParams(f) == f.terms # <<>> /\ f.bparams[Entry] # <<>>
MissingTerminator(f) == \E b \in BlockIds(f) : f.terms[b].tag = "None"

-----------------------------------------------------------------------------
(* types.rs: operands exist and have the types the op asks for.            *)

UnknownOperand(f) ==
    \E b \in BlockIds(f) : \E i \in DOMAIN f.insts[b] :
      \E v \in Range(f.insts[b][i].args) : v \notin Arena(f)

\* Only operands that exist are typed; a result that does not exist is a missing one.
\* (Of a call with such a result only the unknown value is reported, the same verdict.)
IllTyped(f, inst) ==
    \/ Len(inst.args) # Len(inst.op.args)
    \/ \E n \in DOMAIN inst.args \cap DOMAIN inst.op.args :
         inst.args[n] \in Arena(f) /\ f.values[inst.args[n]].ty # inst.op.args[n]
    \/ inst.result \notin Arena(f) /\ inst.op.result # NoType
    \/ inst.result # NoValue /\ inst.op.result = NoType
    \/ inst.result \in Arena(f) /\ f.values[inst.result].ty # inst.op.result

TypeError(f) ==
    /\ Len(f.values) >= Len(f.params)
    /\ \E b \in BlockIds(f) : \E i \in DOMAIN f.insts[b] : IllTyped(f, f.insts[b][i])

-----------------------------------------------------------------------------
(* cfg.rs: edges, conditions, results and dominance of uses.               *)

Edges(f) == UNION {Range(f.terms[b].edges) : b \in BlockIds(f)}

UnknownBlock(f) == \E e \in Edges(f) : e.to \notin BlockIds(f)

BlockArgCountMismatch(f) ==
    \E e \in Edges(f) : e.to \in BlockIds(f) /\ Len(e.args) # Len(f.bparams[e.to])

BlockArgTypeMismatch(f) ==
    \E e \in Edges(f) :
      /\ e.to \in BlockIds(f)
      /\ \E n \in DOMAIN e.args \cap DOMAIN f.bparams[e.to] :
           e.args[n] \in Arena(f) /\ f.values[e.args[n]].ty # f.bparams[e.to][n].ty

ConditionNotI1(f) ==
    \E b \in BlockIds(f) :
      /\ f.terms[b].tag = "Branch"
      /\ \E v \in Range(f.terms[b].uses) : v \in Arena(f) /\ f.values[v].ty # I1

ReturnMismatch(f) ==
    \E b \in BlockIds(f) :
      /\ f.terms[b].tag = "Return"
      /\ \/ f.terms[b].uses = <<>> /\ f.result # Void
         \/ f.terms[b].uses # <<>> /\ f.result = Void
         \/ \E v \in Range(f.terms[b].uses) : v \in Arena(f) /\ f.values[v].ty # f.result

\* UseChecker::check: a use of v at place pos of block b.  A block parameter is
\* defined at place 0, instruction i at place i, the terminator reads after them all.
\* Function parameters, reserved entries, values that do not exist and uses in
\* unreachable blocks are skipped.
DominatedUse(f, v, b, pos) ==
    LET k == f.values[v].kind
    IN  \/ v \notin Arena(f)
        \/ k.tag \in {"Param", "Reserved"}
        \/ ~Reachable(f, b)
        \/ k.block \notin BlockIds(f)
        \/ /\ Reachable(f, k.block)
           /\ IF k.block = b THEN (IF k.tag = "Inst" THEN k.index ELSE 0) < pos
                             ELSE StrictlyDominates(f, k.block, b)

UseNotDominated(f) ==
    \E b \in BlockIds(f) :
      \/ \E i \in DOMAIN f.insts[b] : \E v \in Range(f.insts[b][i].args) :
           ~DominatedUse(f, v, b, i)
      \/ \E v \in TermValues(f.terms[b]) :
           ~DominatedUse(f, v, b, Len(f.insts[b]) + 1)

-----------------------------------------------------------------------------
ErrorKinds ==
    {"InvalidDeclaration", "VariadicDefinition", "InvalidSignature", "ValueRedefined",
     "UnknownValue", "UndefinedValue", "InconsistentDefinition", "EntryBlockWithParams",
     "MissingTerminator", "TypeError", "UnknownBlock", "BlockArgCountMismatch",
     "BlockArgTypeMismatch", "ConditionNotI1", "ReturnMismatch", "UseNotDominated"}

\* check_function: every check runs, whatever the others found.
Errors(f) ==
    {e \in ErrorKinds :
       \/ e = "InvalidDeclaration" /\ InvalidDeclaration(f)
       \/ e = "VariadicDefinition" /\ VariadicDefinition(f)
       \/ e = "InvalidSignature" /\ InvalidSignature(f)
       \/ e = "ValueRedefined" /\ ValueRedefined(f)
       \/ e = "UnknownValue" /\ (UnknownResult(f) \/ UnknownOperand(f))
       \/ e = "UndefinedValue" /\ UndefinedValue(f)
       \/ e = "InconsistentDefinition" /\ InconsistentDefinition(f)
       \/ e = "EntryBlockWithParams" /\ EntryBlockWithParams(f)
       \/ e = "MissingTerminator" /\ MissingTerminator(f)
       \/ e = "TypeError" /\ TypeError(f)
       \/ e = "UnknownBlock" /\ UnknownBlock(f)
       \/ e = "BlockArgCountMismatch" /\ BlockArgCountMismatch(f)
       \/ e = "BlockArgTypeMismatch" /\ BlockArgTypeMismatch(f)
       \/ e = "ConditionNotI1" /\ ConditionNotI1(f)
       \/ e = "ReturnMismatch" /\ ReturnMismatch(f)
       \/ e = "UseNotDominated" /\ UseNotDominated(f)}

Verified(f) == Errors(f) = {}
=============================================================================
