------------------------------- MODULE Frame --------------------------------
(***************************************************************************)
(* The code FuncGen of astronomy-x86/src/codegen.rs generates for one      *)
(* verified function, as it runs.  Every value has a slot in the stack     *)
(* frame and every block a scratch slot per parameter; an instruction      *)
(* loads its operands from their slots and stores its result, and an edge  *)
(* is a staged copy: arguments to scratch slots one by one, then scratch   *)
(* slots to parameter slots one by one.  A frame starts with whatever the  *)
(* stack holds, Undef.                                                     *)
(*                                                                         *)
(* Slots are modelled by what they are for, not by displacement, and what  *)
(* an instruction computes is any data.                                    *)
(***************************************************************************)
EXTENDS Verify

CONSTANTS Programs,            \* the functions handed to lower()
          Data, Zero, Undef    \* see Ssa

\* The shapes the types Function, BasicBlock and Terminator allow.
ParamShape == [value : Nat, ty : TypeIds]
EdgeShape == [to : Nat, args : Seq(Nat)]
TermShape == [tag : {"None", "Jump", "Branch", "Return", "Unreachable"},
              uses : Seq(Nat), edges : Seq(EdgeShape)]

WellFormed(f) ==
    /\ f.params \in Seq(ParamShape)
    /\ Len(f.values) \in Nat /\ DOMAIN f.values = 1..Len(f.values)
    /\ f.terms \in Seq(TermShape)
    /\ DOMAIN f.bparams = BlockIds(f) /\ DOMAIN f.insts = BlockIds(f)
    /\ \A b \in BlockIds(f) :
         /\ f.bparams[b] \in Seq(ParamShape)
         /\ Len(f.insts[b]) \in Nat /\ DOMAIN f.insts[b] = 1..Len(f.insts[b])
         /\ f.terms[b].tag = "Jump" => Len(f.terms[b].edges) = 1
         /\ f.terms[b].tag = "Branch" => Len(f.terms[b].edges) = 2 /\ Len(f.terms[b].uses) = 1

ASSUME FrameAssumption ==
    /\ Zero \in Data /\ Undef \notin Data
    /\ \A f \in Programs : WellFormed(f)

VARIABLES fn,       \* the function, never changes
          slots,    \* value -> content of its slot
          scratch,  \* <<block, parameter index>> -> content of the scratch slot
          mode,     \* verified, panicked, prologue, body, stage, commit, left
          block, pos,
          edge,     \* the edge that is being copied
          k         \* next parameter or argument to copy

vars == <<fn, slots, scratch, mode, block, pos, edge, k>>

NoEdge == [to |-> 0, args |-> <<>>]

ScratchSlots(f) == UNION {{<<b, i>> : i \in DOMAIN f.bparams[b]} : b \in BlockIds(f)}

\* lower() takes verified modules and skips declarations.
Init ==
    /\ fn \in {f \in Programs : Verified(f) /\ f.terms # <<>>}
    /\ slots = [v \in Arena(fn) |-> Undef]
    /\ scratch = [s \in ScratchSlots(fn) |-> Undef]
    /\ mode = "verified"
    /\ block = 0 /\ pos = 0
    /\ edge = NoEdge
    /\ k = 1

OperandsExist(f) ==
    \A b \in BlockIds(f) :
      /\ \A i \in DOMAIN f.insts[b] : Range(f.insts[b][i].args) \subseteq Arena(f)
      /\ TermValues(f.terms[b]) \subseteq Arena(f)

\* Generating the code looks up the slot of every operand, disp[v.index()] or
\* value(v).expect(..): an id past the arena ends it with a panic.
Lower ==
    /\ mode = "verified"
    /\ mode' = IF OperandsExist(fn) THEN "prologue" ELSE "panicked"
    /\ UNCHANGED <<fn, slots, scratch, block, pos, edge, k>>

EnterBlock(b) ==
    /\ mode' = "body"
    /\ block' = b
    /\ pos' = 1
    /\ edge' = NoEdge
    /\ k' = 1

\* emit_prologue: store the k-th argument into the slot of its parameter.
SaveArgument ==
    /\ mode = "prologue" /\ k <= Len(fn.params)
    /\ \E d \in Data : slots' = [slots EXCEPT ![fn.params[k].value] = d]
    /\ k' = k + 1
    /\ UNCHANGED <<fn, scratch, mode, block, pos, edge>>

EnterBody ==
    /\ mode = "prologue" /\ k > Len(fn.params)
    /\ EnterBlock(Entry)
    /\ UNCHANGED <<fn, slots, scratch>>

\* gen_inst
Instr ==
    /\ mode = "body" /\ pos <= Len(fn.insts[block])
    /\ LET inst == fn.insts[block][pos]
       IN  IF inst.result = NoValue THEN UNCHANGED slots
           ELSE \E d \in Data : slots' = [slots EXCEPT ![inst.result] = d]
    /\ pos' = pos + 1
    /\ UNCHANGED <<fn, scratch, mode, block, edge, k>>

Term == fn.terms[block]
AtTerm == mode = "body" /\ pos = Len(fn.insts[block]) + 1

\* emit_edge: an edge without arguments is a jump and nothing else.
TakeEdge(e) ==
    /\ IF e.args = <<>> THEN EnterBlock(e.to)
       ELSE /\ mode' = "stage"
            /\ edge' = e
            /\ k' = 1
            /\ UNCHANGED <<block, pos>>
    /\ UNCHANGED <<fn, slots, scratch>>

Jump == AtTerm /\ Term.tag = "Jump" /\ TakeEdge(Term.edges[1])

\* The edges a condition may select: the else edge if its slot holds zero; garbage
\* selects either.
Selected(c) ==
    IF slots[c] = Undef THEN {1, 2} ELSE IF slots[c] = Zero THEN {2} ELSE {1}

Branch ==
    /\ AtTerm /\ Term.tag = "Branch"
    /\ \E n \in Selected(Term.uses[1]) : TakeEdge(Term.edges[n])

\* leave; ret, or ud2.
Leave ==
    /\ AtTerm /\ Term.tag \in {"Return", "Unreachable"}
    /\ mode' = "left"
    /\ UNCHANGED <<fn, slots, scratch, block, pos, edge, k>>

\* A definition named ...Bug makes one plausible mistake in the definition that
\* follows it.  No specification uses it; it shows that a property would notice.

CopiedAllBug == k > Len(edge.args)
CopiedAll == k = Len(edge.args)

\* First loop of emit_edge.
Stage ==
    /\ mode = "stage"
    /\ scratch' = [scratch EXCEPT ![<<edge.to, k>>] = slots[edge.args[k]]]
    /\ IF CopiedAll THEN mode' = "commit" /\ k' = 1
                    ELSE k' = k + 1 /\ UNCHANGED mode
    /\ UNCHANGED <<fn, slots, block, pos, edge>>

StagedBug(n) == slots[edge.args[n]]          \* copies straight from slot to slot
Staged(n) == scratch[<<edge.to, n>>]

\* Second loop of emit_edge, then the jump.
Commit ==
    /\ mode = "commit"
    /\ slots' = [slots EXCEPT ![fn.bparams[edge.to][k].value] = Staged(k)]
    /\ IF CopiedAll THEN EnterBlock(edge.to)
       ELSE k' = k + 1 /\ UNCHANGED <<mode, block, pos, edge>>
    /\ UNCHANGED <<fn, scratch>>

\* The call is over, or there is no code.
Ended == mode \in {"left", "panicked"} /\ UNCHANGED vars

Next ==
    \/ Lower
    \/ SaveArgument \/ EnterBody \/ Instr
    \/ Jump \/ Branch \/ Leave
    \/ Stage \/ Commit
    \/ Ended

Spec == Init /\ [][Next]_vars

-----------------------------------------------------------------------------
(* Properties                                                              *)

Contents == Data \cup {Undef}

\* Types of the variables; a copy loop is always at one of the edge's arguments.
TypeOK ==
    /\ slots \in [Arena(fn) -> Contents]
    /\ scratch \in [ScratchSlots(fn) -> Contents]
    /\ mode \in {"verified", "panicked", "prologue", "body", "stage", "commit", "left"}
    /\ block \in BlockIds(fn) \cup {0}
    /\ pos \in Nat /\ k \in Nat \ {0}
    /\ mode \in {"stage", "commit"} => edge \in Edges(fn) /\ k \in DOMAIN edge.args

\* The values the next step loads.
Loaded ==
    CASE mode = "body" /\ ~AtTerm -> Range(fn.insts[block][pos].args)
      [] AtTerm                   -> Range(Term.uses)
      [] mode = "stage"           -> {edge.args[k]}
      [] OTHER                    -> {}

\* The code of a verified function never loads a slot before its definition has stored
\* to it, on any path: what the dominance check of cfg.rs:148-219 is for, and why
\* codegen.rs needs no other initialisation of the frame.
NoUninitializedLoad == \A v \in Loaded : slots[v] # Undef

\* The state of Ssa that a state of the code stands for.  A function in its commit loop
\* has followed its edge: the parameters still to be copied are in their scratch slots.
SsaBlock == CASE mode \in {"body", "stage"} -> block
              [] mode = "commit"           -> edge.to
              [] OTHER                     -> 0
SsaPos == IF mode = "commit" THEN 1 ELSE pos
Feeding(v) == {n \in k..Len(edge.args) : fn.bparams[edge.to][n].value = v}
SsaValue(v) ==
    IF mode = "prologue" THEN Undef
    ELSE IF mode = "commit" /\ Feeding(v) # {}
         THEN scratch[<<edge.to, CHOOSE n \in Feeding(v) : TRUE>>]
         ELSE slots[v]
SsaEnv == [v \in Arena(fn) |-> SsaValue(v)]

\* The staged copies implement the parallel assignment of block parameters, loops whose
\* edges permute the parameters of their own block included (codegen.rs:570-586), and
\* every other step is the step of the function it was generated from.
Abstract == INSTANCE Ssa WITH block <- SsaBlock, pos <- SsaPos, env <- SsaEnv
ImplementsSsa == Abstract!Spec

\* A verified function can be lowered: "a fabricated ID is an error, never undefined
\* behavior" (SPECIFICATION.md section 2), and `expect("verified value")' in codegen.rs.
LoweringNeverPanics == mode # "panicked"
=============================================================================
