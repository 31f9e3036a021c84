---------------------------- MODULE FrameProofs -----------------------------
(***************************************************************************)
(* For every verified function: its code never loads a slot that was not   *)
(* stored to.  The invariant behind it says where a slot can still be      *)
(* unwritten: only at places a path from the entry reaches without passing *)
(* the definition, that is, in every set of blocks closed under successors *)
(* other than the defining block.  A use the verifier accepts lies outside *)
(* one of those sets.                                                      *)
(*                                                                         *)
(* And: the code implements the function, as Ssa states its meaning.  The  *)
(* copy loops are the point: an edge assigns all parameters of its target  *)
(* at once, the code one slot after the other.  The edge counts as         *)
(* followed when its last argument has been staged; what follows only      *)
(* moves values Ssa has already, since no two parameters of a block are    *)
(* one value.  The simulation needs three more facts: before the body runs *)
(* only arguments have been stored (Blanks); the edge being copied is the  *)
(* one Ssa would follow (Chosen); a staged argument is still what its slot *)
(* holds (Following).                                                      *)
(***************************************************************************)
EXTENDS Frame, TLAPS, SequenceTheorems

-----------------------------------------------------------------------------
(* What the verifier has established, as facts about a function            *)

\* A function without errors is free of the errors the proof needs absent.
LEMMA VerifiedFacts ==
    ASSUME NEW f, Verified(f)
    PROVE  /\ ~UndefinedValue(f) /\ ~InconsistentDefinition(f)
           /\ ~EntryBlockWithParams(f) /\ ~MissingTerminator(f)
           /\ ~UnknownBlock(f) /\ ~BlockArgCountMismatch(f) /\ ~UseNotDominated(f)
  BY DEF Verified, Errors, ErrorKinds

\* A place in the code, reached without passing the definition of v.
PlaceOf(kd) == IF kd.tag = "Inst" THEN kd.index ELSE 0

Avoidable(f, v, b, p) ==
    LET kd == f.values[v].kind
    IN  /\ kd.tag \in {"BlockParam", "Inst"}
        /\ \A S \in SUBSET (BlockIds(f) \ {kd.block}) :
             ClosedAvoiding(f, S, kd.block) => b \in S \/ (b = kd.block /\ p <= PlaceOf(kd))

\* An arena entry of a verified function is defined where it says.
LEMMA DefinedThere ==
    ASSUME NEW f \in Programs, Verified(f), NEW v \in Arena(f)
    PROVE  LET kd == f.values[v].kind
           IN  /\ kd.tag \in {"Param", "BlockParam", "Inst"}
               /\ kd.tag = "Param" => /\ kd.index \in DOMAIN f.params
                                      /\ f.params[kd.index].value = v
               /\ kd.tag # "Param" => kd.block \in BlockIds(f)
               /\ kd.tag = "BlockParam" => /\ kd.index \in DOMAIN f.bparams[kd.block]
                                           /\ f.bparams[kd.block][kd.index].value = v
               /\ kd.tag = "Inst" => /\ kd.index \in DOMAIN f.insts[kd.block]
                                     /\ f.insts[kd.block][kd.index].result = v
                                     /\ kd.index \in 1..Len(f.insts[kd.block])
  <1> DEFINE kd == f.values[v].kind
  <1>1. Site(v, kd) \in DefSites(f)
    BY VerifiedFacts DEF UndefinedValue, InconsistentDefinition, DefinedAsClaimed
  <1>2. CASE \E i \in DOMAIN f.params : Site(v, kd) = Site(f.params[i].value, ParamKind(i))
    <2>1. PICK i \in DOMAIN f.params : Site(v, kd) = Site(f.params[i].value, ParamKind(i))
      BY <1>2
    <2>2. v = f.params[i].value /\ kd = ParamKind(i)
      BY <2>1 DEF Site
    <2> QED BY <2>2 DEF ParamKind
  <1>3. CASE \E b \in BlockIds(f) : \E i \in DOMAIN f.bparams[b] :
               Site(v, kd) = Site(f.bparams[b][i].value, BlockParamKind(b, i))
    <2>0. PICK b \in BlockIds(f) : \E i \in DOMAIN f.bparams[b] :
               Site(v, kd) = Site(f.bparams[b][i].value, BlockParamKind(b, i))
      BY <1>3
    <2>1. PICK i \in DOMAIN f.bparams[b] : Site(v, kd) = Site(f.bparams[b][i].value, BlockParamKind(b, i))
      BY <2>0
    <2>2. v = f.bparams[b][i].value /\ kd = BlockParamKind(b, i)
      BY <2>1 DEF Site
    <2> QED BY <2>2 DEF BlockParamKind
  <1>4. CASE \E b \in BlockIds(f) : \E i \in DOMAIN f.insts[b] :
               Site(v, kd) = Site(f.insts[b][i].result, InstKind(b, i))
    <2>0. PICK b \in BlockIds(f) : \E i \in DOMAIN f.insts[b] :
               Site(v, kd) = Site(f.insts[b][i].result, InstKind(b, i))
      BY <1>4
    <2>1. PICK i \in DOMAIN f.insts[b] : Site(v, kd) = Site(f.insts[b][i].result, InstKind(b, i))
      BY <2>0
    <2>2. v = f.insts[b][i].result /\ kd = InstKind(b, i)
      BY <2>1 DEF Site
    <2>3. i \in 1..Len(f.insts[b])
      BY FrameAssumption DEF WellFormed
    <2> QED BY <2>2, <2>3 DEF InstKind
  <1> QED BY <1>1, <1>2, <1>3, <1>4 DEF DefSites

\* The same of the result of an instruction alone.
LEMMA ResultPlace ==
    ASSUME NEW f \in Programs, Verified(f), NEW v \in Arena(f),
           f.values[v].kind.tag = "Inst"
    PROVE  LET kd == f.values[v].kind
           IN  /\ kd.block \in BlockIds(f) /\ kd.index \in DOMAIN f.insts[kd.block]
               /\ f.insts[kd.block][kd.index].result = v
               /\ kd.index \in Nat /\ 1 <= kd.index
  <1> DEFINE kd == f.values[v].kind
  <1>1. /\ kd.block \in BlockIds(f) /\ kd.index \in DOMAIN f.insts[kd.block]
        /\ f.insts[kd.block][kd.index].result = v
        /\ kd.index \in 1..Len(f.insts[kd.block])
    BY DefinedThere, Zenon
  <1>2. Len(f.insts[kd.block]) \in Nat
    BY <1>1, FrameAssumption DEF WellFormed
  <1> HIDE DEF kd
  <1>3. kd.index \in Nat /\ 1 <= kd.index
    BY <1>1, <1>2
  <1> USE DEF kd
  <1> QED BY <1>1, <1>3, Zenon

\* A use the verifier accepts is at no place that avoids its definition.
LEMMA UseNotAvoidable ==
    ASSUME NEW f \in Programs, Verified(f), NEW v \in Arena(f),
           NEW b \in BlockIds(f), Reachable(f, b), NEW p \in Nat,
           DominatedUse(f, v, b, p)
    PROVE  ~Avoidable(f, v, b, p)
  <1> DEFINE kd == f.values[v].kind
  <1> SUFFICES ASSUME Avoidable(f, v, b, p) PROVE FALSE
    OBVIOUS
  <1>1. kd.block \in BlockIds(f) /\ kd.tag \notin {"Param", "Reserved"}
    BY DefinedThere DEF Avoidable
  <1>2. PlaceOf(kd) \in Nat
    <2>1. CASE kd.tag = "Inst"
      <3>1. kd.index \in 1..Len(f.insts[kd.block])
        BY <2>1, <1>1, DefinedThere, FrameAssumption DEF WellFormed
      <3> QED BY <3>1, <2>1 DEF PlaceOf
    <2> QED BY <2>1 DEF PlaceOf
  <1>3. CASE kd.block = b
    <2>1. PlaceOf(kd) < p
      BY <1>1, <1>3 DEF DominatedUse, PlaceOf
    <2>2. ClosedAvoiding(f, {}, kd.block) \/ kd.block # Entry
      BY DEF ClosedAvoiding
    <2> DEFINE S == BlockIds(f) \ {kd.block}
    <2>3. CASE kd.block = Entry
      BY <1>2, <2>1, <2>2, <2>3, <1>3 DEF Avoidable
    <2>4. CASE kd.block # Entry
      <3>1. Entry \in BlockIds(f)
        BY FrameAssumption, <1>1 DEF WellFormed, BlockIds, Entry
      <3>2. ClosedAvoiding(f, S, kd.block)
        BY <3>1, <2>4 DEF ClosedAvoiding, Successors
      <3> QED BY <3>2, <1>2, <1>3, <2>1 DEF Avoidable
    <2> QED BY <2>3, <2>4
  <1>4. CASE kd.block # b
    BY <1>1, <1>4 DEF DominatedUse, StrictlyDominates, Avoidable
  <1> QED BY <1>3, <1>4

\* An edge of a verified function: its target exists and takes what the edge gives.
LEMMA EdgeFits ==
    ASSUME NEW f \in Programs, Verified(f), NEW b \in BlockIds(f),
           NEW e \in Range(f.terms[b].edges)
    PROVE  /\ e \in Edges(f) /\ e.to \in Successors(f, b) /\ e.to \in BlockIds(f)
           /\ e.args \in Seq(Nat) /\ Len(e.args) = Len(f.bparams[e.to])
           /\ DOMAIN e.args = 1..Len(e.args)
           /\ DOMAIN f.bparams[e.to] = 1..Len(e.args)
           /\ Range(e.args) \subseteq TermValues(f.terms[b])
  <1>0. f.terms[b] \in TermShape
    BY FrameAssumption, ElementOfSeq DEF WellFormed, BlockIds
  <1>1. f.terms[b].edges \in Seq(EdgeShape)
    BY <1>0 DEF TermShape
  <1>2. PICK n \in DOMAIN f.terms[b].edges : e = f.terms[b].edges[n]
    BY DEF Range
  <1>3. e \in EdgeShape
    BY <1>1, <1>2, ElementOfSeq
  <1>4. e \in Edges(f)
    BY DEF Edges
  <1>5. e.to \in BlockIds(f) /\ Len(e.args) = Len(f.bparams[e.to])
    BY <1>4, VerifiedFacts DEF UnknownBlock, BlockArgCountMismatch
  <1>6. f.bparams[e.to] \in Seq(ParamShape)
    BY <1>5, FrameAssumption DEF WellFormed
  <1>7. e.to \in Successors(f, b)
    BY <1>2, <1>5 DEF Successors
  <1>8. Range(e.args) \subseteq TermValues(f.terms[b])
    BY <1>2 DEF TermValues
  <1>9. e.args \in Seq(Nat)
    BY <1>3 DEF EdgeShape
  <1> QED BY <1>4, <1>5, <1>6, <1>7, <1>8, <1>9

\* The entry can be reached, and so can every successor of a block that can.
LEMMA ReachableStart ==
    ASSUME NEW f \in Programs, f.terms # <<>>
    PROVE  Entry \in BlockIds(f) /\ Reachable(f, Entry)
  BY FrameAssumption DEF WellFormed, BlockIds, Entry, Reachable, ClosedAvoiding

LEMMA ReachableStep ==
    ASSUME NEW f \in Programs, NEW b \in BlockIds(f), Reachable(f, b),
           NEW c \in Successors(f, b)
    PROVE  Reachable(f, c)
  <1>1. c \in BlockIds(f) /\ c # 0
    BY FrameAssumption DEF Successors, WellFormed, BlockIds
  <1> QED BY <1>1 DEF Reachable, ClosedAvoiding

\* At the start every value but the parameters of the function avoids its definition.
LEMMA AvoidableStart ==
    ASSUME NEW f \in Programs, Verified(f), f.terms # <<>>, NEW v \in Arena(f),
           f.values[v].kind.tag # "Param"
    PROVE  Avoidable(f, v, Entry, 1)
  <1> DEFINE kd == f.values[v].kind
  <1>1. kd.tag \in {"BlockParam", "Inst"}
    BY DefinedThere
  <1>2. CASE kd.block # Entry
    BY <1>1, <1>2 DEF Avoidable, ClosedAvoiding
  <1>3. CASE kd.block = Entry
    <2>1. f.bparams[Entry] = <<>>
      BY VerifiedFacts DEF EntryBlockWithParams
    <2>2. kd.tag = "BlockParam" => kd.index \in DOMAIN f.bparams[kd.block]
      BY DefinedThere
    <2>3. kd.tag = "Inst"
      BY <1>1, <1>3, <2>1, <2>2
    <2>4. 1 <= kd.index
      BY <2>3, ResultPlace, Zenon
    <2> QED BY <1>1, <1>3, <2>3, <2>4 DEF Avoidable, PlaceOf
  <1> QED BY <1>2, <1>3

\* Running an instruction passes the definition of its own result only.
LEMMA AvoidableNext ==
    ASSUME NEW f \in Programs, Verified(f), NEW v \in Arena(f), NEW b \in BlockIds(f),
           NEW p \in 1..Len(f.insts[b]), f.insts[b][p].result # v, Avoidable(f, v, b, p)
    PROVE  Avoidable(f, v, b, p + 1)
  <1> DEFINE kd == f.values[v].kind
  <1>1. CASE kd.block = b /\ p <= PlaceOf(kd)
    <2>0. kd.tag = "Inst"
      BY <1>1 DEF PlaceOf, Avoidable
    <2>1. kd.tag = "Inst" /\ kd.index \in DOMAIN f.insts[b] /\ f.insts[b][kd.index].result = v
      BY <1>1, <2>0, ResultPlace, Zenon
    <2>2. kd.index \in Nat
      BY <2>1, FrameAssumption DEF WellFormed
    <2>3. kd.index # p
      BY <2>1
    <2>4. p + 1 <= PlaceOf(kd)
      BY <1>1, <2>1, <2>2, <2>3 DEF PlaceOf
    <2> QED BY <1>1, <2>4 DEF Avoidable
  <1>2. CASE ~(kd.block = b /\ p <= PlaceOf(kd))
    BY <1>2 DEF Avoidable
  <1> QED BY <1>1, <1>2

\* Following an edge passes the definitions of the target's parameters only.
LEMMA AvoidableEdge ==
    ASSUME NEW f \in Programs, Verified(f), NEW v \in Arena(f), NEW b \in BlockIds(f),
           NEW e \in Range(f.terms[b].edges),
           Avoidable(f, v, b, Len(f.insts[b]) + 1),
           \A i \in DOMAIN f.bparams[e.to] : f.bparams[e.to][i].value # v
    PROVE  Avoidable(f, v, e.to, 1)
  <1> DEFINE kd == f.values[v].kind
  <1>0. e.to \in Successors(f, b) /\ e.to \in BlockIds(f)
    BY EdgeFits
  <1>1. kd.tag \in {"BlockParam", "Inst"} /\ kd.block \in BlockIds(f)
    BY DefinedThere DEF Avoidable
  <1>2. CASE kd.block = e.to
    <2>0. kd.tag = "BlockParam" => /\ kd.index \in DOMAIN f.bparams[kd.block]
                                   /\ f.bparams[kd.block][kd.index].value = v
      BY DefinedThere
    <2>1. kd.tag = "Inst"
      BY <1>1, <1>2, <2>0
    <2>2. 1 <= kd.index
      BY <2>1, ResultPlace, Zenon
    <2> QED BY <1>1, <1>2, <2>1, <2>2 DEF Avoidable, PlaceOf
  <1>3. CASE kd.block # e.to
    <2>1. ~(kd.block = b /\ Len(f.insts[b]) + 1 <= PlaceOf(kd))
      <3> SUFFICES ASSUME kd.block = b, Len(f.insts[b]) + 1 <= PlaceOf(kd) PROVE FALSE
        OBVIOUS
      <3>1. Len(f.insts[b]) \in Nat /\ DOMAIN f.insts[b] = 1..Len(f.insts[b])
        BY FrameAssumption DEF WellFormed
      <3>2. CASE kd.tag = "Inst"
        <4>1. kd.index \in 1..Len(f.insts[kd.block])
          BY <3>2, DefinedThere
        <4> QED BY <3>1, <3>2, <4>1 DEF PlaceOf
      <3>3. CASE kd.tag # "Inst"
        BY <3>1, <3>3 DEF PlaceOf
      <3> QED BY <3>2, <3>3
    <2>2. ASSUME NEW S \in SUBSET (BlockIds(f) \ {kd.block}), ClosedAvoiding(f, S, kd.block)
          PROVE  e.to \in S
      <3>1. b \in S
        BY <2>1, <2>2 DEF Avoidable
      <3> QED BY <3>1, <2>2, <1>0, <1>3 DEF ClosedAvoiding
    <2> QED BY <1>1, <2>2 DEF Avoidable
  <1> QED BY <1>2, <1>3

-----------------------------------------------------------------------------
(* The inductive invariant                                                 *)

Static ==
    /\ fn \in Programs /\ Verified(fn) /\ fn.terms # <<>>
    /\ mode \notin {"verified", "panicked"} => OperandsExist(fn)

SavedArguments ==
    /\ mode = "verified" => k = 1
    /\ mode = "prologue" =>
         \A v \in Arena(fn) : \A i \in DOMAIN fn.params :
           i < k /\ fn.params[i].value = v => slots[v] # Undef

\* While the body runs: a slot still unwritten is one the place avoids.
Running ==
    mode \in {"body", "stage", "commit"} =>
      /\ block \in BlockIds(fn) /\ Reachable(fn, block)
      /\ pos \in 1..Len(fn.insts[block]) + 1
      /\ \A v \in Arena(fn) : slots[v] = Undef => Avoidable(fn, v, block, pos)

\* While an edge is copied: what is copied already holds data.
Copying ==
    mode \in {"stage", "commit"} =>
      /\ pos = Len(fn.insts[block]) + 1
      /\ edge \in Range(fn.terms[block].edges)
      /\ \A i \in DOMAIN edge.args :
           /\ mode = "commit" \/ i < k => scratch[<<edge.to, i>>] # Undef
           /\ mode = "commit" /\ i < k =>
                \A v \in Arena(fn) : fn.bparams[edge.to][i].value = v => slots[v] # Undef

IInv == TypeOK /\ Static /\ SavedArguments /\ Running /\ Copying

\* Nothing the next step loads is unwritten.
LEMMA LoadsDefined == IInv => NoUninitializedLoad
  <1> SUFFICES ASSUME IInv, NEW v \in Loaded PROVE slots[v] # Undef
    BY DEF NoUninitializedLoad
  <1> USE DEF IInv
  <1>1. mode \in {"body", "stage"}
    BY DEF Loaded, AtTerm
  <1>2. /\ fn \in Programs /\ Verified(fn) /\ OperandsExist(fn)
        /\ block \in BlockIds(fn) /\ Reachable(fn, block)
        /\ pos \in 1..Len(fn.insts[block]) + 1
    BY <1>1 DEF Static, Running
  <1>3. Len(fn.insts[block]) \in Nat /\ DOMAIN fn.insts[block] = 1..Len(fn.insts[block])
    BY <1>2, FrameAssumption DEF WellFormed
  <1>4. v \in Arena(fn) /\ DominatedUse(fn, v, block, pos)
    <2>1. CASE mode = "body" /\ ~AtTerm
      <3>1. pos \in DOMAIN fn.insts[block] /\ v \in Range(fn.insts[block][pos].args)
        BY <2>1, <1>2, <1>3 DEF Loaded, AtTerm
      <3> QED BY <3>1, <1>2, VerifiedFacts DEF OperandsExist, UseNotDominated
    <2>2. CASE AtTerm
      <3>1. v \in TermValues(fn.terms[block]) /\ pos = Len(fn.insts[block]) + 1
        BY <2>2 DEF Loaded, AtTerm, Term, TermValues
      <3> QED BY <3>1, <1>2, VerifiedFacts DEF OperandsExist, UseNotDominated
    <2>3. CASE mode = "stage"
      <3>1. v \in TermValues(fn.terms[block]) /\ pos = Len(fn.insts[block]) + 1
        <4>1. edge \in Range(fn.terms[block].edges) /\ pos = Len(fn.insts[block]) + 1
          BY <2>3 DEF Copying
        <4>2. v = edge.args[k] /\ k \in DOMAIN edge.args
          BY <2>3 DEF Loaded, AtTerm, TypeOK
        <4>3. v \in Range(edge.args)
          BY <4>2 DEF Range
        <4>4. Range(edge.args) \subseteq TermValues(fn.terms[block])
          BY <4>1, <1>2, EdgeFits
        <4> QED BY <4>1, <4>3, <4>4
      <3> QED BY <3>1, <1>2, VerifiedFacts DEF OperandsExist, UseNotDominated
    <2> QED BY <1>1, <2>1, <2>2, <2>3
  <1>5. ~Avoidable(fn, v, block, pos)
    <2>1. pos \in Nat
      BY <1>2, <1>3
    <2> QED BY <1>2, <1>4, <2>1, UseNotAvoidable
  <1> QED BY <1>1, <1>4, <1>5 DEF Running

-----------------------------------------------------------------------------
(* The invariant holds at first and every action keeps it                  *)

LEMMA InitInv == Init => IInv
  <1> SUFFICES ASSUME Init PROVE IInv
    OBVIOUS
  <1>1. TypeOK
    BY FrameAssumption DEF Init, TypeOK, Contents
  <1> QED BY <1>1 DEF Init, IInv, Static, SavedArguments, Running, Copying

\* Storing data never makes a slot unwritten.
LEMMA StoreKeeps ==
    ASSUME TypeOK, NEW x, NEW d \in Contents, slots' = [slots EXCEPT ![x] = d], UNCHANGED fn
    PROVE  /\ slots' \in [Arena(fn') -> Contents]
           /\ \A v \in Arena(fn) : slots'[v] = IF v = x THEN d ELSE slots[v]
  BY DEF TypeOK

LEMMA LowerInv == ASSUME IInv, Lower PROVE IInv'
  <1> USE DEF IInv
  <1>1. TypeOK'
    BY DEF Lower, TypeOK, Contents
  <1>2. Static'
    BY DEF Lower, Static
  <1>3. SavedArguments'
    <2>1. k' = 1 /\ fn' = fn
      BY DEF Lower, SavedArguments
    <2>2. \A i \in DOMAIN fn.params : i \in Nat \ {0}
      BY FrameAssumption DEF Static, WellFormed
    <2> QED BY <2>1, <2>2 DEF SavedArguments, Lower
  <1> QED BY <1>1, <1>2, <1>3 DEF Lower, Running, Copying

LEMMA SaveArgumentInv == ASSUME IInv, SaveArgument PROVE IInv'
  <1> USE DEF IInv
  <1>1. PICK d \in Data : slots' = [slots EXCEPT ![fn.params[k].value] = d]
    BY DEF SaveArgument
  <1>2. /\ slots' \in [Arena(fn') -> Contents]
        /\ \A v \in Arena(fn) : slots'[v] = IF v = fn.params[k].value THEN d ELSE slots[v]
    BY <1>1, StoreKeeps DEF SaveArgument, Contents
  <1>3. TypeOK'
    BY <1>2 DEF SaveArgument, TypeOK
  <1>4. SavedArguments'
    <2>1. \A i \in DOMAIN fn.params : i \in Nat
      BY FrameAssumption DEF Static, WellFormed
    <2>2. k \in Nat /\ k' = k + 1 /\ fn' = fn /\ mode = "prologue" /\ mode' = mode
      BY DEF SaveArgument, TypeOK
    <2>3. d # Undef
      BY FrameAssumption
    <2> QED BY <1>2, <2>1, <2>2, <2>3 DEF SavedArguments
  <1> QED BY <1>3, <1>4 DEF SaveArgument, Static, Running, Copying

LEMMA EnterBodyInv == ASSUME IInv, EnterBody PROVE IInv'
  <1> USE DEF IInv
  <1>1. /\ fn \in Programs /\ Verified(fn) /\ fn.terms # <<>>
        /\ Entry \in BlockIds(fn) /\ Reachable(fn, Entry)
    BY ReachableStart DEF Static
  <1>2. TypeOK'
    BY <1>1 DEF EnterBody, EnterBlock, TypeOK, Entry
  <1>3. ASSUME NEW v \in Arena(fn), slots[v] = Undef
        PROVE  Avoidable(fn, v, Entry, 1)
    <2> DEFINE kd == fn.values[v].kind
    <2>1. kd.tag = "Param" => kd.index \in DOMAIN fn.params /\ fn.params[kd.index].value = v
      BY <1>1, DefinedThere
    <2>2. \A i \in DOMAIN fn.params : i < k
      BY <1>1, FrameAssumption DEF EnterBody, WellFormed, TypeOK
    <2>3. kd.tag # "Param"
      BY <1>3, <2>1, <2>2 DEF EnterBody, SavedArguments
    <2> QED BY <1>1, <2>3, AvoidableStart
  <1>4. Running'
    <2>1. 1 \in 1..Len(fn.insts[Entry]) + 1
      BY <1>1, FrameAssumption DEF WellFormed
    <2> QED BY <1>1, <1>3, <2>1 DEF Running, EnterBody, EnterBlock
  <1> QED BY <1>2, <1>4 DEF EnterBody, EnterBlock, Static, SavedArguments, Copying

LEMMA InstrInv == ASSUME IInv, Instr PROVE IInv'
  <1> USE DEF IInv
  <1> DEFINE r == fn.insts[block][pos].result
  <1>1. /\ fn \in Programs /\ Verified(fn) /\ block \in BlockIds(fn)
        /\ Len(fn.insts[block]) \in Nat /\ pos \in 1..Len(fn.insts[block])
        /\ mode = "body" /\ mode' = mode /\ fn' = fn /\ block' = block /\ pos' = pos + 1
    BY FrameAssumption DEF Instr, Static, Running, WellFormed
  <1>2. /\ slots' \in [Arena(fn') -> Contents]
        /\ \A v \in Arena(fn) : slots'[v] = Undef => slots[v] = Undef /\ v # r
    <2>1. CASE r = NoValue
      <3>1. NoValue \notin Arena(fn)
        BY <1>1, FrameAssumption DEF WellFormed, Arena, NoValue
      <3> QED BY <2>1, <3>1 DEF Instr, TypeOK
    <2>2. CASE r # NoValue
      <3>1. PICK d \in Data : slots' = [slots EXCEPT ![r] = d]
        BY <2>2 DEF Instr
      <3>2. d # Undef
        BY FrameAssumption
      <3> QED BY <1>1, <3>1, <3>2, StoreKeeps DEF Contents
    <2> QED BY <2>1, <2>2
  <1>3. TypeOK'
    BY <1>1, <1>2 DEF Instr, TypeOK
  <1>4. Running'
    <2>1. \A v \in Arena(fn) : slots'[v] = Undef => Avoidable(fn, v, block, pos + 1)
      BY <1>1, <1>2, AvoidableNext DEF Running
    <2>2. pos + 1 \in 1..Len(fn.insts[block]) + 1
      BY <1>1
    <2> QED BY <1>1, <2>1, <2>2 DEF Running
  <1> QED BY <1>1, <1>3, <1>4 DEF Instr, Static, SavedArguments, Copying

\* Arriving at the target of an edge whose parameters have all been stored.
LEMMA ArriveInv ==
    ASSUME IInv, mode \in {"body", "commit"}, pos = Len(fn.insts[block]) + 1,
           NEW e \in Range(fn.terms[block].edges), EnterBlock(e.to),
           fn' = fn, scratch' = scratch, slots' \in [Arena(fn) -> Contents],
           \A v \in Arena(fn) : slots'[v] = Undef =>
             /\ slots[v] = Undef
             /\ \A i \in DOMAIN fn.bparams[e.to] : fn.bparams[e.to][i].value # v
    PROVE  IInv'
  <1> USE DEF IInv
  <1>1. /\ fn \in Programs /\ Verified(fn) /\ block \in BlockIds(fn) /\ Reachable(fn, block)
        /\ e.to \in BlockIds(fn) /\ e.to \in Successors(fn, block)
    BY EdgeFits DEF Static, Running
  <1>2. Reachable(fn, e.to)
    BY <1>1, ReachableStep
  <1>3. TypeOK'
    BY <1>1 DEF EnterBlock, TypeOK
  <1>4. \A v \in Arena(fn) : slots'[v] = Undef => Avoidable(fn, v, e.to, 1)
    BY <1>1, AvoidableEdge DEF Running
  <1>5. 1 \in 1..Len(fn.insts[e.to]) + 1
    BY <1>1, FrameAssumption DEF WellFormed
  <1>6. Running'
    BY <1>1, <1>2, <1>4, <1>5 DEF Running, EnterBlock
  <1> QED BY <1>3, <1>6 DEF EnterBlock, Static, SavedArguments, Copying

LEMMA TakeEdgeInv ==
    ASSUME IInv, AtTerm, NEW e \in Range(Term.edges), TakeEdge(e)
    PROVE  IInv'
  <1> USE DEF IInv
  <1>1. /\ fn \in Programs /\ Verified(fn) /\ block \in BlockIds(fn)
        /\ e \in Range(fn.terms[block].edges) /\ mode = "body"
        /\ pos = Len(fn.insts[block]) + 1
        /\ fn' = fn /\ slots' = slots /\ scratch' = scratch
    BY DEF AtTerm, Term, TakeEdge, Static, Running
  <1>2. /\ e \in Edges(fn) /\ DOMAIN e.args = 1..Len(e.args) /\ e.args \in Seq(Nat)
        /\ DOMAIN fn.bparams[e.to] = 1..Len(e.args)
    BY <1>1, EdgeFits
  <1>3. CASE e.args = <<>>
    <2>1. EnterBlock(e.to)
      BY <1>3 DEF TakeEdge
    <2>2. DOMAIN fn.bparams[e.to] = {}
      BY <1>2, <1>3
    <2>3. slots' \in [Arena(fn) -> Contents]
      BY <1>1 DEF TypeOK
    <2> QED BY <1>1, <2>1, <2>2, <2>3, ArriveInv
  <1>4. CASE e.args # <<>>
    <2>1. /\ mode' = "stage" /\ edge' = e /\ k' = 1 /\ block' = block /\ pos' = pos
      BY <1>4 DEF TakeEdge
    <2>2. 1 \in DOMAIN e.args /\ \A i \in DOMAIN e.args : ~(i < 1)
      BY <1>2, <1>4
    <2>3. TypeOK'
      BY <1>1, <1>2, <2>1, <2>2 DEF TypeOK
    <2> QED BY <1>1, <2>1, <2>2, <2>3 DEF Static, SavedArguments, Running, Copying
  <1> QED BY <1>3, <1>4

LEMMA TermInv == ASSUME IInv, Jump \/ Branch \/ Leave PROVE IInv'
  <1> USE DEF IInv
  <1>1. CASE Leave
    <2>1. TypeOK'
      BY <1>1 DEF Leave, TypeOK
    <2> QED BY <1>1, <2>1 DEF Leave, AtTerm, Static, SavedArguments, Running, Copying
  <1>2. CASE Jump \/ Branch
    <2>1. /\ AtTerm /\ block \in BlockIds(fn) /\ fn \in Programs
      BY <1>2 DEF Jump, Branch, AtTerm, Running, Static
    <2>2. Term \in TermShape /\ Term.edges \in Seq(EdgeShape)
      <3>1. fn.terms[block] \in TermShape
        BY <2>1, FrameAssumption, ElementOfSeq DEF WellFormed, BlockIds
      <3> QED BY <3>1 DEF Term, TermShape
    <2>3. CASE Jump
      <3>1. Len(Term.edges) = 1
        BY <2>1, <2>3, FrameAssumption DEF WellFormed, Jump, Term
      <3>2. Term.edges[1] \in Range(Term.edges)
        BY <2>2, <3>1 DEF Range
      <3> QED BY <2>1, <2>3, <3>2, TakeEdgeInv DEF Jump
    <2>4. CASE Branch
      <3>1. Len(Term.edges) = 2
        BY <2>1, <2>4, FrameAssumption DEF WellFormed, Branch, Term
      <3>2. PICK n \in {1, 2} : TakeEdge(Term.edges[n])
        BY <2>4 DEF Branch, Selected
      <3>3. Term.edges[n] \in Range(Term.edges)
        BY <2>2, <3>1 DEF Range
      <3> QED BY <2>1, <3>2, <3>3, TakeEdgeInv
    <2> QED BY <1>2, <2>3, <2>4
  <1> QED BY <1>1, <1>2

\* The facts both copy loops rely on.
LEMMA CopyFacts ==
    ASSUME IInv, mode \in {"stage", "commit"}
    PROVE  /\ fn \in Programs /\ Verified(fn) /\ OperandsExist(fn) /\ block \in BlockIds(fn)
           /\ edge \in Range(fn.terms[block].edges) /\ edge.to \in BlockIds(fn)
           /\ Len(edge.args) \in Nat /\ DOMAIN edge.args = 1..Len(edge.args)
           /\ DOMAIN fn.bparams[edge.to] = 1..Len(edge.args)
           /\ k \in 1..Len(edge.args)
           /\ \A i \in DOMAIN edge.args : edge.args[i] \in Arena(fn)
           /\ \A i \in DOMAIN edge.args : <<edge.to, i>> \in ScratchSlots(fn)
  <1> USE DEF IInv
  <1>1. /\ fn \in Programs /\ Verified(fn) /\ OperandsExist(fn) /\ block \in BlockIds(fn)
        /\ edge \in Range(fn.terms[block].edges) /\ k \in DOMAIN edge.args
    BY DEF Static, Running, Copying, TypeOK
  <1>2. /\ edge.to \in BlockIds(fn) /\ edge.args \in Seq(Nat)
        /\ DOMAIN edge.args = 1..Len(edge.args)
        /\ DOMAIN fn.bparams[edge.to] = 1..Len(edge.args)
        /\ Range(edge.args) \subseteq TermValues(fn.terms[block])
    BY <1>1, EdgeFits
  <1>3. \A i \in DOMAIN edge.args : edge.args[i] \in Arena(fn)
    BY <1>1, <1>2 DEF OperandsExist, Range
  <1>4. \A i \in DOMAIN edge.args : <<edge.to, i>> \in ScratchSlots(fn)
    BY <1>2 DEF ScratchSlots
  <1> QED BY <1>1, <1>2, <1>3, <1>4

LEMMA StageInv == ASSUME IInv, Stage PROVE IInv'
  <1> USE DEF IInv
  <1>1. mode = "stage"
    BY DEF Stage
  <1>2. slots[edge.args[k]] \in Contents \ {Undef}
    <2>1. edge.args[k] \in Loaded
      BY <1>1 DEF Loaded, AtTerm
    <2> QED BY <1>1, <2>1, LoadsDefined, CopyFacts DEF NoUninitializedLoad, TypeOK
  <1>3. /\ scratch' \in [ScratchSlots(fn') -> Contents]
        /\ \A i \in DOMAIN edge.args :
             (i < k \/ i = k) => scratch'[<<edge.to, i>>] # Undef
    BY <1>1, <1>2, CopyFacts DEF Stage, TypeOK, Copying
  <1>4. fn' = fn /\ slots' = slots /\ block' = block /\ pos' = pos /\ edge' = edge
    BY DEF Stage
  <1>5. CASE CopiedAll
    <2>1. mode' = "commit" /\ k' = 1 /\ k = Len(edge.args)
      BY <1>5 DEF Stage, CopiedAll
    <2>2. TypeOK'
      BY <1>1, <1>3, <1>4, <2>1, CopyFacts DEF TypeOK
    <2>3. Copying'
      BY <1>1, <1>3, <1>4, <2>1, CopyFacts DEF Copying
    <2> QED BY <1>1, <1>4, <2>1, <2>2, <2>3 DEF Static, SavedArguments, Running
  <1>6. CASE ~CopiedAll
    <2>1. mode' = "stage" /\ k' = k + 1 /\ k # Len(edge.args)
      BY <1>1, <1>6 DEF Stage, CopiedAll
    <2>2. TypeOK'
      BY <1>1, <1>3, <1>4, <2>1, CopyFacts DEF TypeOK
    <2>3. Copying'
      BY <1>1, <1>3, <1>4, <2>1, CopyFacts DEF Copying
    <2> QED BY <1>1, <1>4, <2>1, <2>2, <2>3 DEF Static, SavedArguments, Running
  <1> QED BY <1>5, <1>6

LEMMA CommitInv == ASSUME IInv, Commit PROVE IInv'
  <1> USE DEF IInv
  <1> DEFINE x == fn.bparams[edge.to][k].value
  <1>1. mode = "commit"
    BY DEF Commit
  <1>2. Staged(k) \in Contents \ {Undef}
    BY <1>1, CopyFacts DEF Staged, Copying, TypeOK
  <1>3. /\ slots' \in [Arena(fn) -> Contents] /\ fn' = fn /\ scratch' = scratch
        /\ \A v \in Arena(fn) : slots'[v] = IF v = x THEN Staged(k) ELSE slots[v]
    BY <1>2, StoreKeeps DEF Commit
  <1>4. \A v \in Arena(fn) : slots'[v] = Undef =>
          /\ slots[v] = Undef
          /\ \A i \in DOMAIN edge.args : i < k \/ i = k => fn.bparams[edge.to][i].value # v
    BY <1>1, <1>2, <1>3 DEF Copying
  <1>5. CASE CopiedAll
    <2>1. EnterBlock(edge.to) /\ k = Len(edge.args)
      BY <1>5 DEF Commit, CopiedAll
    <2>2. \A i \in DOMAIN fn.bparams[edge.to] : i \in DOMAIN edge.args /\ (i < k \/ i = k)
      BY <1>1, <2>1, CopyFacts
    <2> QED BY <1>1, <1>3, <1>4, <2>1, <2>2, CopyFacts, ArriveInv DEF Copying
  <1>6. CASE ~CopiedAll
    <2>1. /\ mode' = "commit" /\ k' = k + 1 /\ k # Len(edge.args)
          /\ block' = block /\ pos' = pos /\ edge' = edge
      BY <1>1, <1>6 DEF Commit, CopiedAll
    <2>2. TypeOK'
      BY <1>1, <1>3, <2>1, CopyFacts DEF TypeOK
    <2>3. Copying'
      BY <1>1, <1>3, <1>4, <2>1, CopyFacts DEF Copying
    <2>4. Running'
      BY <1>1, <1>3, <1>4, <2>1 DEF Running
    <2> QED BY <1>1, <1>3, <2>1, <2>2, <2>3, <2>4 DEF Static, SavedArguments
  <1> QED BY <1>5, <1>6

LEMMA StutterInv == ASSUME IInv, UNCHANGED vars PROVE IInv'
  BY DEF vars, IInv, TypeOK, Static, SavedArguments, Running, Copying, NoEdge

-----------------------------------------------------------------------------
LEMMA NextInv == IInv /\ [Next]_vars => IInv'
  BY LowerInv, SaveArgumentInv, EnterBodyInv, InstrInv, TermInv, StageInv, CommitInv,
     StutterInv DEF Next, Ended

LEMMA Invariance == Spec => []IInv
  BY InitInv, NextInv, PTL DEF Spec

\* The variables keep their types, and a copy loop stays within its edge's arguments, for
\* every set of well-formed functions.
THEOREM FrameTypes == Spec => []TypeOK
  <1>1. IInv => TypeOK
    BY DEF IInv
  <1> QED BY <1>1, Invariance, PTL

\* The code of every verified function, whatever its graph, loads only slots that hold
\* data: the dominance check is strong enough for a backend that never clears its frame.
THEOREM NoGarbageIsRead == Spec => []NoUninitializedLoad
  BY LoadsDefined, Invariance, PTL

-----------------------------------------------------------------------------
(* Ssa judges functions by definitions of its own instance of Verify.      *)

\* Both instances read a function alike.
LEMMA SameReading ==
    ASSUME NEW f
    PROVE  /\ Abstract!Arena(f) = Arena(f) /\ Abstract!BlockIds(f) = BlockIds(f)
           /\ \A t : Abstract!TermValues(t) = TermValues(t)
           /\ \A b : Abstract!Successors(f, b) = Successors(f, b)
           /\ Abstract!Edges(f) = Edges(f)
           /\ Abstract!DefSites(f) = DefSites(f)
  <1>1. Abstract!Arena(f) = Arena(f) /\ Abstract!BlockIds(f) = BlockIds(f)
    BY DEF Abstract!Arena, Arena, Abstract!BlockIds, BlockIds
  <1>2. \A t : Abstract!TermValues(t) = TermValues(t)
    BY Zenon DEF Abstract!TermValues, TermValues, Abstract!Range, Range
  <1>3. \A b : Abstract!Successors(f, b) = Successors(f, b)
    BY <1>1 DEF Abstract!Successors, Successors
  <1>4. Abstract!Edges(f) = Edges(f)
    BY <1>1, Zenon DEF Abstract!Edges, Edges, Abstract!Range, Range
  <1>5. Abstract!DefSites(f) = DefSites(f)
    BY DEF Abstract!DefSites, DefSites, Abstract!Site, Site, Abstract!ParamKind, ParamKind,
           Abstract!BlockParamKind, BlockParamKind, Abstract!InstKind, InstKind,
           Abstract!BlockIds, BlockIds, Abstract!Arena, Arena
  <1> QED BY <1>1, <1>2, <1>3, <1>4, <1>5

\* Reachability and dominance are alike.
LEMMA SameDominance ==
    ASSUME NEW f
    PROVE  /\ \A d, b : Abstract!StrictlyDominates(f, d, b) <=> StrictlyDominates(f, d, b)
           /\ \A b : Abstract!Reachable(f, b) <=> Reachable(f, b)
           /\ \A v, b, p : Abstract!DominatedUse(f, v, b, p) <=> DominatedUse(f, v, b, p)
  <1>1. \A S, d : Abstract!ClosedAvoiding(f, S, d) <=> ClosedAvoiding(f, S, d)
    BY SameReading DEF Abstract!ClosedAvoiding, ClosedAvoiding, Abstract!Entry, Entry
  <1>2. \A d, b : Abstract!StrictlyDominates(f, d, b) <=> StrictlyDominates(f, d, b)
    BY <1>1, SameReading DEF Abstract!StrictlyDominates, StrictlyDominates
  <1>3. \A b : Abstract!Reachable(f, b) <=> Reachable(f, b)
    BY <1>1, SameReading DEF Abstract!Reachable, Reachable
  <1>4. \A v, b, p : Abstract!DominatedUse(f, v, b, p) <=> DominatedUse(f, v, b, p)
    BY <1>2, <1>3, SameReading DEF Abstract!DominatedUse, DominatedUse
  <1> QED BY <1>2, <1>3, <1>4

\* So is every kind of error.
LEMMA SameErrors ==
    ASSUME NEW f
    PROVE  /\ Abstract!InvalidDeclaration(f) <=> InvalidDeclaration(f)
           /\ Abstract!VariadicDefinition(f) <=> VariadicDefinition(f)
           /\ Abstract!InvalidSignature(f) <=> InvalidSignature(f)
           /\ Abstract!ValueRedefined(f) <=> ValueRedefined(f)
           /\ Abstract!UnknownResult(f) <=> UnknownResult(f)
           /\ Abstract!UnknownOperand(f) <=> UnknownOperand(f)
           /\ Abstract!UndefinedValue(f) <=> UndefinedValue(f)
           /\ Abstract!InconsistentDefinition(f) <=> InconsistentDefinition(f)
           /\ Abstract!EntryBlockWithParams(f) <=> EntryBlockWithParams(f)
           /\ Abstract!MissingTerminator(f) <=> MissingTerminator(f)
           /\ Abstract!TypeError(f) <=> TypeError(f)
           /\ Abstract!UnknownBlock(f) <=> UnknownBlock(f)
           /\ Abstract!BlockArgCountMismatch(f) <=> BlockArgCountMismatch(f)
           /\ Abstract!BlockArgTypeMismatch(f) <=> BlockArgTypeMismatch(f)
           /\ Abstract!ConditionNotI1(f) <=> ConditionNotI1(f)
           /\ Abstract!ReturnMismatch(f) <=> ReturnMismatch(f)
           /\ Abstract!UseNotDominated(f) <=> UseNotDominated(f)
  <1>1. Abstract!InvalidDeclaration(f) <=> InvalidDeclaration(f)
    BY DEF Abstract!InvalidDeclaration, InvalidDeclaration
  <1>2. Abstract!VariadicDefinition(f) <=> VariadicDefinition(f)
    BY DEF Abstract!VariadicDefinition, VariadicDefinition
  <1>3. Abstract!InvalidSignature(f) <=> InvalidSignature(f)
    BY SameReading DEF Abstract!InvalidSignature, InvalidSignature
  <1>4. Abstract!ValueRedefined(f) <=> ValueRedefined(f)
    BY SameReading DEF Abstract!ValueRedefined, ValueRedefined
  <1>5. Abstract!UnknownResult(f) <=> UnknownResult(f)
    BY SameReading DEF Abstract!UnknownResult, UnknownResult, Abstract!NoValue, NoValue
  <1>6. Abstract!UnknownOperand(f) <=> UnknownOperand(f)
    BY SameReading DEF Abstract!UnknownOperand, UnknownOperand, Abstract!Range, Range
  <1>7. Abstract!UndefinedValue(f) <=> UndefinedValue(f)
    BY SameReading DEF Abstract!UndefinedValue, UndefinedValue, Abstract!Reserved, Reserved
  <1>8. Abstract!InconsistentDefinition(f) <=> InconsistentDefinition(f)
    <2>1. \A v : Abstract!DefinedAsClaimed(f, v) <=> DefinedAsClaimed(f, v)
      BY SameReading, Zenon DEF Abstract!DefinedAsClaimed, DefinedAsClaimed, Abstract!Site, Site
    <2> QED BY <2>1, SameReading
          DEF Abstract!InconsistentDefinition, InconsistentDefinition, Abstract!Reserved, Reserved
  <1>9. Abstract!EntryBlockWithParams(f) <=> EntryBlockWithParams(f)
    BY DEF Abstract!EntryBlockWithParams, EntryBlockWithParams, Abstract!Entry, Entry
  <1>10. Abstract!MissingTerminator(f) <=> MissingTerminator(f)
    BY SameReading DEF Abstract!MissingTerminator, MissingTerminator
  <1>11. Abstract!TypeError(f) <=> TypeError(f)
    <2>1. \A inst : Abstract!IllTyped(f, inst) <=> IllTyped(f, inst)
      BY SameReading, Zenon DEF Abstract!IllTyped, IllTyped, Abstract!NoValue, NoValue
    <2> QED BY <2>1, SameReading DEF Abstract!TypeError, TypeError
  <1>12. Abstract!UnknownBlock(f) <=> UnknownBlock(f)
    BY SameReading DEF Abstract!UnknownBlock, UnknownBlock
  <1>13. Abstract!BlockArgCountMismatch(f) <=> BlockArgCountMismatch(f)
    BY SameReading DEF Abstract!BlockArgCountMismatch, BlockArgCountMismatch
  <1>14. Abstract!BlockArgTypeMismatch(f) <=> BlockArgTypeMismatch(f)
    BY SameReading DEF Abstract!BlockArgTypeMismatch, BlockArgTypeMismatch
  <1>15. Abstract!ConditionNotI1(f) <=> ConditionNotI1(f)
    BY SameReading DEF Abstract!ConditionNotI1, ConditionNotI1, Abstract!Range, Range
  <1>16. Abstract!ReturnMismatch(f) <=> ReturnMismatch(f)
    BY SameReading DEF Abstract!ReturnMismatch, ReturnMismatch, Abstract!Range, Range
  <1>17. Abstract!UseNotDominated(f) <=> UseNotDominated(f)
    BY SameReading, SameDominance DEF Abstract!UseNotDominated, UseNotDominated, Abstract!Range, Range
  <1> QED BY <1>1, <1>2, <1>3, <1>4, <1>5, <1>6, <1>7, <1>8, <1>9, <1>10, <1>11, <1>12, <1>13,
             <1>14, <1>15, <1>16, <1>17

\* A function that was lowered is one that Ssa runs.
LEMMA SameVerdict == ASSUME NEW f PROVE Abstract!Verified(f) <=> Verified(f)
  BY SameErrors, Zenon
     DEF Abstract!Verified, Verified, Abstract!Errors, Errors, Abstract!ErrorKinds, ErrorKinds

-----------------------------------------------------------------------------
(* The invariant of the simulation                                         *)

\* Before the body runs, only arguments have been stored.
Blanks ==
    /\ mode \in {"verified", "panicked", "prologue"} => block = 0 /\ pos = 0
    /\ mode \in {"verified", "panicked"} => \A v \in Arena(fn) : slots[v] = Undef
    /\ mode = "prologue" =>
         \A v \in Arena(fn) : slots[v] # Undef => v \in DOMAIN fn.params /\ v < k

\* The edge Ssa follows from here, and what has been staged of it.
Chosen(e) ==
    \/ Term.tag = "Jump" /\ e = Term.edges[1]
    \/ /\ Term.tag = "Branch" /\ slots[Term.uses[1]] # Undef
       /\ e = Term.edges[IF slots[Term.uses[1]] # Zero THEN 1 ELSE 2]

Following ==
    mode = "stage" =>
      /\ Chosen(edge)
      /\ \A i \in DOMAIN edge.args : i < k => scratch[<<edge.to, i>>] = slots[edge.args[i]]

RInv == IInv /\ Blanks /\ Following

\* Function parameters are the first values.
LEMMA ParamsAreFirst ==
    ASSUME NEW f \in Programs, Verified(f)
    PROVE  /\ DOMAIN f.params = 1..Len(f.params) /\ Len(f.params) \in Nat
           /\ \A i \in DOMAIN f.params : f.params[i].value = i /\ i \in Arena(f)
  <1>1. WellFormed(f)
    BY FrameAssumption
  <1>2. f.params \in Seq(ParamShape) /\ Len(f.values) \in Nat /\ Arena(f) = 1..Len(f.values)
    BY <1>1 DEF WellFormed, Arena
  <1>3. ~InvalidSignature(f) /\ ~InconsistentDefinition(f)
    BY DEF Verified, Errors, ErrorKinds
  <1>4. Len(f.params) <= Len(f.values)
    BY <1>2, <1>3 DEF InvalidSignature
  <1>5. \A i \in DOMAIN f.params : f.params[i].value = i
    BY <1>3 DEF InconsistentDefinition
  <1> QED BY <1>2, <1>4, <1>5

\* No two parameters of a block are the same value.
LEMMA ParamsDiffer ==
    ASSUME NEW f, Verified(f), NEW b \in BlockIds(f),
           NEW i \in DOMAIN f.bparams[b], NEW j \in DOMAIN f.bparams[b],
           f.bparams[b][i].value = f.bparams[b][j].value
    PROVE  i = j
  <1>1. ~ValueRedefined(f)
    BY DEF Verified, Errors, ErrorKinds
  <1> DEFINE s(n) == Site(f.bparams[b][n].value, BlockParamKind(b, n))
  <1>2. s(i) \in DefSites(f) /\ s(j) \in DefSites(f)
    BY DEF DefSites
  <1>3. s(i) = s(j)
    BY <1>1, <1>2 DEF ValueRedefined, Site
  <1> QED BY <1>3 DEF Site, BlockParamKind

\* A condition holds data, so the edge taken is the one it selects.
LEMMA ChosenEdge ==
    ASSUME IInv, AtTerm, Jump \/ Branch
    PROVE  \E e \in Range(Term.edges) : Chosen(e) /\ TakeEdge(e)
  <1>1. fn \in Programs /\ block \in BlockIds(fn)
    BY DEF IInv, Static, Running, AtTerm
  <1>2. /\ Term.uses \in Seq(Nat) /\ Term.edges \in Seq(EdgeShape)
        /\ Jump => Len(Term.edges) = 1
        /\ Branch => Len(Term.edges) = 2 /\ Len(Term.uses) = 1
    <2>1. fn.terms[block] \in TermShape
      BY <1>1, FrameAssumption, ElementOfSeq DEF WellFormed, BlockIds
    <2> QED BY <1>1, <2>1, FrameAssumption DEF Term, TermShape, WellFormed, Jump, Branch
  <1>3. CASE Jump
    <2>1. Term.edges[1] \in Range(Term.edges)
      BY <1>2, <1>3 DEF Range
    <2> QED BY <1>3, <2>1 DEF Jump, Chosen
  <1>4. CASE Branch
    <2> DEFINE c == Term.uses[1]
    <2>1. c \in Loaded
      <3>1. Loaded = Range(Term.uses)
        BY DEF Loaded, AtTerm
      <3>2. c \in Range(Term.uses)
        BY <1>2, <1>4 DEF Range
      <3> QED BY <3>1, <3>2
    <2>2. slots[c] # Undef
      BY <2>1, LoadsDefined DEF NoUninitializedLoad
    <2>3. PICK n \in Selected(c) : TakeEdge(Term.edges[n])
      BY <1>4 DEF Branch
    <2>4. n = IF slots[c] # Zero THEN 1 ELSE 2
      BY <2>2, <2>3 DEF Selected
    <2>5. Chosen(Term.edges[n])
      BY <2>2, <2>4, <1>4 DEF Chosen, Branch
    <2>6. Term.edges[n] \in Range(Term.edges)
      BY <1>2, <1>4, <2>4 DEF Range
    <2> QED BY <2>3, <2>5, <2>6
  <1> QED BY <1>3, <1>4

\* It holds at first.
LEMMA RInvInit == Init => RInv
  <1> SUFFICES ASSUME Init PROVE RInv
    OBVIOUS
  <1> QED BY InitInv DEF Init, RInv, Blanks, Following

\* Every action keeps it.
LEMMA RInvNext == ASSUME RInv, [Next]_vars PROVE RInv'
  <1>0. IInv'
    BY NextInv DEF RInv
  <1> USE DEF RInv
  <1>1. CASE Lower
    <2>1. k = 1
      BY <1>1 DEF Lower, IInv, SavedArguments
    <2> QED BY <1>0, <1>1, <2>1 DEF Lower, Blanks, Following
  <1>2. CASE SaveArgument
    <2>1. /\ fn \in Programs /\ Verified(fn) /\ k \in Nat
          /\ mode = "prologue" /\ k \in DOMAIN fn.params /\ fn.params[k].value = k
      <3>1. fn \in Programs /\ Verified(fn) /\ k \in Nat \ {0}
        BY DEF IInv, Static, TypeOK
      <3> QED BY <3>1, <1>2, ParamsAreFirst DEF SaveArgument
    <2>2. \A v \in Arena(fn) : v # k => slots'[v] = slots[v]
      BY <1>2, <2>1 DEF SaveArgument, IInv, TypeOK
    <2>3. \A v \in DOMAIN fn.params : v \in Nat
      BY <2>1, ParamsAreFirst
    <2>4. \A v \in Arena(fn) : slots'[v] # Undef => v \in DOMAIN fn.params /\ v < k + 1
      BY <2>1, <2>2, <2>3 DEF Blanks
    <2> QED BY <1>0, <1>2, <2>4 DEF SaveArgument, Blanks, Following
  <1>3. CASE EnterBody
    BY <1>0, <1>3 DEF EnterBody, EnterBlock, Blanks, Following
  <1>4. CASE Instr
    BY <1>0, <1>4 DEF Instr, Blanks, Following
  <1>5. CASE Jump \/ Branch
    <2>1. AtTerm /\ mode = "body"
      BY <1>5 DEF Jump, Branch, AtTerm
    <2>2. PICK e \in Range(Term.edges) : Chosen(e) /\ TakeEdge(e)
      BY <1>5, <2>1, ChosenEdge
    <2>3. CASE e.args = <<>>
      BY <1>0, <2>2, <2>3 DEF TakeEdge, EnterBlock, Blanks, Following
    <2>4. CASE e.args # <<>>
      <3>1. /\ mode' = "stage" /\ edge' = e /\ k' = 1
            /\ fn' = fn /\ slots' = slots /\ block' = block
        BY <2>2, <2>4 DEF TakeEdge
      <3>2. Chosen(edge)'
        BY <2>2, <3>1 DEF Chosen, Term
      <3>3. \A i \in DOMAIN e.args : ~(i < 1)
        <4>1. /\ fn \in Programs /\ Verified(fn) /\ block \in BlockIds(fn)
              /\ e \in Range(fn.terms[block].edges)
          BY <2>1, <2>2 DEF IInv, Static, Running, Term
        <4> QED BY <4>1, EdgeFits
      <3> QED BY <1>0, <3>1, <3>2, <3>3 DEF Blanks, Following
    <2> QED BY <2>3, <2>4
  <1>6. CASE Leave
    BY <1>0, <1>6 DEF Leave, Blanks, Following
  <1>7. CASE Stage
    <2>1. mode = "stage" /\ Chosen(edge)
      BY <1>7 DEF Stage, Following
    <2>2. CASE CopiedAll
      BY <1>0, <1>7, <2>2 DEF Stage, Blanks, Following
    <2>3. CASE ~CopiedAll
      <3>1. /\ mode' = "stage" /\ k' = k + 1 /\ edge' = edge
            /\ fn' = fn /\ slots' = slots /\ block' = block
            /\ scratch' = [scratch EXCEPT ![<<edge.to, k>>] = slots[edge.args[k]]]
        BY <1>7, <2>1, <2>3 DEF Stage
      <3>2. Chosen(edge)'
        BY <2>1, <3>1 DEF Chosen, Term
      <3>3. \A i \in DOMAIN edge.args :
              i < k + 1 => scratch'[<<edge.to, i>>] = slots[edge.args[i]]
        <4>1. k \in Nat /\ \A i \in DOMAIN edge.args : i \in Nat
          BY <2>1, CopyFacts
        <4>2. \A i \in DOMAIN edge.args : <<edge.to, i>> \in DOMAIN scratch
          BY <2>1, CopyFacts DEF IInv, TypeOK
        <4>3. ASSUME NEW i \in DOMAIN edge.args, i < k + 1
              PROVE  scratch'[<<edge.to, i>>] = slots[edge.args[i]]
          <5>1. CASE i = k
            BY <3>1, <4>2, <5>1
          <5>2. CASE i # k
            <6>1. i < k /\ scratch[<<edge.to, i>>] = slots[edge.args[i]]
              BY <2>1, <4>1, <4>3, <5>2 DEF Following
            <6> QED BY <3>1, <4>2, <5>2, <6>1
          <5> QED BY <5>1, <5>2
        <4> QED BY <4>3
      <3> QED BY <1>0, <3>1, <3>2, <3>3 DEF Blanks, Following
    <2> QED BY <2>2, <2>3
  <1>8. CASE Commit
    BY <1>0, <1>8 DEF Commit, EnterBlock, Blanks, Following
  <1>9. CASE UNCHANGED vars
    BY <1>0, <1>9 DEF vars, Blanks, Following, Chosen, Term
  <1> QED BY <1>1, <1>2, <1>3, <1>4, <1>5, <1>6, <1>7, <1>8, <1>9 DEF Next, Ended

-----------------------------------------------------------------------------
(* What the mapping says of a state                                        *)

\* Outside the prologue and the commit loop a value is what its slot holds.
LEMMA EnvIsSlots ==
    /\ TypeOK /\ mode \notin {"prologue", "commit"} => SsaEnv = slots
    /\ TypeOK' /\ mode' \notin {"prologue", "commit"} => SsaEnv' = slots'
  BY DEF TypeOK, SsaEnv, SsaValue

\* In the commit loop a parameter still to be copied is what was staged for it.
CommitEnv ==
    \A v \in Arena(fn) :
      /\ Feeding(v) = {} => SsaEnv[v] = slots[v]
      /\ \A n \in Feeding(v) : SsaEnv[v] = scratch[<<edge.to, n>>]

LEMMA EnvInCommit == IInv /\ mode = "commit" => CommitEnv
  <1> SUFFICES ASSUME IInv, mode = "commit" PROVE CommitEnv
    OBVIOUS
  <1>1. /\ Verified(fn) /\ edge.to \in BlockIds(fn) /\ k \in 1..Len(edge.args)
        /\ DOMAIN fn.bparams[edge.to] = 1..Len(edge.args) /\ Len(edge.args) \in Nat
    BY CopyFacts
  <1>2. ASSUME NEW v \in Arena(fn), Feeding(v) = {} PROVE SsaEnv[v] = slots[v]
    BY <1>2 DEF SsaEnv, SsaValue
  <1>3. ASSUME NEW v \in Arena(fn), NEW n \in Feeding(v)
        PROVE  SsaEnv[v] = scratch[<<edge.to, n>>]
    <2>1. \A m \in Feeding(v) : m \in DOMAIN fn.bparams[edge.to] /\ fn.bparams[edge.to][m].value = v
      BY <1>1 DEF Feeding
    <2>2. \A m \in Feeding(v) : m = n
      BY <1>1, <1>3, <2>1, ParamsDiffer
    <2>3. (CHOOSE m \in Feeding(v) : TRUE) = n
      BY <1>3, <2>2
    <2>4. SsaEnv[v] = scratch[<<edge.to, CHOOSE m \in Feeding(v) : TRUE>>]
      BY <1>3 DEF SsaEnv, SsaValue
    <2> QED BY <2>3, <2>4
  <1> QED BY <1>2, <1>3 DEF CommitEnv

\* The same of the next state.
LEMMA CommitEnvNext ==
    ASSUME IInv', mode' = "commit", NEW v \in Arena(fn)'
    PROVE  /\ Feeding(v)' = {} => SsaEnv'[v] = slots'[v]
           /\ \A n \in Feeding(v)' : SsaEnv'[v] = scratch'[<<edge'.to, n>>]
  <1>1. IInv' /\ (mode = "commit")' => CommitEnv'
    BY EnvInCommit, PTL
  <1> QED BY <1>1 DEF CommitEnv

-----------------------------------------------------------------------------
(* Every step is one of Ssa or none                                        *)

\* Generating the code is no step of the function, nor is saving an argument.
LEMMA LowerStutters == ASSUME RInv, Lower PROVE UNCHANGED Abstract!vars
  <1>1. SsaEnv = slots /\ \A v \in Arena(fn) : slots[v] = Undef
    BY EnvIsSlots DEF RInv, IInv, Lower, Blanks
  <1>2. SsaEnv' = SsaEnv
    BY <1>1 DEF Lower, SsaEnv, SsaValue
  <1> QED BY <1>2 DEF Abstract!vars, Lower, SsaBlock, SsaPos

LEMMA SaveArgumentStutters == ASSUME RInv, SaveArgument PROVE UNCHANGED Abstract!vars
  <1>1. SsaEnv' = SsaEnv
    BY DEF SaveArgument, SsaEnv, SsaValue
  <1> QED BY <1>1 DEF Abstract!vars, SaveArgument, SsaBlock, SsaPos

\* When the prologue ends all arguments are there: the call.
LEMMA EnterBodyEnters == ASSUME RInv, RInv', EnterBody PROVE Abstract!Enter
  <1> DEFINE a == [i \in DOMAIN fn.params |-> slots[i]]
  <1>1. /\ fn \in Programs /\ Verified(fn) /\ k \in Nat /\ mode = "prologue"
        /\ k > Len(fn.params) /\ EnterBlock(Entry) /\ fn' = fn /\ slots' = slots
    BY DEF RInv, IInv, Static, TypeOK, EnterBody
  <1>2. /\ DOMAIN fn.params = 1..Len(fn.params) /\ Len(fn.params) \in Nat
        /\ \A i \in DOMAIN fn.params : fn.params[i].value = i /\ i \in Arena(fn)
    BY <1>1, ParamsAreFirst
  <1>3. \A i \in DOMAIN fn.params : slots[i] \in Data
    BY <1>1, <1>2 DEF RInv, IInv, TypeOK, Contents, SavedArguments
  <1>4. a \in [DOMAIN fn.params -> Data]
    BY <1>3
  <1>5. \A v \in Arena(fn) : slots[v] = IF v \in DOMAIN a THEN a[v] ELSE Undef
    BY <1>1 DEF RInv, Blanks
  <1>6. DOMAIN SsaEnv = Arena(fn) /\ SsaEnv' = slots /\ slots = [v \in Arena(fn) |-> slots[v]]
    BY <1>1, EnvIsSlots DEF SsaEnv, EnterBlock, RInv, IInv, TypeOK
  <1>7. SsaEnv' = [v \in DOMAIN SsaEnv |-> IF v \in DOMAIN a THEN a[v] ELSE Undef]
    BY <1>5, <1>6
  <1>8. SsaBlock = 0 /\ SsaPos = 0 /\ SsaBlock' = Entry /\ SsaPos' = 1
    BY <1>1 DEF SsaBlock, SsaPos, RInv, Blanks, EnterBlock
  <1> QED BY <1>1, <1>4, <1>7, <1>8 DEF Abstract!Enter, Abstract!Nowhere, Abstract!Entry, Entry

\* An instruction, which reads nothing unwritten.
LEMMA InstrRuns == ASSUME RInv, RInv', Instr PROVE Abstract!Instr
  <1>1. /\ mode = "body" /\ mode' = mode /\ block' = block /\ pos' = pos + 1 /\ fn' = fn
        /\ block # 0 /\ pos <= Len(fn.insts[block])
        /\ SsaEnv = slots /\ SsaEnv' = slots'
        /\ SsaBlock = block /\ SsaBlock' = block /\ SsaPos = pos /\ SsaPos' = pos + 1
    <2>1. fn \in Programs /\ block \in BlockIds(fn) /\ TypeOK /\ TypeOK'
      BY DEF RInv, IInv, Static, Running, Instr
    <2>2. block # 0
      BY <2>1, FrameAssumption DEF WellFormed, BlockIds
    <2> QED BY <2>1, <2>2, EnvIsSlots DEF Instr, SsaBlock, SsaPos
  <1>2. \A v \in Range(fn.insts[block][pos].args) : slots[v] # Undef
    <2>1. ~AtTerm
      <3>1. Len(fn.insts[block]) \in Nat
        BY FrameAssumption, <1>1 DEF RInv, IInv, Static, Running, WellFormed
      <3> QED BY <1>1, <3>1 DEF AtTerm
    <2>2. Loaded = Range(fn.insts[block][pos].args)
      BY <1>1, <2>1 DEF Loaded
    <2> QED BY <2>2, LoadsDefined DEF NoUninitializedLoad, RInv
  <1>3. Abstract!Defined(Range(fn.insts[block][pos].args))
    BY <1>1, <1>2 DEF Abstract!Defined
  <1>4. Abstract!Range(fn.insts[block][pos].args) = Range(fn.insts[block][pos].args)
    BY DEF Abstract!Range, Range
  <1>5. IF fn.insts[block][pos].result = NoValue THEN UNCHANGED SsaEnv
        ELSE \E d \in Data : SsaEnv' = [SsaEnv EXCEPT ![fn.insts[block][pos].result] = d]
    BY <1>1 DEF Instr
  <1> QED BY <1>1, <1>3, <1>4, <1>5
        DEF Abstract!Instr, Abstract!Nowhere, Abstract!NoValue, NoValue

\* At its terminator Ssa follows the chosen edge.
LEMMA ChosenIsFollowed ==
    ASSUME RInv, mode \in {"body", "stage"}, pos = Len(fn.insts[block]) + 1,
           NEW e, Chosen(e), Abstract!Follow(e)
    PROVE  Abstract!Jump \/ Abstract!Branch
  <1>1. SsaBlock = block /\ SsaPos = pos /\ SsaEnv = slots /\ block # 0
    <2>1. fn \in Programs /\ block \in BlockIds(fn) /\ TypeOK
      BY DEF RInv, IInv, Static, Running
    <2>2. block # 0
      BY <2>1, FrameAssumption DEF WellFormed, BlockIds
    <2> QED BY <2>1, <2>2, EnvIsSlots DEF SsaBlock, SsaPos
  <1>2. Abstract!AtTerm /\ Abstract!Term = Term
    BY <1>1 DEF Abstract!AtTerm, Abstract!Term, Abstract!Nowhere, Term
  <1>3. CASE Term.tag = "Jump" /\ e = Term.edges[1]
    BY <1>2, <1>3 DEF Abstract!Jump
  <1>4. CASE /\ Term.tag = "Branch" /\ slots[Term.uses[1]] # Undef
             /\ e = Term.edges[IF slots[Term.uses[1]] # Zero THEN 1 ELSE 2]
    <2>1. Abstract!Defined({Term.uses[1]})
      BY <1>1, <1>4 DEF Abstract!Defined
    <2> QED BY <1>1, <1>2, <1>4, <2>1 DEF Abstract!Branch
  <1> QED BY <1>3, <1>4 DEF Chosen

\* An edge without arguments is followed at once, another only begun.
LEMMA TakeEdgeFollows ==
    ASSUME RInv, RInv', Jump \/ Branch
    PROVE  Abstract!Next \/ UNCHANGED Abstract!vars
  <1>1. AtTerm /\ mode = "body" /\ pos = Len(fn.insts[block]) + 1
    BY DEF Jump, Branch, AtTerm
  <1>2. PICK e \in Range(Term.edges) : Chosen(e) /\ TakeEdge(e)
    BY <1>1, ChosenEdge DEF RInv
  <1>3. SsaEnv = slots /\ SsaEnv' = slots' /\ slots' = slots /\ fn' = fn
    BY <1>1, <1>2, EnvIsSlots DEF RInv, IInv, TakeEdge, EnterBlock
  <1>4. CASE e.args = <<>>
    <2>1. EnterBlock(e.to)
      BY <1>2, <1>4 DEF TakeEdge
    <2>2. DOMAIN e.args = {} /\ Abstract!Range(e.args) = {}
      BY <1>4 DEF Abstract!Range
    <2>3. SsaEnv = [v \in DOMAIN SsaEnv |-> SsaEnv[v]]
      BY DEF SsaEnv
    <2>4. SsaBlock' = e.to /\ SsaPos' = 1
      BY <2>1 DEF SsaBlock, SsaPos, EnterBlock
    <2>5. Abstract!Follow(e)
      BY <1>3, <2>2, <2>3, <2>4 DEF Abstract!Follow, Abstract!Defined
    <2> QED BY <1>1, <1>2, <2>5, ChosenIsFollowed DEF Abstract!Next
  <1>5. CASE e.args # <<>>
    <2>1. mode' = "stage" /\ block' = block /\ pos' = pos
      BY <1>2, <1>5 DEF TakeEdge
    <2> QED BY <1>1, <1>3, <2>1 DEF Abstract!vars, SsaBlock, SsaPos
  <1> QED BY <1>4, <1>5

\* The return, which reads nothing unwritten either.
LEMMA LeaveLeaves == ASSUME RInv, RInv', Leave PROVE Abstract!Leave
  <1>1. /\ AtTerm /\ mode = "body" /\ mode' = "left" /\ fn' = fn /\ pos' = pos
        /\ Term.tag \in {"Return", "Unreachable"} /\ slots' = slots
    BY DEF Leave, AtTerm
  <1>2. block # 0
    BY <1>1, FrameAssumption DEF RInv, IInv, Static, Running, WellFormed, BlockIds
  <1>3. /\ SsaBlock = block /\ SsaBlock' = 0 /\ SsaPos = pos /\ SsaPos' = pos
        /\ SsaEnv = slots /\ SsaEnv' = slots
    BY <1>1, EnvIsSlots DEF SsaBlock, SsaPos, RInv, IInv
  <1>4. Abstract!AtTerm /\ Abstract!Term = Term
    BY <1>1, <1>2, <1>3 DEF Abstract!AtTerm, Abstract!Term, Abstract!Nowhere, Term, AtTerm
  <1>5. Abstract!Defined(Abstract!Range(Term.uses))
    <2>1. Loaded = Range(Term.uses)
      BY <1>1 DEF Loaded, AtTerm
    <2>2. \A v \in Range(Term.uses) : slots[v] # Undef
      BY <2>1, LoadsDefined DEF NoUninitializedLoad, RInv
    <2> QED BY <1>3, <2>2 DEF Abstract!Defined, Abstract!Range, Range
  <1> QED BY <1>1, <1>3, <1>4, <1>5 DEF Abstract!Leave, Abstract!Nowhere

\* The last argument staged is the moment the whole edge is followed.
LEMMA StageFollows ==
    ASSUME RInv, RInv', Stage
    PROVE  Abstract!Next \/ UNCHANGED Abstract!vars
  <1>1. /\ mode = "stage" /\ fn' = fn /\ slots' = slots /\ block' = block /\ pos' = pos
        /\ edge' = edge /\ Chosen(edge) /\ pos = Len(fn.insts[block]) + 1
        /\ scratch' = [scratch EXCEPT ![<<edge.to, k>>] = slots[edge.args[k]]]
        /\ SsaEnv = slots
    BY EnvIsSlots DEF Stage, RInv, IInv, Following, Copying
  <1>2. CASE ~CopiedAll
    <2>1. mode' = "stage"
      BY <1>1, <1>2 DEF Stage
    <2> QED BY <1>1, <2>1, EnvIsSlots DEF Abstract!vars, SsaBlock, SsaPos, RInv, IInv
  <1>3. CASE CopiedAll
    <2>1. mode' = "commit" /\ k' = 1 /\ k = Len(edge.args)
      BY <1>3 DEF Stage, CopiedAll
    <2>2. /\ DOMAIN edge.args = 1..Len(edge.args) /\ Len(edge.args) \in Nat
          /\ \A i \in DOMAIN edge.args : <<edge.to, i>> \in DOMAIN scratch
          /\ \A i \in DOMAIN edge.args : edge.args[i] \in Arena(fn)
      BY <1>1, CopyFacts DEF RInv, IInv, TypeOK
    <2>3. \A i \in DOMAIN edge.args : scratch'[<<edge.to, i>>] = slots[edge.args[i]]
      <3>1. ASSUME NEW i \in DOMAIN edge.args, i # k
            PROVE  scratch'[<<edge.to, i>>] = slots[edge.args[i]]
        <4>1. i < k
          BY <2>1, <2>2, <3>1
        <4>2. scratch[<<edge.to, i>>] = slots[edge.args[i]]
          BY <1>1, <4>1 DEF RInv, Following
        <4> QED BY <1>1, <2>2, <3>1, <4>2
      <3> QED BY <1>1, <2>2, <3>1
    <2> DEFINE feeds(n, v) == fn.bparams[edge.to][n].value = v
               new(v) == IF \E n \in DOMAIN edge.args : feeds(n, v)
                         THEN SsaEnv[edge.args[CHOOSE n \in DOMAIN edge.args : feeds(n, v)]]
                         ELSE SsaEnv[v]
    <2>4. ASSUME NEW v \in Arena(fn) PROVE SsaEnv'[v] = new(v)
      <3>1. v \in Arena(fn)' /\ IInv' /\ mode' = "commit"
        BY <1>1, <2>1 DEF RInv
      <3>2. Feeding(v)' = {n \in DOMAIN edge.args : feeds(n, v)}
        BY <1>1, <2>1, <2>2 DEF Feeding
      <3>3. CASE \E n \in DOMAIN edge.args : feeds(n, v)
        <4>1. PICK m : m = CHOOSE n \in DOMAIN edge.args : feeds(n, v)
          OBVIOUS
        <4>2. m \in DOMAIN edge.args /\ feeds(m, v)
          BY <3>3, <4>1
        <4>3. SsaEnv'[v] = scratch'[<<edge.to, m>>]
          BY <3>1, <3>2, <4>2, <1>1, CommitEnvNext
        <4> QED BY <1>1, <2>3, <3>3, <4>1, <4>2, <4>3
      <3>4. CASE ~\E n \in DOMAIN edge.args : feeds(n, v)
        <4>1. SsaEnv'[v] = slots'[v]
          BY <3>1, <3>2, <3>4, CommitEnvNext
        <4> QED BY <1>1, <3>4, <4>1
      <3> QED BY <3>3, <3>4
    <2>5. SsaEnv' = [v \in DOMAIN SsaEnv |-> new(v)]
      <3>1. DOMAIN SsaEnv = Arena(fn) /\ DOMAIN SsaEnv' = Arena(fn)
        BY <1>1 DEF SsaEnv
      <3>2. SsaEnv' = [v \in Arena(fn) |-> SsaEnv'[v]]
        BY <1>1 DEF SsaEnv
      <3> HIDE DEF new
      <3> QED BY <2>4, <3>1, <3>2
    <2>6. Abstract!Defined(Abstract!Range(edge.args))
      <3>1. \A i \in DOMAIN edge.args : scratch'[<<edge.to, i>>] # Undef
        BY <1>1, <2>1 DEF RInv, IInv, Copying
      <3> QED BY <1>1, <2>3, <3>1 DEF Abstract!Defined, Abstract!Range
    <2>7. SsaBlock' = edge.to /\ SsaPos' = 1
      BY <1>1, <2>1 DEF SsaBlock, SsaPos
    <2>8. Abstract!Follow(edge)
      BY <1>1, <2>5, <2>6, <2>7 DEF Abstract!Follow
    <2> QED BY <1>1, <2>8, ChosenIsFollowed DEF Abstract!Next
  <1> QED BY <1>2, <1>3

\* The rest of the commit loop only catches up.
LEMMA CommitStutters == ASSUME RInv, RInv', Commit PROVE UNCHANGED Abstract!vars
  <1>1. /\ mode = "commit" /\ fn' = fn /\ scratch' = scratch /\ k \in 1..Len(edge.args)
        /\ slots' = [slots EXCEPT ![fn.bparams[edge.to][k].value] = scratch[<<edge.to, k>>]]
        /\ Len(edge.args) \in Nat /\ SsaBlock = edge.to /\ SsaPos = 1
    BY CopyFacts DEF Commit, Staged, RInv, SsaBlock, SsaPos
  <1> DEFINE x == fn.bparams[edge.to][k].value
  <1>2. ASSUME NEW v \in Arena(fn) PROVE slots'[v] = IF v = x THEN scratch[<<edge.to, k>>] ELSE slots[v]
    BY <1>1 DEF RInv, IInv, TypeOK
  <1>3. ASSUME NEW v \in Arena(fn), v = x PROVE SsaEnv[v] = scratch[<<edge.to, k>>]
    <2>1. k \in Feeding(v)
      BY <1>1, <1>3 DEF Feeding
    <2> QED BY <1>1, <2>1, EnvInCommit DEF RInv, CommitEnv
  <1>4. CASE CopiedAll
    <2>1. EnterBlock(edge.to) /\ k = Len(edge.args)
      BY <1>4 DEF Commit, CopiedAll
    <2>2. SsaEnv' = slots'
      BY <2>1, EnvIsSlots DEF EnterBlock, RInv, IInv
    <2>3. ASSUME NEW v \in Arena(fn), v # x PROVE SsaEnv[v] = slots[v]
      <3>1. Feeding(v) = {}
        BY <1>1, <2>1, <2>3 DEF Feeding
      <3> QED BY <1>1, <3>1, EnvInCommit DEF RInv, CommitEnv
    <2>4. \A v \in Arena(fn) : SsaEnv[v] = slots'[v]
      BY <1>2, <1>3, <2>3
    <2>5. SsaEnv' = SsaEnv
      BY <1>1, <2>2, <2>4 DEF SsaEnv
    <2> QED BY <1>1, <2>1, <2>5 DEF Abstract!vars, EnterBlock, SsaBlock, SsaPos
  <1>5. CASE ~CopiedAll
    <2>1. mode' = "commit" /\ k' = k + 1 /\ edge' = edge
      BY <1>1, <1>5 DEF Commit
    <2>2. ASSUME NEW v \in Arena(fn) PROVE SsaEnv'[v] = SsaEnv[v]
      <3>1. v \in Arena(fn)' /\ IInv' /\ mode' = "commit"
        BY <1>1, <2>1 DEF RInv
      <3>2. Feeding(v)' = Feeding(v) \ {k}
        BY <1>1, <2>1 DEF Feeding
      <3>3. CASE v = x
        <4>1. Feeding(v)' = {}
          <5>1. \A n \in Feeding(v) : n = k
            <6>1. /\ Verified(fn) /\ edge.to \in BlockIds(fn)
                  /\ DOMAIN fn.bparams[edge.to] = 1..Len(edge.args)
              BY <1>1, CopyFacts DEF RInv
            <6>2. \A n \in Feeding(v) : /\ n \in DOMAIN fn.bparams[edge.to]
                                        /\ fn.bparams[edge.to][n].value = x
              BY <1>1, <3>3, <6>1 DEF Feeding
            <6> QED BY <1>1, <6>1, <6>2, ParamsDiffer
          <5> QED BY <3>2, <5>1
        <4>2. SsaEnv'[v] = slots'[v]
          BY <3>1, <4>1, CommitEnvNext
        <4> QED BY <1>2, <1>3, <3>3, <4>2
      <3>4. CASE v # x
        <4>1. Feeding(v)' = Feeding(v)
          BY <1>1, <3>2, <3>4 DEF Feeding
        <4>2. CASE Feeding(v) = {}
          <5>1. SsaEnv'[v] = slots'[v]
            BY <3>1, <4>1, <4>2, CommitEnvNext
          <5>2. SsaEnv[v] = slots[v]
            BY <1>1, <4>2, EnvInCommit DEF RInv, CommitEnv
          <5> QED BY <1>2, <3>4, <5>1, <5>2
        <4>3. CASE Feeding(v) # {}
          <5>1. PICK n : n \in Feeding(v)
            BY <4>3
          <5>2. SsaEnv'[v] = scratch'[<<edge'.to, n>>]
            BY <3>1, <4>1, <5>1, CommitEnvNext
          <5>3. SsaEnv[v] = scratch[<<edge.to, n>>]
            BY <1>1, <5>1, EnvInCommit DEF RInv, CommitEnv
          <5> QED BY <1>1, <2>1, <5>2, <5>3
        <4> QED BY <4>2, <4>3
      <3> QED BY <3>3, <3>4
    <2>3. SsaEnv' = SsaEnv
      BY <1>1, <2>2 DEF SsaEnv
    <2> QED BY <1>1, <2>1, <2>3 DEF Abstract!vars, SsaBlock, SsaPos
  <1> QED BY <1>4, <1>5

\* A state before the code is generated is one before the call.
LEMMA InitImplements == Init => Abstract!Init
  <1> SUFFICES ASSUME Init PROVE Abstract!Init
    OBVIOUS
  <1>1. Abstract!Verified(fn) /\ fn.terms # <<>>
    BY SameVerdict DEF Init
  <1>2. SsaBlock = 0 /\ SsaPos = 0
    BY DEF Init, SsaBlock, SsaPos
  <1>3. SsaEnv = Abstract!Blank(fn)
    BY DEF Init, SsaEnv, SsaValue, Abstract!Blank, Abstract!Arena, Arena
  <1> QED BY <1>1, <1>2, <1>3 DEF Abstract!Init, Abstract!Nowhere

\* All of it.
LEMMA StepImplements == RInv /\ RInv' /\ [Next]_vars => [Abstract!Next]_(Abstract!vars)
  <1> SUFFICES ASSUME RInv, RInv', [Next]_vars PROVE Abstract!Next \/ UNCHANGED Abstract!vars
    OBVIOUS
  <1>1. CASE UNCHANGED vars
    BY <1>1 DEF vars, Abstract!vars, SsaBlock, SsaPos, SsaEnv, SsaValue, Feeding
  <1>2. CASE Lower \/ SaveArgument \/ Commit
    BY <1>2, LowerStutters, SaveArgumentStutters, CommitStutters
  <1>3. CASE EnterBody \/ Instr \/ Leave
    BY <1>3, EnterBodyEnters, InstrRuns, LeaveLeaves DEF Abstract!Next
  <1>4. CASE Jump \/ Branch \/ Stage
    BY <1>4, TakeEdgeFollows, StageFollows
  <1> QED BY <1>1, <1>2, <1>3, <1>4 DEF Next, Ended

-----------------------------------------------------------------------------
\* The generated code of every verified function, whatever its graph and its edges, does
\* what the function means: the two copy loops of emit_edge assign in parallel, and a
\* step of the code is a step of the function or none.
THEOREM FrameImplementsSsa == Spec => ImplementsSsa
  <1>1. RInv /\ [Next]_vars => RInv'
    BY RInvNext
  <1> QED BY <1>1, RInvInit, InitImplements, StepImplements, PTL
        DEF Spec, ImplementsSsa, Abstract!Spec
=============================================================================
