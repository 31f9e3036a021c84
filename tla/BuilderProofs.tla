--------------------------- MODULE BuilderProofs ----------------------------
(***************************************************************************)
(* For every function, every set of ops and every order of calls: what the *)
(* builder makes can only fail the verifier in the ways it does not check. *)
(*                                                                         *)
(* The invariant says of each item of the function, an arena entry, a      *)
(* block parameter, an instruction, a terminator, that it is in order.     *)
(* Items never change (Grows), and an item in order stays so as long as    *)
(* the function only grows; so each call has to answer for the items it    *)
(* adds and for no others.                                                 *)
(***************************************************************************)
EXTENDS Builder, TLAPS, SequenceTheorems

-----------------------------------------------------------------------------
(* Sequences                                                               *)

\* A function on 1..n is a sequence of length n.
LEMMA FunctionIsSeq ==
    ASSUME NEW S, NEW n \in Nat, NEW g \in [1..n -> S]
    PROVE  g \in Seq(S) /\ Len(g) = n
  <1>1. g \in Seq(S)
    BY SeqDef
  <1> QED BY <1>1, LenProperties

\* The entries of a table of lists are lists.
LEMMA ListInTable ==
    ASSUME NEW S, NEW t \in Seq(Seq(S)), NEW b \in 1..Len(t)
    PROVE  t[b] \in Seq(S) /\ Len(t[b]) \in Nat /\ DOMAIN t[b] = 1..Len(t[b])
  BY ElementOfSeq, LenProperties

\* Entry by entry, a longer sequence that agrees with a shorter one has it as a prefix.
LEMMA AgreesIsPrefix ==
    ASSUME NEW S, NEW s \in Seq(S), NEW t \in Seq(S),
           \A i \in DOMAIN s : i \in DOMAIN t /\ t[i] = s[i]
    PROVE  IsPrefix(s, t)
  <1>1. /\ Len(s) \in Nat /\ Len(t) \in Nat
        /\ DOMAIN s = 1..Len(s) /\ DOMAIN t = 1..Len(t)
    BY LenProperties
  <1>2. Len(s) <= Len(t)
    BY <1>1
  <1>3. /\ SubSeq(t, 1, Len(s)) \in Seq(S) /\ Len(SubSeq(t, 1, Len(s))) = Len(s)
        /\ \A i \in 1..Len(s) : SubSeq(t, 1, Len(s))[i] = t[i]
    <2>1. \A i \in 1..Len(s) : t[i] \in S
      BY <1>1, <1>2, ElementOfSeq
    <2> QED BY <1>1, <2>1, SubSeqProperties
  <1>4. SubSeq(t, 1, Len(s)) = s
    BY <1>1, <1>3, SeqEqual
  <1> QED BY <1>2, <1>4, SubSeqFull DEF IsPrefix

\* An appended entry comes last, the others keep their places.
LEMMA AppendAgrees ==
    ASSUME NEW S, NEW s \in Seq(S), NEW x \in S, NEW n, n = Len(s) + 1
    PROVE  /\ Append(s, x) \in Seq(S) /\ DOMAIN Append(s, x) = DOMAIN s \cup {n}
           /\ n \in Nat /\ n \notin DOMAIN s
           /\ \A i \in DOMAIN s : Append(s, x)[i] = s[i]
           /\ Append(s, x)[n] = x
  <1>1. Len(s) \in Nat /\ DOMAIN s = 1..Len(s)
    BY LenProperties
  <1>2. /\ Append(s, x) \in Seq(S) /\ Len(Append(s, x)) = n
        /\ \A i \in 1..Len(s) : Append(s, x)[i] = s[i]
        /\ Append(s, x)[n] = x
    BY AppendProperties
  <1>3. DOMAIN Append(s, x) = 1..n
    BY <1>2, LenProperties
  <1> QED BY <1>1, <1>2, <1>3

-----------------------------------------------------------------------------
(* The inductive invariant                                                 *)

\* The parameters of the function come first in the arena.
ParamsFirst ==
    \A i \in DOMAIN sig.types :
      i \in DOMAIN values /\ values[i] = [ty |-> sig.types[i], kind |-> ParamKind(i)]

\* What an arena entry claims of its value is so.
ValueInOrder(v) ==
    LET kd == values[v].kind
    IN  /\ kd.tag \in {"Param", "BlockParam", "Inst"}
        /\ kd.tag = "Param" =>
             /\ kd = ParamKind(v) /\ v \in DOMAIN sig.types
             /\ values[v].ty = sig.types[v]
        /\ kd.tag = "BlockParam" =>
             /\ kd = BlockParamKind(kd.block, kd.index)
             /\ kd.block \in 1..BlockCount /\ kd.index \in DOMAIN bparams[kd.block]
             /\ bparams[kd.block][kd.index] = [value |-> v, ty |-> values[v].ty]
        /\ kd.tag = "Inst" =>
             /\ kd = InstKind(kd.block, kd.index)
             /\ kd.block \in 1..BlockCount /\ kd.index \in DOMAIN insts[kd.block]
             /\ insts[kd.block][kd.index].result = v

\* The arena knows parameter i of block b.
ParamInOrder(b, i) ==
    LET p == bparams[b][i]
    IN  p.value \in DOMAIN values /\ values[p.value] = [ty |-> p.ty, kind |-> BlockParamKind(b, i)]

\* Instruction i of block b: typed, its result known to the arena, its operands older.
InstInOrder(b, i) ==
    LET inst == insts[b][i]
    IN  /\ ArgsFit(inst.op, inst.args)
        /\ inst.result = NoValue <=> inst.op.result = NoType
        /\ inst.result # NoValue =>
             /\ inst.result \in DOMAIN values
             /\ values[inst.result] = [ty |-> inst.op.result, kind |-> InstKind(b, i)]
        /\ \A n \in DOMAIN inst.args :
             LET kd == values[inst.args[n]].kind
             IN  /\ inst.result # NoValue => inst.args[n] < inst.result
                 /\ kd.tag = "Inst" /\ kd.block = b => kd.index < i

EdgeInOrder(e) ==
    /\ e.to \in 1..BlockCount
    /\ Len(e.args) <= Len(bparams[e.to])
    /\ \A n \in DOMAIN e.args : HasType(e.args[n], bparams[e.to][n].ty)

TermInOrder(b) ==
    LET t == terms[b]
    IN  /\ \A n \in DOMAIN t.uses : t.uses[n] \in DOMAIN values
        /\ t.tag = "Branch" => \A n \in DOMAIN t.uses : HasType(t.uses[n], I1)
        /\ t.tag = "Return" => /\ t.uses = <<>> => sig.result = Void
                               /\ \A n \in DOMAIN t.uses : HasType(t.uses[n], sig.result)
        /\ \A n \in DOMAIN t.edges : EdgeInOrder(t.edges[n])

EntryPlain == BlockCount > 0 => bparams[Entry] = <<>>

IInv ==
    /\ TypeOK
    /\ ParamsFirst
    /\ \A v \in DOMAIN values : ValueInOrder(v)
    /\ \A b \in 1..BlockCount :
         /\ \A i \in DOMAIN bparams[b] : ParamInOrder(b, i)
         /\ \A i \in DOMAIN insts[b] : InstInOrder(b, i)
         /\ TermInOrder(b)
    /\ EntryPlain

\* What a call may do to the items that are there.
Grows ==
    /\ sig' = sig
    /\ \A v \in DOMAIN values : v \in DOMAIN values' /\ values'[v] = values[v]
    /\ 1..BlockCount \subseteq 1..BlockCount'
    /\ \A b \in 1..BlockCount :
         /\ \A i \in DOMAIN bparams[b] : i \in DOMAIN bparams'[b] /\ bparams'[b][i] = bparams[b][i]
         /\ \A i \in DOMAIN insts[b] : i \in DOMAIN insts'[b] /\ insts'[b][i] = insts[b][i]
         /\ terms[b] # NoTerm => terms'[b] = terms[b] /\ insts'[b] = insts[b]
         /\ ~EmptyBlock(b) => bparams'[b] = bparams[b]

-----------------------------------------------------------------------------
(* The shape of a function of the right type                               *)

\* Signatures hold first-class types.
LEMMA SigShape ==
    ASSUME NEW s \in Sigs
    PROVE  /\ s.types \in Seq(ValTypes) /\ s.result \in ValTypes \cup {Void}
           /\ Len(s.types) \in Nat /\ DOMAIN s.types = 1..Len(s.types)
  <1>1. s.types \in Seq(ValTypes) /\ s.result \in ValTypes \cup {Void}
    BY BuilderAssumption
  <1> QED BY <1>1, LenProperties

\* The tables and their entries.
LEMMA Shape ==
    ASSUME TypeOK
    PROVE  /\ BlockCount \in Nat /\ Len(values) \in Nat
           /\ DOMAIN values = 1..Len(values) /\ DOMAIN terms = 1..BlockCount
           /\ \A v \in DOMAIN values : values[v] \in ValueData
           /\ \A b \in 1..BlockCount :
                /\ bparams[b] \in Seq(BlockParam) /\ insts[b] \in Seq(Instruction)
                /\ terms[b] \in Terminator
                /\ Len(bparams[b]) \in Nat /\ DOMAIN bparams[b] = 1..Len(bparams[b])
                /\ Len(insts[b]) \in Nat /\ DOMAIN insts[b] = 1..Len(insts[b])
                /\ \A i \in DOMAIN bparams[b] : bparams[b][i] \in BlockParam
                /\ \A i \in DOMAIN insts[b] : insts[b][i] \in Instruction
  <1>1. /\ values \in Seq(ValueData) /\ terms \in Seq(Terminator)
        /\ bparams \in Seq(Seq(BlockParam)) /\ insts \in Seq(Seq(Instruction))
        /\ Len(bparams) = BlockCount /\ Len(insts) = BlockCount
    BY DEF TypeOK
  <1>2. /\ BlockCount \in Nat /\ Len(values) \in Nat
        /\ DOMAIN values = 1..Len(values) /\ DOMAIN terms = 1..BlockCount
    BY <1>1, LenProperties DEF BlockCount
  <1>3. \A v \in DOMAIN values : values[v] \in ValueData
    BY <1>1, <1>2, ElementOfSeq
  <1>4. ASSUME NEW b \in 1..BlockCount
        PROVE  /\ bparams[b] \in Seq(BlockParam) /\ insts[b] \in Seq(Instruction)
               /\ terms[b] \in Terminator
               /\ Len(bparams[b]) \in Nat /\ DOMAIN bparams[b] = 1..Len(bparams[b])
               /\ Len(insts[b]) \in Nat /\ DOMAIN insts[b] = 1..Len(insts[b])
               /\ \A i \in DOMAIN bparams[b] : bparams[b][i] \in BlockParam
               /\ \A i \in DOMAIN insts[b] : insts[b][i] \in Instruction
    <2>1. bparams[b] \in Seq(BlockParam) /\ insts[b] \in Seq(Instruction) /\ terms[b] \in Terminator
      BY <1>1, ElementOfSeq DEF BlockCount
    <2>2. /\ Len(bparams[b]) \in Nat /\ DOMAIN bparams[b] = 1..Len(bparams[b])
          /\ Len(insts[b]) \in Nat /\ DOMAIN insts[b] = 1..Len(insts[b])
      BY <2>1, LenProperties
    <2> QED BY <2>1, <2>2, ElementOfSeq
  <1> QED BY <1>2, <1>3, <1>4

-----------------------------------------------------------------------------
(* Items in order stay in order                                            *)

\* A value keeps its type.
LEMMA HasTypeKept ==
    ASSUME Grows, NEW v, NEW ty, HasType(v, ty)
    PROVE  HasType(v, ty)'
  BY DEF Grows, HasType

LEMMA ValueKept ==
    ASSUME TypeOK, Grows, NEW v \in DOMAIN values, ValueInOrder(v)
    PROVE  ValueInOrder(v)'
  <1> DEFINE kd == values[v].kind
  <1>1. v \in DOMAIN values' /\ values'[v] = values[v] /\ sig' = sig
    BY DEF Grows
  <1>2. 1..BlockCount \subseteq 1..BlockCount'
    BY DEF Grows
  <1>3. kd.tag = "BlockParam" =>
             /\ kd = BlockParamKind(kd.block, kd.index)
             /\ kd.block \in 1..BlockCount' /\ kd.index \in DOMAIN bparams'[kd.block]
             /\ bparams'[kd.block][kd.index] = [value |-> v, ty |-> values[v].ty]
    BY <1>2 DEF ValueInOrder, Grows
  <1>4. kd.tag = "Inst" =>
             /\ kd = InstKind(kd.block, kd.index)
             /\ kd.block \in 1..BlockCount' /\ kd.index \in DOMAIN insts'[kd.block]
             /\ insts'[kd.block][kd.index].result = v
    BY <1>2 DEF ValueInOrder, Grows
  <1> QED BY <1>1, <1>3, <1>4 DEF ValueInOrder

LEMMA ParamKept ==
    ASSUME Grows, NEW b \in 1..BlockCount, NEW i \in DOMAIN bparams[b], ParamInOrder(b, i)
    PROVE  ParamInOrder(b, i)'
  BY DEF Grows, ParamInOrder

LEMMA InstKept ==
    ASSUME Grows, NEW b \in 1..BlockCount, NEW i \in DOMAIN insts[b], InstInOrder(b, i)
    PROVE  InstInOrder(b, i)'
  <1> DEFINE inst == insts[b][i]
  <1>1. insts'[b][i] = inst
    BY DEF Grows
  <1>2. \A n \in DOMAIN inst.args :
          /\ HasType(inst.args[n], inst.op.args[n])
          /\ inst.args[n] \in DOMAIN values'
          /\ values'[inst.args[n]] = values[inst.args[n]]
    BY DEF InstInOrder, ArgsFit, HasType, Grows
  <1>3. ArgsFit(inst.op, inst.args)'
    BY <1>1, <1>2 DEF InstInOrder, ArgsFit, HasType
  <1>4. inst.result # NoValue =>
          /\ inst.result \in DOMAIN values'
          /\ values'[inst.result] = [ty |-> inst.op.result, kind |-> InstKind(b, i)]
    BY DEF InstInOrder, Grows
  <1> QED BY <1>1, <1>2, <1>3, <1>4 DEF InstInOrder

LEMMA EdgeKept ==
    ASSUME TypeOK, TypeOK', Grows, NEW e, DOMAIN e.args = 1..Len(e.args), Len(e.args) \in Nat,
           EdgeInOrder(e)
    PROVE  EdgeInOrder(e)'
  <1>1. /\ e.to \in 1..BlockCount /\ e.to \in 1..BlockCount'
        /\ DOMAIN bparams[e.to] = 1..Len(bparams[e.to]) /\ Len(bparams[e.to]) \in Nat
    BY Shape DEF EdgeInOrder, Grows
  <1>2. DOMAIN bparams'[e.to] = 1..Len(bparams'[e.to]) /\ Len(bparams'[e.to]) \in Nat
    BY <1>1, ListInTable DEF TypeOK
  <1>3. \A n \in DOMAIN bparams[e.to] :
          n \in DOMAIN bparams'[e.to] /\ bparams'[e.to][n] = bparams[e.to][n]
    BY <1>1 DEF Grows
  <1>4. Len(bparams[e.to]) <= Len(bparams'[e.to])
    BY <1>1, <1>2, <1>3
  <1>5. ASSUME NEW n \in DOMAIN e.args
        PROVE  HasType(e.args[n], bparams[e.to][n].ty)' /\ bparams'[e.to][n] = bparams[e.to][n]
    <2>1. n \in DOMAIN bparams[e.to]
      BY <1>1 DEF EdgeInOrder
    <2>2. HasType(e.args[n], bparams[e.to][n].ty)
      BY DEF EdgeInOrder
    <2> QED BY <1>3, <2>1, <2>2 DEF Grows, HasType
  <1> QED BY <1>1, <1>2, <1>4, <1>5 DEF EdgeInOrder, HasType

\* Edges of a terminator.
LEMMA TermEdges ==
    ASSUME NEW t \in Terminator, NEW n \in DOMAIN t.edges
    PROVE  /\ t.edges[n].args \in Seq(Nat)
           /\ DOMAIN t.edges[n].args = 1..Len(t.edges[n].args)
           /\ Len(t.edges[n].args) \in Nat
  <1>1. t.edges \in Seq([to : Nat, args : Seq(Nat)])
    BY DEF Terminator
  <1>2. t.edges[n] \in [to : Nat, args : Seq(Nat)]
    BY <1>1, ElementOfSeq, LenProperties
  <1> QED BY <1>2, LenProperties

LEMMA TermKept ==
    ASSUME TypeOK, TypeOK', Grows, NEW b \in 1..BlockCount, TermInOrder(b), terms'[b] = terms[b]
    PROVE  TermInOrder(b)'
  <1> DEFINE t == terms[b]
  <1>1. \A n \in DOMAIN t.edges : EdgeInOrder(t.edges[n])'
    <2>1. t \in Terminator
      BY Shape
    <2> QED BY <2>1, TermEdges, EdgeKept DEF TermInOrder
  <1>2. \A n \in DOMAIN t.uses : t.uses[n] \in DOMAIN values'
    BY DEF TermInOrder, Grows
  <1>3. t.tag = "Branch" => \A n \in DOMAIN t.uses : HasType(t.uses[n], I1)'
    BY HasTypeKept DEF TermInOrder
  <1>4. t.tag = "Return" => /\ t.uses = <<>> => sig'.result = Void
                            /\ \A n \in DOMAIN t.uses : HasType(t.uses[n], sig.result)'
    BY HasTypeKept DEF TermInOrder, Grows
  <1> QED BY <1>1, <1>2, <1>3, <1>4 DEF TermInOrder, HasType, Grows

\* The step lemma: a call that only adds answers for what it adds.
LEMMA KeepsOrder ==
    ASSUME IInv, TypeOK', Grows, EntryPlain',
           \A v \in DOMAIN values' : v \in DOMAIN values \/ ValueInOrder(v)',
           \A b \in 1..BlockCount' :
             /\ \A i \in DOMAIN bparams'[b] :
                  (b \in 1..BlockCount /\ i \in DOMAIN bparams[b]) \/ ParamInOrder(b, i)'
             /\ \A i \in DOMAIN insts'[b] :
                  (b \in 1..BlockCount /\ i \in DOMAIN insts[b]) \/ InstInOrder(b, i)'
             /\ (b \in 1..BlockCount /\ terms'[b] = terms[b]) \/ TermInOrder(b)'
    PROVE  IInv'
  <1>1. ParamsFirst'
    BY DEF IInv, ParamsFirst, Grows
  <1>2. ASSUME NEW v \in DOMAIN values' PROVE ValueInOrder(v)'
    BY ValueKept DEF IInv
  <1>3. ASSUME NEW b \in 1..BlockCount', NEW i \in DOMAIN bparams'[b] PROVE ParamInOrder(b, i)'
    BY ParamKept DEF IInv
  <1>4. ASSUME NEW b \in 1..BlockCount', NEW i \in DOMAIN insts'[b] PROVE InstInOrder(b, i)'
    BY InstKept DEF IInv
  <1>5. ASSUME NEW b \in 1..BlockCount' PROVE TermInOrder(b)'
    BY TermKept DEF IInv
  <1> QED BY <1>1, <1>2, <1>3, <1>4, <1>5 DEF IInv

-----------------------------------------------------------------------------
(* The invariant holds at first and every call keeps it                    *)

\* The kinds an arena entry can have.
LEMMA KindShape ==
    ASSUME NEW ty \in TypeIds, NEW b \in Nat, NEW i \in Nat
    PROVE  /\ [ty |-> ty, kind |-> ParamKind(i)] \in ValueData
           /\ [ty |-> ty, kind |-> BlockParamKind(b, i)] \in ValueData
           /\ [ty |-> ty, kind |-> InstKind(b, i)] \in ValueData
  BY DEF ValueData, Kinds, ParamKind, BlockParamKind, InstKind

LEMMA InitInv == Init => IInv
  <1> SUFFICES ASSUME Init PROVE IInv
    OBVIOUS
  <1>1. /\ sig.types \in Seq(ValTypes) /\ Len(sig.types) \in Nat
        /\ DOMAIN sig.types = 1..Len(sig.types)
    BY SigShape DEF Init
  <1>2. values \in Seq(ValueData) /\ Len(values) = Len(sig.types)
    <2>1. ASSUME NEW i \in 1..Len(sig.types)
          PROVE  [ty |-> sig.types[i], kind |-> ParamKind(i)] \in ValueData
      <3>1. sig.types[i] \in TypeIds /\ i \in Nat /\ 0 \in Nat
        BY <1>1, ElementOfSeq, TypesAssumption
      <3> QED BY <3>1, KindShape
    <2>2. values \in [1..Len(sig.types) -> ValueData]
      BY <1>1, <2>1 DEF Init
    <2> QED BY <1>1, <2>2, FunctionIsSeq
  <1>3. BlockCount = 0
    BY DEF Init, BlockCount
  <1>4. TypeOK
    BY <1>2, <1>3, EmptySeq DEF Init, TypeOK, NoBlock
  <1>5. ParamsFirst
    BY DEF Init, ParamsFirst
  <1>6. \A v \in DOMAIN values : ValueInOrder(v)
    BY DEF Init, ValueInOrder, ParamKind
  <1> QED BY <1>3, <1>4, <1>5, <1>6 DEF IInv, EntryPlain

\* Calls that move the cursor, and stuttering.
LEMMA CursorInv ==
    ASSUME IInv, UNCHANGED <<sig, values, bparams, insts, terms>>, current' \in 0..BlockCount
    PROVE  IInv' /\ Grows
  <1>1. TypeOK'
    BY DEF IInv, TypeOK, BlockCount
  <1>2. Grows
    BY DEF Grows, BlockCount, EmptyBlock
  <1>3. EntryPlain'
    BY DEF IInv, EntryPlain, BlockCount
  <1> QED BY <1>1, <1>2, <1>3, KeepsOrder DEF BlockCount

\* What a new block's parameters add to the arena, and the list it makes of them.
LEMMA AddedParams ==
    ASSUME TypeOK, NEW c \in Nat, NEW tys \in Seq(ValTypes), values' = values \o ParamValues(c, tys)
    PROVE  /\ values' \in Seq(ValueData) /\ DOMAIN values' = 1..Len(values) + Len(tys)
           /\ \A v \in DOMAIN values : v \in DOMAIN values' /\ values'[v] = values[v]
           /\ \A v \in DOMAIN values' \ DOMAIN values : v - Len(values) \in 1..Len(tys)
           /\ \A i \in 1..Len(tys) :
                /\ Len(values) + i \in DOMAIN values'
                /\ values'[Len(values) + i] = [ty |-> tys[i], kind |-> BlockParamKind(c, i)]
           /\ ParamList(tys) \in Seq(BlockParam) /\ DOMAIN ParamList(tys) = 1..Len(tys)
           /\ \A i \in 1..Len(tys) : ParamList(tys)[i] = [value |-> Len(values) + i, ty |-> tys[i]]
  <1> DEFINE added == ParamValues(c, tys)
  <1>1. /\ Len(tys) \in Nat /\ DOMAIN tys = 1..Len(tys) /\ \A i \in 1..Len(tys) : tys[i] \in ValTypes
        /\ values \in Seq(ValueData) /\ Len(values) \in Nat /\ DOMAIN values = 1..Len(values)
    BY LenProperties, ElementOfSeq DEF TypeOK
  <1>2. /\ added \in Seq(ValueData) /\ Len(added) = Len(tys)
        /\ \A i \in 1..Len(tys) : added[i] = [ty |-> tys[i], kind |-> BlockParamKind(c, i)]
    <2>1. ASSUME NEW i \in 1..Len(tys)
          PROVE  [ty |-> tys[i], kind |-> BlockParamKind(c, i)] \in ValueData
      <3>1. tys[i] \in TypeIds /\ i \in Nat
        BY <1>1, TypesAssumption
      <3> QED BY <3>1, KindShape
    <2>2. added \in [1..Len(tys) -> ValueData]
      BY <1>1, <2>1 DEF ParamValues
    <2> QED BY <1>1, <2>2, FunctionIsSeq DEF ParamValues
  <1>3. /\ values' \in Seq(ValueData) /\ Len(values') = Len(values) + Len(tys)
        /\ \A v \in 1..Len(values) + Len(tys) :
             values'[v] = IF v <= Len(values) THEN values[v] ELSE added[v - Len(values)]
    <2> HIDE DEF added
    <2>1. /\ values \o added \in Seq(ValueData) /\ Len(values \o added) = Len(values) + Len(added)
          /\ \A v \in 1..Len(values) + Len(added) :
               (values \o added)[v] = IF v <= Len(values) THEN values[v] ELSE added[v - Len(values)]
      <3>1. values \in Seq(ValueData) /\ added \in Seq(ValueData)
        BY <1>1, <1>2
      <3> QED BY <3>1, ConcatProperties, Zenon
    <2>2. values' = values \o added
      BY DEF added
    <2> QED BY <1>2, <2>1, <2>2
  <1>4. DOMAIN values' = 1..Len(values) + Len(tys)
    BY <1>3, LenProperties
  <1>5. \A i \in 1..Len(tys) :
          /\ Len(values) + i \in DOMAIN values'
          /\ values'[Len(values) + i] = added[i]
    BY <1>1, <1>3, <1>4
  <1>6. /\ \A v \in DOMAIN values : v \in DOMAIN values' /\ values'[v] = values[v]
        /\ \A v \in DOMAIN values' \ DOMAIN values : v - Len(values) \in 1..Len(tys)
    BY <1>1, <1>3, <1>4
  <1>7. /\ ParamList(tys) \in Seq(BlockParam) /\ DOMAIN ParamList(tys) = 1..Len(tys)
        /\ \A i \in 1..Len(tys) : ParamList(tys)[i] = [value |-> Len(values) + i, ty |-> tys[i]]
    <2>1. ParamList(tys) \in [1..Len(tys) -> BlockParam]
      BY <1>1 DEF ParamList, BlockParam
    <2> QED BY <1>1, <2>1, FunctionIsSeq DEF ParamList
  <1> QED BY <1>2, <1>3, <1>4, <1>5, <1>6, <1>7

\* append_block, append_named_block, append_block_with_params.
LEMMA NewBlockInv ==
    ASSUME IInv, NEW tys \in Seq(ValTypes), NewBlock(tys), BlockCount = 0 => tys = <<>>
    PROVE  IInv' /\ Grows
  <1> DEFINE list == ParamList(tys)
  <1>1. /\ BlockCount \in Nat /\ Len(values) \in Nat /\ DOMAIN values = 1..Len(values)
        /\ Len(tys) \in Nat /\ TypeOK /\ EntryPlain
    BY Shape, LenProperties DEF IInv
  <1>0. PICK c \in Nat : c = BlockCount + 1
    BY <1>1
  <1>2. /\ values' \in Seq(ValueData) /\ DOMAIN values' = 1..Len(values) + Len(tys)
        /\ \A v \in DOMAIN values : v \in DOMAIN values' /\ values'[v] = values[v]
        /\ \A v \in DOMAIN values' \ DOMAIN values : v - Len(values) \in 1..Len(tys)
        /\ \A i \in 1..Len(tys) :
             /\ Len(values) + i \in DOMAIN values'
             /\ values'[Len(values) + i] = [ty |-> tys[i], kind |-> BlockParamKind(c, i)]
        /\ list \in Seq(BlockParam) /\ DOMAIN list = 1..Len(tys)
        /\ \A i \in 1..Len(tys) : list[i] = [value |-> Len(values) + i, ty |-> tys[i]]
    <2>1. values' = values \o ParamValues(c, tys)
      BY <1>0 DEF NewBlock
    <2> QED BY <1>1, <2>1, AddedParams
  <1> HIDE DEF list
  <1>3. /\ bparams' \in Seq(Seq(BlockParam)) /\ Len(bparams') = c /\ bparams'[c] = list
        /\ \A b \in 1..BlockCount : bparams'[b] = bparams[b]
    <2>1. bparams' = Append(bparams, list) /\ list \in Seq(BlockParam)
      BY <1>2 DEF NewBlock, list
    <2>2. bparams \in Seq(Seq(BlockParam)) /\ Len(bparams) = BlockCount
      BY <1>1 DEF TypeOK
    <2> QED BY <1>0, <2>1, <2>2, AppendProperties
  <1>4. /\ insts' \in Seq(Seq(Instruction)) /\ Len(insts') = c /\ insts'[c] = <<>>
        /\ \A b \in 1..BlockCount : insts'[b] = insts[b]
    <2>1. <<>> \in Seq(Instruction)
      BY EmptySeq
    <2>2. insts \in Seq(Seq(Instruction)) /\ Len(insts) = BlockCount
      BY <1>1 DEF TypeOK
    <2> QED BY <1>0, <2>1, <2>2, AppendProperties DEF NewBlock
  <1>5. /\ terms' \in Seq(Terminator) /\ Len(terms') = c /\ terms'[c] = NoTerm
        /\ \A b \in 1..BlockCount : terms'[b] = terms[b]
    <2>1. NoTerm \in Terminator
      BY EmptySeq DEF NoTerm, Terminator
    <2>2. terms \in Seq(Terminator) /\ Len(terms) = BlockCount
      BY <1>1 DEF TypeOK, BlockCount
    <2> QED BY <1>0, <2>1, <2>2, AppendProperties DEF NewBlock
  <1>6. BlockCount' = c /\ 1..c = 1..BlockCount \cup {c}
    BY <1>0, <1>1, <1>5 DEF BlockCount
  <1>7. TypeOK'
    BY <1>0, <1>1, <1>2, <1>3, <1>4, <1>5, <1>6 DEF TypeOK, NewBlock
  <1>8. Grows
    BY <1>1, <1>2, <1>3, <1>4, <1>5, <1>6 DEF Grows, NewBlock
  <1>9. EntryPlain'
    <2>1. CASE BlockCount = 0
      <3>1. list = <<>>
        <4>1. Len(tys) = 0
          BY <2>1, EmptySeq
        <4>2. Len(list) = 0
          BY <4>1, <1>2, LenProperties
        <4> QED BY <4>2, <1>2, EmptySeq
      <3> QED BY <1>0, <2>1, <3>1, <1>3 DEF EntryPlain, Entry
    <2>2. CASE BlockCount # 0
      BY <1>0, <1>1, <1>3, <2>2 DEF EntryPlain, Entry
    <2> QED BY <2>1, <2>2
  <1>10. ASSUME NEW v \in DOMAIN values', v \notin DOMAIN values PROVE ValueInOrder(v)'
    <2> DEFINE i == v - Len(values)
    <2>1. i \in 1..Len(tys) /\ v = Len(values) + i
      BY <1>1, <1>2, <1>10
    <2>2. values'[v] = [ty |-> tys[i], kind |-> BlockParamKind(c, i)]
      BY <1>2, <2>1
    <2>3. bparams'[c][i] = [value |-> v, ty |-> tys[i]]
      BY <1>2, <1>3, <2>1
    <2> QED BY <1>1, <1>2, <1>3, <1>6, <2>1, <2>2, <2>3 DEF ValueInOrder, BlockParamKind
  <1>11. ASSUME NEW i \in DOMAIN bparams'[c] PROVE ParamInOrder(c, i)'
    <2>1. i \in 1..Len(tys) /\ bparams'[c][i] = [value |-> Len(values) + i, ty |-> tys[i]]
      BY <1>2, <1>3
    <2>2. /\ Len(values) + i \in DOMAIN values'
          /\ values'[Len(values) + i] = [ty |-> tys[i], kind |-> BlockParamKind(c, i)]
      BY <2>1, <1>2
    <2> QED BY <2>1, <2>2 DEF ParamInOrder
  <1>12. TermInOrder(c)'
    BY <1>5 DEF TermInOrder, NoTerm
  <1>13. ASSUME NEW b \in 1..BlockCount'
         PROVE  /\ \A i \in DOMAIN bparams'[b] :
                     (b \in 1..BlockCount /\ i \in DOMAIN bparams[b]) \/ ParamInOrder(b, i)'
                /\ \A i \in DOMAIN insts'[b] :
                     (b \in 1..BlockCount /\ i \in DOMAIN insts[b]) \/ InstInOrder(b, i)'
                /\ (b \in 1..BlockCount /\ terms'[b] = terms[b]) \/ TermInOrder(b)'
    <2>1. CASE b \in 1..BlockCount
      BY <2>1, <1>3, <1>4, <1>5
    <2>2. CASE b = c
      BY <2>2, <1>4, <1>11, <1>12
    <2> QED BY <1>6, <2>1, <2>2
  <1> QED BY <1>7, <1>8, <1>9, <1>10, <1>13, KeepsOrder

\* add_block_param, add_block_param_named.
LEMMA AddBlockParamInv ==
    ASSUME IInv, NEW b, NEW ty, AddBlockParam(b, ty)
    PROVE  IInv' /\ Grows
  <1>1. /\ b \in 1..BlockCount /\ b # Entry /\ EmptyBlock(b) /\ ty \in ValTypes
        /\ sig' = sig /\ insts' = insts /\ terms' = terms /\ current' = current
        /\ BlockCount' = BlockCount
    BY DEF AddBlockParam, IsBlock, NotEntry, BlockCount
  <1>2. /\ BlockCount \in Nat /\ Len(values) \in Nat /\ DOMAIN values = 1..Len(values)
        /\ bparams[b] \in Seq(BlockParam) /\ Len(bparams[b]) \in Nat
        /\ DOMAIN bparams[b] = 1..Len(bparams[b])
    BY <1>1, Shape DEF IInv
  <1>3. PICK n \in Nat : n = Len(bparams[b]) + 1
    BY <1>2
  <1>4. PICK v \in Nat : v = Len(values) + 1
    BY <1>2
  <1>5. /\ values' \in Seq(ValueData) /\ DOMAIN values' = DOMAIN values \cup {v}
        /\ \A w \in DOMAIN values : values'[w] = values[w]
        /\ values'[v] = [ty |-> ty, kind |-> BlockParamKind(b, n)]
    <2>0. b \in Nat /\ ty \in TypeIds
      BY <1>1, <1>2, TypesAssumption
    <2>1. [ty |-> ty, kind |-> BlockParamKind(b, n)] \in ValueData
      BY <1>3, <2>0, KindShape
    <2>2. values' = Append(values, [ty |-> ty, kind |-> BlockParamKind(b, n)])
      BY <1>3 DEF AddBlockParam
    <2> QED BY <2>1, <2>2, <1>4, AppendAgrees DEF TypeOK, IInv
  <1>6. /\ bparams' \in Seq(Seq(BlockParam)) /\ Len(bparams') = Len(bparams)
        /\ \A c \in 1..BlockCount : c # b => bparams'[c] = bparams[c]
        /\ DOMAIN bparams'[b] = DOMAIN bparams[b] \cup {n}
        /\ \A i \in DOMAIN bparams[b] : bparams'[b][i] = bparams[b][i]
        /\ bparams'[b][n] = [value |-> v, ty |-> ty]
    <2> DEFINE param == [value |-> v, ty |-> ty]
               longer == Append(bparams[b], param)
    <2>1. param \in BlockParam
      BY <1>1 DEF BlockParam
    <2> HIDE DEF param
    <2>2. /\ longer \in Seq(BlockParam) /\ DOMAIN longer = DOMAIN bparams[b] \cup {n}
          /\ \A i \in DOMAIN bparams[b] : longer[i] = bparams[b][i]
          /\ longer[n] = param
      BY <2>1, <1>2, <1>3, AppendAgrees
    <2>3. bparams' = [bparams EXCEPT ![b] = longer]
      BY <1>4 DEF AddBlockParam, param
    <2> HIDE DEF longer
    <2>4. /\ b \in 1..Len(bparams) /\ bparams \in Seq(Seq(BlockParam))
          /\ Len(bparams) = BlockCount
      BY <1>1 DEF TypeOK, IInv
    <2>5. /\ bparams' \in Seq(Seq(BlockParam)) /\ Len(bparams') = Len(bparams)
          /\ \A c \in 1..Len(bparams) : bparams'[c] = IF c = b THEN longer ELSE bparams[c]
      BY <2>2, <2>3, <2>4, ExceptSeq
    <2> QED BY <2>2, <2>4, <2>5 DEF param
  <1>7. TypeOK'
    BY <1>1, <1>5, <1>6 DEF TypeOK, BlockCount, IInv
  <1>8. Grows
    BY <1>1, <1>5, <1>6 DEF Grows
  <1>9. EntryPlain'
    <2>1. SUFFICES ASSUME BlockCount' > 0 PROVE bparams'[Entry] = <<>>
      BY DEF EntryPlain
    <2>2. Entry \in 1..BlockCount /\ Entry # b
      BY <1>1, <1>2, <2>1 DEF Entry
    <2>3. bparams[Entry] = <<>>
      BY <1>1, <2>1 DEF EntryPlain, IInv
    <2> QED BY <1>6, <2>2, <2>3
  <1>10. ASSUME NEW w \in DOMAIN values', w \notin DOMAIN values PROVE ValueInOrder(w)'
    BY <1>1, <1>5, <1>6, <1>10 DEF ValueInOrder, BlockParamKind
  <1>11. ASSUME NEW c \in 1..BlockCount', NEW i \in DOMAIN bparams'[c]
         PROVE  i \in DOMAIN bparams[c] \/ ParamInOrder(c, i)'
    <2>1. CASE c # b
      BY <2>1, <1>1, <1>6
    <2>2. CASE c = b /\ i = n
      BY <2>2, <1>5, <1>6 DEF ParamInOrder
    <2> QED BY <2>1, <2>2, <1>6
  <1> QED BY <1>1, <1>7, <1>8, <1>9, <1>10, <1>11, KeepsOrder

\* set_terminator, for a terminator its caller has checked.
LEMMA SetTerminatorInv ==
    ASSUME IInv, NEW tag, NEW uses, NEW edges, SetTerminator(tag, uses, edges),
           [tag |-> tag, uses |-> uses, edges |-> edges] \in Terminator,
           \A n \in DOMAIN uses : uses[n] \in DOMAIN values,
           tag = "Branch" => \A n \in DOMAIN uses : HasType(uses[n], I1),
           tag = "Return" => /\ uses = <<>> => sig.result = Void
                             /\ \A n \in DOMAIN uses : HasType(uses[n], sig.result),
           \A n \in DOMAIN edges : EdgeInOrder(edges[n])
    PROVE  IInv' /\ Grows
  <1> USE DEF IInv
  <1> DEFINE t == [tag |-> tag, uses |-> uses, edges |-> edges]
  <1>1. /\ UNCHANGED <<sig, values, bparams, insts, current>>
        /\ current \in 1..BlockCount /\ terms[current] = NoTerm
    BY Shape DEF SetTerminator, Open, TypeOK, NoBlock
  <1>2. PICK c \in 1..BlockCount : c = current
    BY <1>1
  <1>3. /\ terms' \in Seq(Terminator) /\ Len(terms') = Len(terms) /\ terms'[c] = t
        /\ \A b \in 1..BlockCount : b # c => terms'[b] = terms[b]
    <2>1. terms' = [terms EXCEPT ![c] = t]
      BY <1>2 DEF SetTerminator
    <2> QED BY <1>2, <2>1, ExceptSeq DEF TypeOK, BlockCount
  <1>4. TypeOK'
    BY <1>1, <1>3 DEF TypeOK, BlockCount
  <1>5. Grows
    BY <1>1, <1>2, <1>3 DEF Grows, BlockCount, EmptyBlock
  <1>6. BlockCount' = BlockCount
    BY <1>3 DEF BlockCount
  <1>7. EntryPlain'
    BY <1>1, <1>6 DEF EntryPlain
  <1>8. TermInOrder(c)'
    <2>1. ASSUME NEW n \in DOMAIN edges PROVE EdgeInOrder(edges[n])'
      BY <1>1, <1>6 DEF EdgeInOrder, HasType
    <2> QED BY <1>1, <1>3, <2>1 DEF TermInOrder, HasType
  <1> QED BY <1>1, <1>3, <1>4, <1>5, <1>6, <1>7, <1>8, KeepsOrder

\* append, for every instruction a caller emits.
LEMMA EmitInv ==
    ASSUME IInv, NEW op \in Ops, NEW args \in Seq(Nat), Emit(op, args)
    PROVE  IInv' /\ Grows
  <1> DEFINE hasResult == op.result # NoType
  <1>1. /\ TypeOK /\ UNCHANGED <<sig, bparams, terms, current>> /\ BlockCount' = BlockCount
        /\ ArgsFit(op, args) /\ current \in 1..BlockCount /\ terms[current] = NoTerm
    BY Shape DEF IInv, TypeOK, Emit, Open, NoBlock, BlockCount
  <1>2. PICK c \in 1..BlockCount : c = current
    BY <1>1
  <1>3. /\ BlockCount \in Nat /\ Len(values) \in Nat /\ DOMAIN values = 1..Len(values)
        /\ insts[c] \in Seq(Instruction) /\ Len(insts[c]) \in Nat
        /\ DOMAIN insts[c] = 1..Len(insts[c])
    BY <1>1, Shape
  <1>4. PICK n \in Nat \ {0} : n = Len(insts[c]) + 1
    BY <1>3
  <1>5. PICK r \in Nat \ {0} : r = Len(values) + 1
    BY <1>3
  <1> DEFINE inst == [op |-> op, args |-> args, result |-> IF hasResult THEN r ELSE NoValue]
             data == [ty |-> op.result, kind |-> InstKind(c, n)]
  <1>6. /\ insts' = [insts EXCEPT ![c] = Append(@, inst)]
        /\ values' = IF hasResult THEN Append(values, data) ELSE values
    BY <1>2, <1>4, <1>5 DEF Emit, Placed
  <1>7. inst \in Instruction
    BY DEF Instruction, NoValue
  <1>8. hasResult => data \in ValueData
    <2>1. c \in Nat /\ op.result \in TypeIds \cup {NoType}
      BY <1>3, BuilderAssumption
    <2> QED BY <2>1, KindShape
  <1> HIDE DEF inst, data
  <1>9. /\ values' \in Seq(ValueData)
        /\ \A v \in DOMAIN values : v \in DOMAIN values' /\ values'[v] = values[v]
        /\ hasResult => DOMAIN values' = DOMAIN values \cup {r} /\ values'[r] = data
        /\ ~hasResult => values' = values
    <2>1. CASE hasResult
      <3>1. values' = Append(values, data) /\ data \in ValueData /\ values \in Seq(ValueData)
        BY <2>1, <1>1, <1>6, <1>8 DEF TypeOK
      <3>2. /\ Append(values, data) \in Seq(ValueData)
            /\ DOMAIN Append(values, data) = DOMAIN values \cup {r}
            /\ \A v \in DOMAIN values : Append(values, data)[v] = values[v]
            /\ Append(values, data)[r] = data
        BY <3>1, <1>5, AppendAgrees
      <3> QED BY <2>1, <3>1, <3>2
    <2>2. CASE ~hasResult
      BY <2>2, <1>1, <1>6 DEF TypeOK
    <2> QED BY <2>1, <2>2
  <1>10. /\ insts' \in Seq(Seq(Instruction)) /\ Len(insts') = Len(insts)
         /\ \A b \in 1..BlockCount : b # c => insts'[b] = insts[b]
         /\ DOMAIN insts'[c] = DOMAIN insts[c] \cup {n}
         /\ \A i \in DOMAIN insts[c] : insts'[c][i] = insts[c][i]
         /\ insts'[c][n] = inst
    <2> DEFINE longer == Append(insts[c], inst)
    <2>1. /\ longer \in Seq(Instruction) /\ DOMAIN longer = DOMAIN insts[c] \cup {n}
          /\ \A i \in DOMAIN insts[c] : longer[i] = insts[c][i]
          /\ longer[n] = inst
      BY <1>3, <1>4, <1>7, AppendAgrees
    <2>2. insts' = [insts EXCEPT ![c] = longer]
      BY <1>6
    <2> HIDE DEF longer
    <2>3. c \in 1..Len(insts) /\ insts \in Seq(Seq(Instruction)) /\ Len(insts) = BlockCount
      BY <1>1 DEF TypeOK
    <2>4. /\ insts' \in Seq(Seq(Instruction)) /\ Len(insts') = Len(insts)
          /\ \A b \in 1..Len(insts) : insts'[b] = IF b = c THEN longer ELSE insts[b]
      BY <2>1, <2>2, <2>3, ExceptSeq
    <2> QED BY <2>1, <2>3, <2>4
  <1>11. TypeOK'
    BY <1>1, <1>9, <1>10 DEF TypeOK, BlockCount
  <1>12. Grows
    BY <1>1, <1>2, <1>9, <1>10 DEF Grows
  <1>13. EntryPlain'
    BY <1>1 DEF IInv, EntryPlain
  <1>14. ASSUME NEW v \in DOMAIN values', v \notin DOMAIN values PROVE ValueInOrder(v)'
    <2>1. hasResult /\ v = r /\ values'[v] = data
      BY <1>9, <1>14
    <2>2. insts'[c][n].result = v /\ n \in DOMAIN insts'[c] /\ c \in 1..BlockCount'
      BY <2>1, <1>1, <1>10 DEF inst
    <2> QED BY <2>1, <2>2 DEF ValueInOrder, data, InstKind
  <1>15. InstInOrder(c, n)'
    <2>1. ASSUME NEW k \in DOMAIN args
          PROVE  /\ args[k] \in DOMAIN values /\ HasType(args[k], op.args[k])'
                 /\ values'[args[k]] = values[args[k]]
                 /\ args[k] < r
                 /\ LET kd == values[args[k]].kind
                    IN  kd.tag = "Inst" /\ kd.block = c => kd.index < n
      <3>1. args[k] \in DOMAIN values /\ values[args[k]].ty = op.args[k]
        BY <1>1 DEF ArgsFit, HasType
      <3>2. args[k] \in DOMAIN values' /\ values'[args[k]] = values[args[k]]
        BY <3>1, <1>9
      <3>3. args[k] < r
        BY <3>1, <1>3, <1>5
      <3>4. LET kd == values[args[k]].kind
            IN  kd.tag = "Inst" /\ kd.block = c => kd.index \in DOMAIN insts[c]
        BY <3>1 DEF IInv, ValueInOrder
      <3>5. \A i \in DOMAIN insts[c] : i < n
        BY <1>3, <1>4
      <3> QED BY <3>1, <3>2, <3>3, <3>4, <3>5 DEF HasType
    <2>2. ArgsFit(op, args)'
      BY <2>1, <1>1 DEF ArgsFit
    <2>3. /\ insts'[c][n] = inst /\ inst.op = op /\ inst.args = args
          /\ inst.result = IF hasResult THEN r ELSE NoValue
      BY <1>10 DEF inst
    <2>4. hasResult => r \in DOMAIN values' /\ values'[r] = data
      BY <1>9
    <2> QED BY <2>1, <2>2, <2>3, <2>4 DEF InstInOrder, data, NoValue
  <1>16. ASSUME NEW b \in 1..BlockCount', NEW i \in DOMAIN insts'[b]
         PROVE  i \in DOMAIN insts[b] \/ InstInOrder(b, i)'
    <2>1. CASE b # c
      BY <2>1, <1>1, <1>10
    <2>2. CASE b = c /\ i = n
      BY <2>2, <1>15
    <2> QED BY <2>1, <2>2, <1>10
  <1> QED BY <1>1, <1>11, <1>12, <1>13, <1>14, <1>16, KeepsOrder

\* What a caller passes for a list of values.
LEMMA ArgListShape == ASSUME TypeOK, NEW args \in ArgLists PROVE args \in Seq(Nat)
  <1>1. PICK n \in 0..MaxArgs : args \in [1..n -> ValueInputs]
    BY DEF ArgLists
  <1>2. ValueInputs \subseteq Nat
    BY Shape DEF ValueInputs
  <1>3. n \in Nat
    BY BuilderAssumption
  <1>4. args \in [1..n -> Nat]
    BY <1>1, <1>2
  <1> QED BY <1>3, <1>4, FunctionIsSeq

\* Edges check_branch_args lets through.
LEMMA PassingEdge ==
    ASSUME NEW e \in PassingEdges, TypeOK
    PROVE  EdgeInOrder(e) /\ e \in [to : Nat, args : Seq(Nat)]
  <1>1. e.to \in BlockInputs /\ e.args \in ArgLists /\ ArgsMatch(e)
    BY DEF PassingEdges
  <1>2. e.args \in Seq(Nat)
    BY <1>1, ArgListShape
  <1>3. e.to \in Nat
    BY <1>1, Shape DEF ArgsMatch, IsBlock
  <1>4. e \in [to : Nat, args : Seq(Nat)]
    BY <1>2, <1>3 DEF PassingEdges
  <1>5. Len(e.args) \in Nat
    BY <1>2, LenProperties
  <1> QED BY <1>1, <1>4, <1>5 DEF EdgeInOrder, ArgsMatch, IsBlock

LEMMA NextInv == ASSUME IInv, [Next]_vars PROVE IInv' /\ (UNCHANGED vars \/ Grows)
  <1>0. TypeOK /\ BlockCount \in Nat
    BY Shape DEF IInv
  <1>1. CASE FunctionBuilder
    BY <1>0, <1>1, CursorInv DEF FunctionBuilder, NoBlock
  <1>2. CASE AppendBlock
    BY <1>2, EmptySeq, NewBlockInv DEF AppendBlock
  <1>3. ASSUME NEW b \in BlockInputs, SwitchTo(b) PROVE IInv' /\ Grows
    BY <1>0, <1>3, CursorInv DEF SwitchTo, IsBlock
  <1>4. ASSUME NEW tys \in TypeLists, AppendBlockWithParams(tys) PROVE IInv' /\ Grows
    <2>1. PICK n \in 0..Len(tys) :
            /\ Accepted(tys, n)
            /\ NewBlock(IF BlockCount = 0 THEN <<>> ELSE SubSeq(tys, 1, n))
      BY <1>4 DEF AppendBlockWithParams
    <2>2. CASE BlockCount = 0
      BY <2>1, <2>2, EmptySeq, NewBlockInv
    <2>3. CASE BlockCount # 0
      <3>1. n \in Int /\ \A i \in 1..n : tys[i] \in ValTypes
        BY <2>1 DEF Accepted
      <3>2. SubSeq(tys, 1, n) \in Seq(ValTypes)
        BY <3>1, SubSeqProperties
      <3> QED BY <2>1, <2>3, <3>2, NewBlockInv
    <2> QED BY <2>2, <2>3
  <1>5. ASSUME NEW b \in BlockInputs, NEW ty \in TypeIds, AddBlockParam(b, ty)
        PROVE  IInv' /\ Grows
    BY <1>5, AddBlockParamInv
  <1>6. ASSUME NEW op \in Ops, NEW args \in ArgLists, Emit(op, args) PROVE IInv' /\ Grows
    BY <1>0, <1>6, ArgListShape, EmitInv
  <1>7. ASSUME NEW e \in PassingEdges, Jump(e) PROVE IInv' /\ Grows
    <2>1. EdgeInOrder(e) /\ e \in [to : Nat, args : Seq(Nat)]
      BY <1>0, PassingEdge
    <2>2. SetTerminator("Jump", <<>>, <<e>>)
      BY <1>7 DEF Jump
    <2>3. [tag |-> "Jump", uses |-> <<>>, edges |-> <<e>>] \in Terminator
      BY <2>1 DEF Terminator
    <2> QED BY <2>1, <2>2, <2>3, SetTerminatorInv
  <1>8. ASSUME NEW c \in ValueInputs, NEW e1 \in PassingEdges, NEW e2 \in PassingEdges,
               Branch(c, e1, e2)
        PROVE  IInv' /\ Grows
    <2>1. /\ EdgeInOrder(e1) /\ e1 \in [to : Nat, args : Seq(Nat)]
          /\ EdgeInOrder(e2) /\ e2 \in [to : Nat, args : Seq(Nat)]
      BY <1>0, PassingEdge
    <2>2. SetTerminator("Branch", <<c>>, <<e1, e2>>) /\ HasType(c, I1) /\ c \in DOMAIN values
      BY <1>8 DEF Branch, HasType
    <2>3. [tag |-> "Branch", uses |-> <<c>>, edges |-> <<e1, e2>>] \in Terminator
      BY <2>1, <2>2, <1>0, Shape DEF Terminator
    <2>4. \A n \in DOMAIN <<e1, e2>> : EdgeInOrder(<<e1, e2>>[n])
      BY <2>1
    <2>5. \A n \in DOMAIN <<c>> : <<c>>[n] \in DOMAIN values /\ HasType(<<c>>[n], I1)
      BY <2>2
    <2> QED BY <2>2, <2>3, <2>4, <2>5, SetTerminatorInv
  <1>9. ASSUME NEW v \in ValueInputs, Ret(v) PROVE IInv' /\ Grows
    <2>1. /\ SetTerminator("Return", <<v>>, <<>>)
          /\ HasType(v, sig.result) /\ v \in DOMAIN values
      BY <1>9 DEF Ret, HasType
    <2>2. [tag |-> "Return", uses |-> <<v>>, edges |-> <<>>] \in Terminator
      BY <2>1, <1>0, Shape DEF Terminator
    <2> QED BY <2>1, <2>2, SetTerminatorInv
  <1>10. CASE RetVoid
    <2>1. [tag |-> "Return", uses |-> <<>>, edges |-> <<>>] \in Terminator
      BY DEF Terminator
    <2> QED BY <1>10, <2>1, SetTerminatorInv DEF RetVoid
  <1>11. CASE Unreachable
    <2>1. [tag |-> "Unreachable", uses |-> <<>>, edges |-> <<>>] \in Terminator
      BY DEF Terminator
    <2> QED BY <1>11, <2>1, SetTerminatorInv DEF Unreachable
  <1>12. CASE UNCHANGED vars
    BY <1>0, <1>12, CursorInv DEF vars, TypeOK
  <1> QED BY <1>1, <1>2, <1>3, <1>4, <1>5, <1>6, <1>7, <1>8, <1>9, <1>10, <1>11, <1>12 DEF Next

LEMMA Invariance == Spec => []IInv
  <1>1. IInv /\ [Next]_vars => IInv'
    BY NextInv
  <1> QED BY InitInv, <1>1, PTL DEF Spec

-----------------------------------------------------------------------------
(* What follows for the verifier                                           *)

\* The function the verifier is given.
LEMMA FnFields ==
    /\ Fn.params = [i \in DOMAIN sig.types |-> [value |-> i, ty |-> sig.types[i]]]
    /\ Fn.result = sig.result
    /\ Fn.values = values /\ Fn.bparams = bparams /\ Fn.insts = insts /\ Fn.terms = terms
  BY DEF Fn

LEMMA FnBlocks == ASSUME TypeOK PROVE BlockIds(Fn) = 1..BlockCount /\ Arena(Fn) = DOMAIN values
  BY FnFields, Shape DEF BlockIds, Arena

\* An edge of the function is an edge of one of its terminators.
LEMMA FnEdges ==
    ASSUME IInv, NEW e \in Edges(Fn)
    PROVE  EdgeInOrder(e) /\ DOMAIN e.args = 1..Len(e.args) /\ Len(e.args) \in Nat
  <1>0. TypeOK
    BY DEF IInv
  <1>1. PICK b \in 1..BlockCount : e \in Range(terms[b].edges)
    BY <1>0, FnBlocks, FnFields DEF Edges
  <1>2. PICK n \in DOMAIN terms[b].edges : e = terms[b].edges[n]
    BY <1>1 DEF Range
  <1>3. terms[b] \in Terminator
    BY <1>0, Shape
  <1> QED BY <1>2, <1>3, TermEdges DEF IInv, TermInOrder

\* Every definition the verifier finds is the one the arena names.
LEMMA SitesAgree ==
    ASSUME IInv, NEW s \in DefSites(Fn)
    PROVE  s.value \in DOMAIN values /\ values[s.value].kind = s.kind
  <1>0. TypeOK
    BY DEF IInv
  <1>1. ASSUME NEW i \in DOMAIN Fn.params, s = Site(Fn.params[i].value, ParamKind(i))
        PROVE  s.value \in DOMAIN values /\ values[s.value].kind = s.kind
    <2>1. i \in DOMAIN sig.types /\ s.value = i /\ s.kind = ParamKind(i)
      BY <1>1, FnFields DEF Site
    <2>2. ParamsFirst
      BY DEF IInv
    <2>3. i \in DOMAIN values /\ values[i] = [ty |-> sig.types[i], kind |-> ParamKind(i)]
      BY <2>1, <2>2 DEF ParamsFirst
    <2> QED BY <2>1, <2>3
  <1>2. ASSUME NEW b \in 1..BlockCount, NEW i \in DOMAIN bparams[b],
               s = Site(bparams[b][i].value, BlockParamKind(b, i))
        PROVE  s.value \in DOMAIN values /\ values[s.value].kind = s.kind
    <2>1. ParamInOrder(b, i)
      BY DEF IInv
    <2>2. s.value = bparams[b][i].value /\ s.kind = BlockParamKind(b, i)
      BY <1>2 DEF Site
    <2> QED BY <2>1, <2>2 DEF ParamInOrder
  <1>3. ASSUME NEW b \in 1..BlockCount, NEW i \in DOMAIN insts[b], insts[b][i].result \in DOMAIN values,
               s = Site(insts[b][i].result, InstKind(b, i))
        PROVE  s.value \in DOMAIN values /\ values[s.value].kind = s.kind
    <2>1. insts[b][i].result # NoValue
      <3>1. NoValue \notin DOMAIN values
        BY <1>0, Shape DEF NoValue
      <3> QED BY <1>3, <3>1
    <2>2. InstInOrder(b, i)
      BY DEF IInv
    <2>3. s.value = insts[b][i].result /\ s.kind = InstKind(b, i)
      BY <1>3 DEF Site
    <2>4. values[insts[b][i].result] = [ty |-> insts[b][i].op.result, kind |-> InstKind(b, i)]
      BY <2>1, <2>2 DEF InstInOrder
    <2>5. values[insts[b][i].result].kind = InstKind(b, i)
      BY <2>4
    <2> QED BY <1>3, <2>3, <2>5
  <1>4. BlockIds(Fn) = 1..BlockCount /\ Arena(Fn) = DOMAIN values
    BY <1>0, FnBlocks
  <1>5. CASE \E i \in DOMAIN Fn.params : s = Site(Fn.params[i].value, ParamKind(i))
    BY <1>1, <1>5
  <1>6. CASE \E b \in BlockIds(Fn) : \E i \in DOMAIN Fn.bparams[b] :
               s = Site(Fn.bparams[b][i].value, BlockParamKind(b, i))
    BY <1>2, <1>4, <1>6, FnFields
  <1>7. CASE \E b \in BlockIds(Fn) :
               \E i \in {j \in DOMAIN Fn.insts[b] : Fn.insts[b][j].result \in Arena(Fn)} :
                 s = Site(Fn.insts[b][i].result, InstKind(b, i))
    BY <1>3, <1>4, <1>7, FnFields
  <1> QED BY <1>5, <1>6, <1>7 DEF DefSites

\* No error about definitions.
LEMMA NoDefinitionErrors ==
    ASSUME IInv
    PROVE  /\ ~ValueRedefined(Fn) /\ ~UndefinedValue(Fn) /\ ~InconsistentDefinition(Fn)
           /\ ~UnknownResult(Fn) /\ ~UnknownOperand(Fn)
  <1>0. TypeOK
    BY DEF IInv
  <1>1. ~ValueRedefined(Fn)
    <2> SUFFICES ASSUME NEW s \in DefSites(Fn), NEW t \in DefSites(Fn), s.value = t.value
                 PROVE  s = t
      BY DEF ValueRedefined
    <2>1. s.kind = t.kind
      BY SitesAgree
    <2>2. s = Site(s.value, s.kind) /\ t = Site(t.value, t.kind)
      BY DEF DefSites, Site
    <2> QED BY <2>1, <2>2
  <1>2. \A v \in DOMAIN values : values[v].kind # Reserved /\ DefinedAsClaimed(Fn, v)
    <2> SUFFICES ASSUME NEW v \in DOMAIN values
                 PROVE  values[v].kind # Reserved /\ DefinedAsClaimed(Fn, v)
      OBVIOUS
    <2> DEFINE kd == values[v].kind
    <2>1. ValueInOrder(v)
      BY DEF IInv
    <2>2. CASE kd.tag = "Param"
      <3>1. kd = ParamKind(v) /\ v \in DOMAIN sig.types /\ values[v].ty = sig.types[v]
        BY <2>1, <2>2 DEF ValueInOrder
      <3>2. v \in DOMAIN Fn.params /\ Fn.params[v] = [value |-> v, ty |-> sig.types[v]]
        BY <3>1, FnFields
      <3>3. Site(v, kd) \in DefSites(Fn)
        BY <3>1, <3>2 DEF DefSites
      <3> QED BY <2>2, <3>1, <3>2, <3>3, FnFields DEF DefinedAsClaimed, ParamKind, Reserved
    <2>3. CASE kd.tag = "BlockParam"
      <3>1. /\ kd = BlockParamKind(kd.block, kd.index)
            /\ kd.block \in BlockIds(Fn) /\ kd.index \in DOMAIN Fn.bparams[kd.block]
            /\ Fn.bparams[kd.block][kd.index] = [value |-> v, ty |-> values[v].ty]
        BY <1>0, <2>1, <2>3, FnBlocks, FnFields DEF ValueInOrder
      <3>2. Site(v, kd) \in DefSites(Fn)
        BY <3>1 DEF DefSites
      <3> QED BY <2>3, <3>1, <3>2, FnFields DEF DefinedAsClaimed, Reserved
    <2>4. CASE kd.tag = "Inst"
      <3>1. /\ kd = InstKind(kd.block, kd.index)
            /\ kd.block \in BlockIds(Fn) /\ kd.index \in DOMAIN Fn.insts[kd.block]
            /\ Fn.insts[kd.block][kd.index].result = v /\ v \in Arena(Fn)
        BY <1>0, <2>1, <2>4, FnBlocks, FnFields DEF ValueInOrder
      <3>2. Site(v, kd) \in DefSites(Fn)
        BY <3>1 DEF DefSites
      <3> QED BY <2>4, <3>1, <3>2, FnFields DEF DefinedAsClaimed, Reserved
    <2> QED BY <2>1, <2>2, <2>3, <2>4 DEF ValueInOrder
  <1>3. ~UndefinedValue(Fn) /\ ~InconsistentDefinition(Fn)
    BY <1>0, <1>2, FnBlocks, FnFields DEF UndefinedValue, InconsistentDefinition
  <1>4. ~UnknownResult(Fn)
    BY <1>0, FnBlocks, FnFields DEF UnknownResult, IInv, InstInOrder
  <1>5. ~UnknownOperand(Fn)
    <2> SUFFICES ASSUME NEW b \in 1..BlockCount, NEW i \in DOMAIN insts[b],
                        NEW n \in DOMAIN insts[b][i].args
                 PROVE  insts[b][i].args[n] \in DOMAIN values
      BY <1>0, FnBlocks, FnFields DEF UnknownOperand, Range
    <2> QED BY DEF IInv, InstInOrder, ArgsFit, HasType
  <1> QED BY <1>1, <1>3, <1>4, <1>5

\* No error about types, signatures or edges, the count of edge arguments apart, and
\* values of type void that a void function returns.
LEMMA NoTypeErrors ==
    ASSUME IInv
    PROVE  /\ ~InvalidSignature(Fn) /\ ~EntryBlockWithParams(Fn) /\ ~TypeError(Fn)
           /\ ~UnknownBlock(Fn) /\ ~BlockArgTypeMismatch(Fn)
           /\ ~ConditionNotI1(Fn)
           /\ ReturnMismatch(Fn) =>
                sig.result = Void /\ \E v \in DOMAIN values : HasType(v, Void)
  <1>0. /\ TypeOK /\ ParamsFirst /\ EntryPlain
        /\ BlockIds(Fn) = 1..BlockCount /\ Arena(Fn) = DOMAIN values
        /\ BlockCount \in Nat /\ Len(values) \in Nat /\ DOMAIN values = 1..Len(values)
    BY FnBlocks, Shape DEF IInv
  <1>1. /\ sig.types \in Seq(ValTypes) /\ sig.result \in ValTypes \cup {Void}
        /\ Len(sig.types) \in Nat /\ DOMAIN sig.types = 1..Len(sig.types)
    BY <1>0, SigShape DEF TypeOK
  <1>2. ~InvalidSignature(Fn)
    <2>1. Len(values) >= Len(Fn.params)
      <3>1. Len(Fn.params) = Len(sig.types)
        <4>1. Fn.params \in [1..Len(sig.types) -> [value : Nat, ty : ValTypes]]
          BY <1>1, FnFields, ElementOfSeq
        <4> QED BY <1>1, <4>1, FunctionIsSeq
      <3>2. \A i \in 1..Len(sig.types) : i \in 1..Len(values)
        BY <1>0, <1>1 DEF ParamsFirst
      <3> QED BY <1>0, <1>1, <3>1, <3>2
    <2>2. \A i \in DOMAIN Fn.params : Fn.params[i].ty \in ValTypes
      BY <1>1, FnFields, ElementOfSeq
    <2>3. \A b \in 1..BlockCount : \A i \in DOMAIN bparams[b] : bparams[b][i].ty \in ValTypes
      BY <1>0, Shape DEF BlockParam
    <2> QED BY <1>0, <1>1, <2>1, <2>2, <2>3, FnFields DEF InvalidSignature
  <1>3. ~EntryBlockWithParams(Fn)
    <2>1. terms # <<>> => BlockCount > 0
      BY <1>0, EmptySeq DEF TypeOK, BlockCount
    <2> QED BY <1>0, <2>1, FnFields DEF EntryPlain, EntryBlockWithParams
  <1>4. ~TypeError(Fn)
    <2> SUFFICES ASSUME NEW b \in 1..BlockCount, NEW i \in DOMAIN insts[b]
                 PROVE  ~IllTyped(Fn, insts[b][i])
      BY <1>0, FnFields DEF TypeError
    <2> DEFINE inst == insts[b][i]
    <2>1. InstInOrder(b, i) /\ NoValue \notin DOMAIN values
      BY <1>0 DEF IInv, NoValue
    <2>2. /\ Len(inst.args) = Len(inst.op.args)
          /\ \A n \in DOMAIN inst.args : values[inst.args[n]].ty = inst.op.args[n]
      BY <2>1 DEF InstInOrder, ArgsFit, HasType
    <2>3. /\ inst.result = NoValue <=> inst.op.result = NoType
          /\ inst.result # NoValue => values[inst.result].ty = inst.op.result
      <3>1. /\ inst.result = NoValue <=> inst.op.result = NoType
            /\ inst.result # NoValue =>
                 values[inst.result] = [ty |-> inst.op.result, kind |-> InstKind(b, i)]
        BY <2>1, Zenon DEF InstInOrder
      <3> HIDE DEF inst
      <3>2. inst.result # NoValue => values[inst.result].ty = inst.op.result
        BY <3>1
      <3> QED BY <3>1, <3>2
    <2>4. inst.op.result # NoType => inst.result \in DOMAIN values
      BY <2>1, <2>3 DEF InstInOrder
    <2>5. inst.result \in Arena(Fn) => Fn.values[inst.result].ty = inst.op.result
      BY <2>1, <2>3, <1>0, FnFields
    <2>6. inst.op.result # NoType => inst.result \in Arena(Fn)
      BY <2>4, <1>0
    <2>7. \A n \in DOMAIN inst.args : Fn.values[inst.args[n]].ty = inst.op.args[n]
      BY <2>2, FnFields
    <2>8. inst.result # NoValue => inst.op.result # NoType
      BY <2>3
    <2>9. Len(inst.args) = Len(inst.op.args)
      BY <2>2
    <2> HIDE DEF inst
    <2>10. ~IllTyped(Fn, inst)
      BY <2>5, <2>6, <2>7, <2>8, <2>9 DEF IllTyped
    <2> QED BY <2>10 DEF inst
  <1>5. ~UnknownBlock(Fn)
    BY <1>0, FnEdges DEF UnknownBlock, EdgeInOrder
  <1>6. ~BlockArgTypeMismatch(Fn)
    BY <1>0, FnEdges, FnFields DEF BlockArgTypeMismatch, EdgeInOrder, HasType
  <1>7. ASSUME NEW b \in 1..BlockCount, NEW v \in Range(terms[b].uses)
        PROVE  /\ terms[b].tag = "Branch" => values[v].ty = I1
               /\ terms[b].tag = "Return" => HasType(v, sig.result)
    <2>1. PICK n \in DOMAIN terms[b].uses : v = terms[b].uses[n]
      BY DEF Range
    <2>2. TermInOrder(b)
      BY DEF IInv
    <2> QED BY <2>1, <2>2 DEF TermInOrder, HasType
  <1>8. ~ConditionNotI1(Fn)
    BY <1>0, <1>7, FnFields DEF ConditionNotI1
  <1>9. ASSUME ReturnMismatch(Fn)
        PROVE  sig.result = Void /\ \E v \in DOMAIN values : HasType(v, Void)
    <2>1. PICK b \in 1..BlockCount :
            /\ terms[b].tag = "Return"
            /\ \/ terms[b].uses = <<>> /\ sig.result # Void
               \/ terms[b].uses # <<>> /\ sig.result = Void
               \/ \E v \in Range(terms[b].uses) : values[v].ty # sig.result
      BY <1>0, <1>9, FnFields DEF ReturnMismatch
    <2>2. /\ terms[b].uses = <<>> => sig.result = Void
          /\ \A v \in Range(terms[b].uses) : values[v].ty = sig.result
      BY <1>7, <2>1 DEF IInv, TermInOrder, HasType
    <2>3. terms[b].uses # <<>> /\ sig.result = Void
      BY <2>1, <2>2
    <2>4. terms[b].uses \in Seq(Nat)
      BY <1>0, Shape DEF Terminator
    <2>5. 1 \in DOMAIN terms[b].uses
      BY <2>3, <2>4, EmptySeq, LenProperties
    <2>6. HasType(terms[b].uses[1], Void)
      BY <2>1, <2>3, <2>5 DEF IInv, TermInOrder
    <2> QED BY <2>3, <2>6 DEF HasType
  <1> QED BY <1>2, <1>3, <1>4, <1>5, <1>6, <1>8, <1>9

-----------------------------------------------------------------------------
(* What was verified stays verified                                        *)

\* g is f with more in it, but nothing more in the blocks f reaches.
BuiltOn(f, g) ==
    /\ Entry \in BlockIds(f) /\ BlockIds(f) \subseteq BlockIds(g) /\ 0 \notin BlockIds(g)
    /\ \A v \in Arena(f) :
         /\ v \in Arena(g) /\ g.values[v] = f.values[v]
         /\ \/ f.values[v].kind.tag = "Param"
            \/ f.values[v].kind.block \in BlockIds(f)
    /\ \A b \in BlockIds(f) : Reachable(f, b) =>
         /\ g.terms[b] = f.terms[b] /\ g.insts[b] = f.insts[b]
         /\ \A n \in DOMAIN f.terms[b].edges : f.terms[b].edges[n].to \in BlockIds(f)
         /\ TermValues(f.terms[b]) \subseteq Arena(f)
         /\ \A i \in DOMAIN f.insts[b] : Range(f.insts[b][i].args) \subseteq Arena(f)

\* A block that f reaches goes where it went.
LEMMA SameSuccessors ==
    ASSUME NEW f, NEW g, BuiltOn(f, g), NEW b \in BlockIds(f), Reachable(f, b)
    PROVE  Successors(g, b) = Successors(f, b)
  BY DEF BuiltOn, Successors

\* It reaches the blocks f reaches and no others.
LEMMA SameReachable ==
    ASSUME NEW f, NEW g, BuiltOn(f, g), NEW b
    PROVE  (b \in BlockIds(g) /\ Reachable(g, b)) <=> (b \in BlockIds(f) /\ Reachable(f, b))
  <1> DEFINE R == {x \in BlockIds(f) : Reachable(f, x)}
  <1>1. Entry \in R /\ Entry # 0
    BY DEF BuiltOn, Reachable, ClosedAvoiding, Entry
  <1>2. ASSUME NEW x \in R, NEW y \in Successors(f, x) PROVE y \in R
    <2>1. y \in BlockIds(f) /\ y # 0
      BY DEF Successors, BuiltOn
    <2> QED BY <2>1 DEF Reachable, ClosedAvoiding
  <1>3. \A x \in R : Successors(g, x) = Successors(f, x)
    BY SameSuccessors
  <1>4. ASSUME b \in BlockIds(g), Reachable(g, b) PROVE b \in R
    <2>1. R \in SUBSET BlockIds(g)
      BY DEF BuiltOn
    <2>2. ClosedAvoiding(g, R, 0)
      BY <1>1, <1>2, <1>3 DEF ClosedAvoiding
    <2> HIDE DEF R
    <2> QED BY <1>4, <2>1, <2>2 DEF Reachable
  <1>5. ASSUME b \in R PROVE b \in BlockIds(g) /\ Reachable(g, b)
    <2>1. ASSUME NEW S \in SUBSET BlockIds(g), ClosedAvoiding(g, S, 0) PROVE b \in S
      <3>1. Entry \in S
        BY <1>1, <2>1 DEF ClosedAvoiding
      <3>2. ASSUME NEW x \in S \cap R, NEW y \in Successors(f, x) PROVE y \in S \cap R
        <4>1. y \in R /\ y # 0
          BY <1>2, <3>2 DEF BuiltOn
        <4>2. y \in Successors(g, x)
          BY <1>3, <3>2
        <4> HIDE DEF R
        <4> QED BY <2>1, <3>2, <4>1, <4>2 DEF ClosedAvoiding
      <3>3. ClosedAvoiding(f, S \cap R, 0) /\ S \cap R \in SUBSET BlockIds(f)
        BY <1>1, <3>1, <3>2 DEF ClosedAvoiding
      <3> QED BY <1>5, <3>3 DEF Reachable
    <2> QED BY <1>5, <2>1 DEF Reachable, BuiltOn
  <1> QED BY <1>4, <1>5

\* A definition goes on dominating a use in a block that f reaches.
LEMMA DominanceStays ==
    ASSUME NEW f, NEW g, BuiltOn(f, g), NEW d \in BlockIds(f), NEW b \in BlockIds(f),
           Reachable(f, b), StrictlyDominates(f, d, b)
    PROVE  StrictlyDominates(g, d, b)
  <1> DEFINE R == {x \in BlockIds(f) : Reachable(f, x)}
  <1>1. PICK S \in SUBSET (BlockIds(f) \ {d}) : ClosedAvoiding(f, S, d) /\ b \notin S
    BY DEF StrictlyDominates
  <1>2. Entry \in R /\ Entry # 0
    BY DEF BuiltOn, Reachable, ClosedAvoiding, Entry
  <1>3. ASSUME NEW x \in R, NEW y \in Successors(f, x) PROVE y \in R
    <2>1. y \in BlockIds(f) /\ y # 0
      BY DEF Successors, BuiltOn
    <2> QED BY <2>1 DEF Reachable, ClosedAvoiding
  <1>4. \A x \in R : Successors(g, x) = Successors(f, x)
    BY SameSuccessors
  <1>5. ClosedAvoiding(g, S \cap R, d)
    <2> HIDE DEF R
    <2> QED BY <1>1, <1>2, <1>3, <1>4 DEF ClosedAvoiding
  <1>6. S \cap R \in SUBSET (BlockIds(g) \ {d}) /\ b \notin S \cap R
    BY <1>1 DEF BuiltOn
  <1> HIDE DEF R
  <1> QED BY <1>5, <1>6 DEF StrictlyDominates

\* So a use the verifier accepted it accepts again,
LEMMA DominatedUseStays ==
    ASSUME NEW f, NEW g, BuiltOn(f, g), NEW v \in Arena(f), NEW b \in BlockIds(f),
           Reachable(f, b), NEW p, DominatedUse(f, v, b, p)
    PROVE  DominatedUse(g, v, b, p)
  <1> DEFINE kd == f.values[v].kind
  <1>1. v \in Arena(g) /\ g.values[v].kind = kd
    BY DEF BuiltOn
  <1>2. CASE kd.tag \in {"Param", "Reserved"}
    BY <1>1, <1>2 DEF DominatedUse
  <1>3. CASE kd.tag \notin {"Param", "Reserved"}
    <2>1. kd.block \in BlockIds(f)
      BY <1>3 DEF BuiltOn
    <2>2. /\ Reachable(f, kd.block)
          /\ IF kd.block = b THEN (IF kd.tag = "Inst" THEN kd.index ELSE 0) < p
                             ELSE StrictlyDominates(f, kd.block, b)
      BY <1>3, <2>1 DEF DominatedUse
    <2>3. Reachable(g, kd.block) /\ kd.block \in BlockIds(g)
      BY <2>1, <2>2, SameReachable
    <2>4. CASE kd.block = b
      BY <1>1, <1>3, <2>2, <2>3, <2>4 DEF DominatedUse
    <2>5. CASE kd.block # b
      <3>1. StrictlyDominates(g, kd.block, b)
        BY <2>1, <2>2, <2>5, DominanceStays
      <3> QED BY <1>1, <1>3, <2>3, <2>5, <3>1 DEF DominatedUse
    <2> QED BY <2>4, <2>5
  <1> QED BY <1>2, <1>3

\* and blocks f does not reach are not asked.
LEMMA UsesStayDominated ==
    ASSUME NEW f, NEW g, BuiltOn(f, g), ~UseNotDominated(f)
    PROVE  ~UseNotDominated(g)
  <1>1. ASSUME NEW b \in BlockIds(g), Reachable(g, b)
        PROVE  /\ \A i \in DOMAIN g.insts[b] : \A v \in Range(g.insts[b][i].args) :
                    DominatedUse(g, v, b, i)
               /\ \A v \in TermValues(g.terms[b]) :
                    DominatedUse(g, v, b, Len(g.insts[b]) + 1)
    <2>1. b \in BlockIds(f) /\ Reachable(f, b)
      BY <1>1, SameReachable
    <2>2. /\ g.terms[b] = f.terms[b] /\ g.insts[b] = f.insts[b]
          /\ TermValues(f.terms[b]) \subseteq Arena(f)
          /\ \A i \in DOMAIN f.insts[b] : Range(f.insts[b][i].args) \subseteq Arena(f)
      BY <2>1 DEF BuiltOn
    <2>3. ASSUME NEW i \in DOMAIN f.insts[b], NEW v \in Range(f.insts[b][i].args)
          PROVE  DominatedUse(g, v, b, i)
      <3>1. v \in Arena(f) /\ DominatedUse(f, v, b, i)
        BY <2>1, <2>2, <2>3 DEF UseNotDominated
      <3> QED BY <2>1, <3>1, DominatedUseStays
    <2>4. ASSUME NEW v \in TermValues(f.terms[b])
          PROVE  DominatedUse(g, v, b, Len(f.insts[b]) + 1)
      <3>1. v \in Arena(f) /\ DominatedUse(f, v, b, Len(f.insts[b]) + 1)
        BY <2>1, <2>2, <2>4 DEF UseNotDominated
      <3> QED BY <2>1, <3>1, DominatedUseStays
    <2> QED BY <2>2, <2>3, <2>4
  <1>2. ASSUME NEW b \in BlockIds(g), ~Reachable(g, b), NEW v, NEW p
        PROVE  DominatedUse(g, v, b, p)
    BY <1>2 DEF DominatedUse
  <1> QED BY <1>1, <1>2 DEF UseNotDominated

\* What a terminator reads is in the arena.
LEMMA TermValuesExist ==
    ASSUME NEW b, TermInOrder(b)
    PROVE  TermValues(terms[b]) \subseteq DOMAIN values
  <1> SUFFICES ASSUME NEW v \in TermValues(terms[b]) PROVE v \in DOMAIN values
    OBVIOUS
  <1>1. CASE v \in Range(terms[b].uses)
    BY <1>1 DEF TermInOrder, Range
  <1>2. CASE \E n \in DOMAIN terms[b].edges : v \in Range(terms[b].edges[n].args)
    <2>1. PICK n \in DOMAIN terms[b].edges : v \in Range(terms[b].edges[n].args)
      BY <1>2
    <2>2. EdgeInOrder(terms[b].edges[n])
      BY DEF TermInOrder
    <2> QED BY <2>1, <2>2 DEF EdgeInOrder, HasType, Range
  <1> QED BY <1>1, <1>2 DEF TermValues

\* What a verified body keeps: the blocks it reaches are terminated, and so closed to
\* every call.
Settled ==
    /\ terms # <<>> /\ ~sig.variadic
    /\ ~UseNotDominated(Fn)
    /\ \A b \in BlockIds(Fn) : Reachable(Fn, b) => terms[b] # NoTerm

\* A verified body is settled.
LEMMA VerifiedIsSettled == IInv /\ Verified(Fn) /\ terms # <<>> => Settled
  <1> SUFFICES ASSUME IInv, Verified(Fn), terms # <<>> PROVE Settled
    OBVIOUS
  <1>1. ~UseNotDominated(Fn) /\ ~MissingTerminator(Fn) /\ ~VariadicDefinition(Fn)
    BY DEF Verified, Errors, ErrorKinds
  <1>2. Fn.terms = terms /\ Fn.variadic = sig.variadic
    BY DEF Fn
  <1>3. \A b \in BlockIds(Fn) : terms[b] # NoTerm
    BY <1>1, <1>2 DEF MissingTerminator, NoTerm
  <1>4. ~sig.variadic
    BY <1>1, <1>2 DEF VariadicDefinition
  <1> QED BY <1>1, <1>3, <1>4 DEF Settled

\* The errors a builder can leave.
LEMMA FewErrors == IInv => BuilderErrorsBounded
  BY NoDefinitionErrors, NoTypeErrors DEF BuilderErrorsBounded, Errors, ErrorKinds

\* A settled body has only the errors of blocks out of reach,
LEMMA SettledErrors ==
    ASSUME IInv, Settled
    PROVE  /\ Errors(Fn) \subseteq {"MissingTerminator", "BlockArgCountMismatch", "ReturnMismatch"}
           /\ "ReturnMismatch" \in Errors(Fn) => sig.result = Void
  <1>1. BuilderErrorsBounded
    BY FewErrors
  <1>2. Fn.terms = terms /\ Fn.variadic = sig.variadic
    BY DEF Fn
  <1>3. ~UseNotDominated(Fn) /\ ~InvalidDeclaration(Fn) /\ ~VariadicDefinition(Fn)
    BY <1>2 DEF Settled, InvalidDeclaration, VariadicDefinition
  <1>4. \A e \in Errors(Fn) : e \notin {"UseNotDominated", "InvalidDeclaration", "VariadicDefinition"}
    BY <1>3 DEF Errors, ErrorKinds
  <1> QED BY <1>1, <1>4 DEF BuilderErrorsBounded

\* and no call unsettles it.
LEMMA SettledStays == ASSUME IInv, IInv', Grows, Settled PROVE Settled'
  <1> DEFINE f == Fn
             g == Fn'
  <1>1. /\ f.terms = terms /\ f.insts = insts /\ f.values = values /\ f.variadic = sig.variadic
        /\ g.terms = terms' /\ g.insts = insts' /\ g.values = values' /\ g.variadic = sig'.variadic
    BY DEF Fn
  <1>2. /\ BlockIds(f) = 1..BlockCount /\ Arena(f) = DOMAIN values
        /\ BlockIds(g) = 1..BlockCount' /\ Arena(g) = DOMAIN values'
    <2>1. BlockIds(f) = DOMAIN terms /\ BlockIds(g) = DOMAIN terms'
      BY <1>1 DEF BlockIds
    <2>2. DOMAIN terms = 1..Len(terms) /\ DOMAIN terms' = 1..Len(terms')
      BY LenProperties DEF IInv, TypeOK
    <2> QED BY <1>1, <2>1, <2>2 DEF Arena, BlockCount
  <1>3. Entry \in BlockIds(f) /\ BlockIds(f) \subseteq BlockIds(g) /\ 0 \notin BlockIds(g)
    <2>1. BlockCount \in Nat /\ BlockCount # 0 /\ BlockCount' \in Nat
      BY LenProperties DEF IInv, TypeOK, Settled, BlockCount
    <2> QED BY <1>2, <2>1 DEF Entry, Grows
  <1>4. ASSUME NEW v \in Arena(f)
        PROVE  /\ v \in Arena(g) /\ g.values[v] = f.values[v]
               /\ f.values[v].kind.tag = "Param" \/ f.values[v].kind.block \in BlockIds(f)
    <2>1. v \in DOMAIN values' /\ values'[v] = values[v]
      BY <1>2, <1>4 DEF Grows
    <2>2. ValueInOrder(v)
      BY <1>2, <1>4 DEF IInv
    <2>3. values[v].kind.tag = "Param" \/ values[v].kind.block \in 1..BlockCount
      BY <2>2 DEF ValueInOrder
    <2> QED BY <1>1, <1>2, <2>1, <2>3
  <1>5. ASSUME NEW b \in BlockIds(f), Reachable(f, b)
        PROVE  /\ terms[b] # NoTerm
               /\ g.terms[b] = f.terms[b] /\ g.insts[b] = f.insts[b]
               /\ \A n \in DOMAIN f.terms[b].edges : f.terms[b].edges[n].to \in BlockIds(f)
               /\ TermValues(f.terms[b]) \subseteq Arena(f)
               /\ \A i \in DOMAIN f.insts[b] : Range(f.insts[b][i].args) \subseteq Arena(f)
    <2>1. terms[b] # NoTerm
      BY <1>5 DEF Settled
    <2>2. terms'[b] = terms[b] /\ insts'[b] = insts[b]
      BY <1>2, <1>5, <2>1 DEF Grows
    <2>3. TermInOrder(b) /\ \A i \in DOMAIN insts[b] : InstInOrder(b, i)
      BY <1>2, <1>5 DEF IInv
    <2>4. \A n \in DOMAIN terms[b].edges : terms[b].edges[n].to \in 1..BlockCount
      BY <2>3 DEF TermInOrder, EdgeInOrder
    <2>5. TermValues(terms[b]) \subseteq DOMAIN values
      BY <2>3, TermValuesExist
    <2>6. ASSUME NEW i \in DOMAIN insts[b], NEW n \in DOMAIN insts[b][i].args
          PROVE  insts[b][i].args[n] \in DOMAIN values
      BY <2>3 DEF InstInOrder, ArgsFit, HasType
    <2>7. \A i \in DOMAIN insts[b] : Range(insts[b][i].args) \subseteq DOMAIN values
      BY <2>6 DEF Range
    <2> QED BY <1>1, <1>2, <2>1, <2>2, <2>4, <2>5, <2>7
  <1>6. BuiltOn(f, g)
    <2> HIDE DEF f, g
    <2> QED BY <1>3, <1>4, <1>5 DEF BuiltOn
  <1>7. ~UseNotDominated(g)
    <2>1. ~UseNotDominated(f)
      BY DEF Settled
    <2> HIDE DEF f, g
    <2> QED BY <1>6, <2>1, UsesStayDominated
  <1>8. ASSUME NEW b \in BlockIds(g), Reachable(g, b) PROVE terms'[b] # NoTerm
    <2>1. b \in BlockIds(f) /\ Reachable(f, b)
      <3> HIDE DEF f, g
      <3> QED BY <1>6, <1>8, SameReachable
    <2> QED BY <1>1, <1>5, <2>1
  <1>9. terms' # <<>> /\ ~sig'.variadic
    <2>1. BlockIds(g) = DOMAIN terms'
      BY <1>1 DEF BlockIds
    <2>2. Entry \in DOMAIN terms'
      BY <1>3, <2>1
    <2>3. terms' # <<>>
      BY <2>2
    <2> QED BY <2>3 DEF Settled, Grows
  <1> QED BY <1>7, <1>8, <1>9 DEF Settled, NoTerm

-----------------------------------------------------------------------------
(* The theorems                                                            *)

\* Whatever calls are made, the tables stay well-formed: ids handed out name something.
THEOREM BuilderTypes == Spec => []TypeOK
  <1>1. IInv => TypeOK
    BY DEF IInv
  <1> QED BY <1>1, Invariance, PTL

\* The verifier can complain of a built function only of an open block, an edge that
\* became too short, a use that is not dominated, the linkage, and a void value returned
\* from a void function.
THEOREM BuilderErrors == Spec => []BuilderErrorsBounded
  BY FewErrors, Invariance, PTL

\* An edge goes on feeding the parameters its target had when it was made.
THEOREM EdgesFeedPrefix == Spec => []EdgeArgsPrefix
  <1>1. IInv => EdgeArgsPrefix
    <2> SUFFICES ASSUME IInv PROVE EdgeArgsPrefix
      OBVIOUS
    <2>1. BlockIds(Fn) = 1..BlockCount
      BY FnBlocks DEF IInv
    <2> QED BY <2>1, FnEdges DEF EdgeArgsPrefix, EdgeInOrder
  <1> QED BY <1>1, Invariance, PTL

\* In one block definitions stand before uses.
THEOREM UsesInOrder == Spec => []SameBlockUsesInOrder
  <1>1. IInv => SameBlockUsesInOrder
    <2> SUFFICES ASSUME IInv, NEW b \in 1..BlockCount
                 PROVE  /\ \A i \in DOMAIN insts[b] : \A v \in Range(insts[b][i].args) :
                             LET k == values[v].kind IN k.tag = "Inst" /\ k.block = b => k.index < i
                        /\ \A v \in TermValues(terms[b]) :
                             LET k == values[v].kind
                             IN  k.tag = "Inst" /\ k.block = b => k.index <= Len(insts[b])
      BY DEF SameBlockUsesInOrder
    <2>1. ASSUME NEW i \in DOMAIN insts[b], NEW n \in DOMAIN insts[b][i].args
          PROVE  LET k == values[insts[b][i].args[n]].kind
                 IN  k.tag = "Inst" /\ k.block = b => k.index < i
      BY DEF IInv, InstInOrder
    <2>2. TermInOrder(b) /\ TermValues(terms[b]) \subseteq DOMAIN values
      BY TermValuesExist DEF IInv
    <2>3. ASSUME NEW v \in TermValues(terms[b])
          PROVE  LET k == values[v].kind
                 IN  k.tag = "Inst" /\ k.block = b => k.index <= Len(insts[b])
      <3>1. ValueInOrder(v)
        BY <2>2 DEF IInv
      <3>2. Len(insts[b]) \in Nat /\ DOMAIN insts[b] = 1..Len(insts[b])
        BY Shape DEF IInv
      <3> QED BY <3>1, <3>2 DEF ValueInOrder
    <2> QED BY <2>1, <2>3 DEF Range
  <1> QED BY <1>1, Invariance, PTL

\* Results are younger than their operands.
THEOREM OlderOperands == Spec => []OperandsOlder
  <1>1. IInv => OperandsOlder
    BY DEF IInv, InstInOrder, OperandsOlder, Range
  <1> QED BY <1>1, Invariance, PTL

\* No call changes what is there.
THEOREM BodyGrows == Spec => BodyOnlyGrows
  <1> DEFINE A == /\ IsPrefix(values, values')
                  /\ BlockCount <= BlockCount'
                  /\ \A b \in 1..BlockCount :
                       /\ IsPrefix(bparams[b], bparams'[b]) /\ IsPrefix(insts[b], insts'[b])
                       /\ terms[b] # NoTerm => terms'[b] = terms[b] /\ insts'[b] = insts[b]
                       /\ ~EmptyBlock(b) => bparams'[b] = bparams[b]
  <1>1. ASSUME TypeOK, TypeOK', Grows PROVE A
    <2>1. IsPrefix(values, values')
      BY <1>1, AgreesIsPrefix DEF TypeOK, Grows
    <2>2. BlockCount \in Nat /\ BlockCount' \in Nat
      BY <1>1, LenProperties DEF TypeOK, BlockCount
    <2>3. BlockCount <= BlockCount'
      BY <1>1, <2>2 DEF Grows
    <2>4. ASSUME NEW b \in 1..BlockCount
          PROVE  IsPrefix(bparams[b], bparams'[b]) /\ IsPrefix(insts[b], insts'[b])
      <3>1. /\ bparams[b] \in Seq(BlockParam) /\ bparams'[b] \in Seq(BlockParam)
            /\ insts[b] \in Seq(Instruction) /\ insts'[b] \in Seq(Instruction)
        BY <1>1, <2>2, <2>3, ElementOfSeq DEF TypeOK
      <3>2. /\ \A i \in DOMAIN bparams[b] : i \in DOMAIN bparams'[b] /\ bparams'[b][i] = bparams[b][i]
            /\ \A i \in DOMAIN insts[b] : i \in DOMAIN insts'[b] /\ insts'[b][i] = insts[b][i]
        BY <1>1 DEF Grows
      <3> QED BY <3>1, <3>2, AgreesIsPrefix
    <2> QED BY <1>1, <2>1, <2>3, <2>4 DEF Grows
  <1> HIDE DEF A
  <1>2. ASSUME IInv, IInv', [Next]_vars PROVE [A]_vars
    BY <1>1, <1>2, NextInv DEF IInv
  <1>3. [][A]_vars => BodyOnlyGrows
    BY PTL DEF A, BodyOnlyGrows
  <1> QED BY <1>2, <1>3, Invariance, PTL DEF Spec

\* Once verified a body can only be accused of its new blocks: no call reaches into
\* what was verified.
THEOREM VerifiedBodiesStay == Spec => VerifiedBodyStays
  <1> DEFINE Q == /\ Errors(Fn) \subseteq {"MissingTerminator", "BlockArgCountMismatch",
                                            "ReturnMismatch"}
                  /\ "ReturnMismatch" \in Errors(Fn) => sig.result = Void
             P == Verified(Fn) /\ terms # <<>>
  <1>1. IInv /\ P => Settled
    BY VerifiedIsSettled
  <1>2. IInv /\ Settled => Q
    BY SettledErrors
  <1>3. IInv /\ IInv' /\ Settled /\ [Next]_vars => Settled'
    <2> SUFFICES ASSUME IInv, IInv', Settled, [Next]_vars PROVE Settled'
      OBVIOUS
    <2>1. CASE Grows
      BY <2>1, SettledStays
    <2>2. CASE UNCHANGED vars
      BY <2>2 DEF vars, Settled, Fn
    <2> QED BY <2>1, <2>2, NextInv
  <1> HIDE DEF P, Q
  <1>4. Spec => [](P => []Q)
    BY <1>1, <1>2, <1>3, Invariance, PTL DEF Spec
  <1> QED BY <1>4 DEF P, Q, VerifiedBodyStays
=============================================================================
