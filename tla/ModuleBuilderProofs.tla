------------------------ MODULE ModuleBuilderProofs -------------------------
(***************************************************************************)
(* For every set of names, of types and of operations a caller may use and *)
(* for whatever is interned by hand: what the builder checks type checks,  *)
(* and builder and verifier agree on what that means.                      *)
(*                                                                         *)
(* The verifier collects errors, the builder tests conditions.  Each arm   *)
(* of check_instruction is first shown to report nothing exactly when a    *)
(* conjunction holds (InstructionChecks).  Agreement compares these with   *)
(* the builder's conditions, op by op.  What has type checked goes on      *)
(* doing so in a larger module (InstructionStays, ConstantStays), for the  *)
(* tables and the arenas only ever grow at their ends.                     *)
(*                                                                         *)
(* IInv says of the module, but for the constants interned by hand, that   *)
(* it type checks and of every arena that it is the parameters and the     *)
(* results.  It is closed under the calls: a call that emits appends what  *)
(* Agreement says is well typed, a call that only interns grows a table,   *)
(* and a call that fails after it interned is one of those.                *)
(***************************************************************************)
EXTENDS ModuleBuilder, SequenceTheorems, FiniteSetTheorems, TLAPS

-----------------------------------------------------------------------------
(* Interning                                                               *)

NoDuplicates(table) == \A i, j \in DOMAIN table : table[i] = table[j] => i = j

\* longer starts with table.
Extended(table, longer) ==
    \A i \in DOMAIN table : i \in DOMAIN longer /\ longer[i] = table[i]

\* Interning keeps every id, gives the data one, and makes no second one.
LEMMA InternFacts ==
    ASSUME NEW S, NEW table \in Seq(S), NEW data \in S
    PROVE  LET new == Intern(table, data)
               id == IdOf(table, data)
           IN  /\ new \in Seq(S) /\ Len(table) \in Nat /\ Len(new) \in Nat
               /\ DOMAIN table = 1..Len(table) /\ DOMAIN new = 1..Len(new)
               /\ Len(new) \in {Len(table), Len(table) + 1}
               /\ Extended(table, new)
               /\ id \in DOMAIN new /\ new[id] = data
               /\ \A i \in DOMAIN new : i \notin DOMAIN table => i = id /\ i = Len(table) + 1
               /\ id \notin DOMAIN table => id = Len(table) + 1
               /\ NoDuplicates(table) => NoDuplicates(new)
  <1> DEFINE new == Intern(table, data)
             id == IdOf(table, data)
  <1>1. Len(table) \in Nat /\ DOMAIN table = 1..Len(table)
    BY LenProperties
  <1>2. CASE IdsOf(table, data) = {}
    <2>1. new = Append(table, data) /\ id = Len(table) + 1
      BY <1>2 DEF Intern, IdOf
    <2>2. /\ new \in Seq(S) /\ Len(new) = Len(table) + 1
          /\ \A i \in 1..Len(table) : new[i] = table[i]
          /\ new[Len(table) + 1] = data
      BY <2>1, AppendProperties
    <2>3. DOMAIN new = 1..Len(table) + 1
      BY <2>2, LenProperties
    <2>4. \A i \in DOMAIN table : table[i] # data
      BY <1>2 DEF IdsOf
    <2>5. NoDuplicates(table) => NoDuplicates(new)
      <3> SUFFICES ASSUME NoDuplicates(table), NEW i \in DOMAIN new, NEW j \in DOMAIN new,
                          new[i] = new[j]
                   PROVE  i = j
        BY DEF NoDuplicates
      <3>1. CASE i \in DOMAIN table /\ j \in DOMAIN table
        BY <1>1, <2>2, <3>1 DEF NoDuplicates
      <3>2. CASE i \notin DOMAIN table /\ j \notin DOMAIN table
        BY <1>1, <2>3, <3>2
      <3>3. CASE i \in DOMAIN table /\ j \notin DOMAIN table
        <4>1. j = Len(table) + 1
          BY <1>1, <2>3, <3>3
        <4> QED BY <1>1, <2>2, <2>4, <3>3, <4>1
      <3>4. CASE i \notin DOMAIN table /\ j \in DOMAIN table
        <4>1. i = Len(table) + 1
          BY <1>1, <2>3, <3>4
        <4> QED BY <1>1, <2>2, <2>4, <3>4, <4>1
      <3> QED BY <3>1, <3>2, <3>3, <3>4
    <2> HIDE DEF new, id
    <2>6. Extended(table, new)
      BY <1>1, <2>2, <2>3 DEF Extended
    <2>7. id \in DOMAIN new /\ new[id] = data
      BY <1>1, <2>1, <2>2, <2>3
    <2>8. \A i \in DOMAIN new : i \notin DOMAIN table => i = id /\ i = Len(table) + 1
      BY <1>1, <2>1, <2>3
    <2>9. Len(new) \in Nat /\ DOMAIN new = 1..Len(new)
      BY <1>1, <2>2, <2>3
    <2> USE DEF new, id
    <2> QED BY <1>1, <2>1, <2>2, <2>5, <2>6, <2>7, <2>8, <2>9
  <1>3. CASE IdsOf(table, data) # {}
    <2>1. new = table /\ id = CHOOSE i \in IdsOf(table, data) : TRUE
      BY <1>3 DEF Intern, IdOf
    <2>2. id \in IdsOf(table, data)
      BY <1>3, <2>1
    <2>3. id \in DOMAIN table /\ table[id] = data
      BY <2>2 DEF IdsOf
    <2> HIDE DEF new, id
    <2>4. Extended(table, new)
      BY <2>1 DEF Extended
    <2> USE DEF new, id
    <2> QED BY <1>1, <2>1, <2>3, <2>4
  <1> QED BY <1>2, <1>3

-----------------------------------------------------------------------------
(* The shapes of what the tables hold                                      *)

InstKinds ==
    [op : BinaryOps, lhs : Nat, rhs : Nat] \cup [op : {"alloca"}, ty : Nat]
    \cup [op : {"load"}, ty : Nat, pointer : Nat] \cup [op : {"store"}, pointer : Nat, value : Nat]
    \cup [op : {"ptr_offset"}, pointer : Nat, offset : Nat]
    \cup [op : ConvOps, to : Nat, value : Nat]
    \cup [op : {"call"}, callee : Nat, args : Seq(Nat)]
    \cup [op : {"construct"}, ty : Nat, args : Seq(Nat)]
    \cup [op : {"extract"}, aggregate : Nat, index : Nat]
    \cup [op : {"insert"}, aggregate : Nat, index : Nat, value : Nat]
    \cup [op : {"const"}, constant : Nat]

FunctionShapes ==
    [symbol : Nat, linkage : Linkages, params : Seq(Ids), variadic : BOOLEAN, result : Ids,
     values : Seq(Ids), insts : Seq([kind : InstKinds, result : Nat]), terms : Seq(BOOLEAN)]

\* The entries every table starts with refer to nothing.
ScalarShape(d) == d.tag \in {"Void", "Int", "Float"} /\ References(d) = {} /\ d \in TypeData

\* Void, integer and float data are such entries.
LEMMA ScalarShapes ==
    /\ \A n \in Nat, s \in BOOLEAN : ScalarShape(IntData(n, s))
    /\ \A n \in Nat : ScalarShape(FloatData(n))
    /\ ScalarShape(VoidData)
  <1>1. ASSUME NEW n \in Nat, NEW s \in BOOLEAN PROVE ScalarShape(IntData(n, s))
    <2>1. IntData(n, s).tag = "Int"
      BY DEF IntData
    <2>2. IntData(n, s) \in [tag : {"Int"}, bits : Nat, signed : BOOLEAN]
      BY DEF IntData
    <2> QED BY <2>1, <2>2, Zenon DEF ScalarShape, References, TypeData
  <1>2. ASSUME NEW n \in Nat PROVE ScalarShape(FloatData(n))
    BY DEF ScalarShape, References, FloatData, TypeData
  <1>3. ScalarShape(VoidData)
    BY DEF ScalarShape, References, VoidData, TypeData
  <1> QED BY <1>1, <1>2, <1>3

\* The scalar types: where they are, what they are, and no two alike.
LEMMA ScalarFacts ==
    /\ Scalars \in Seq(TypeData) /\ Len(Scalars) = 14 /\ DOMAIN Scalars = 1..14
    /\ Scalars[VOID] = VoidData /\ Scalars[I1] = IntData(1, FALSE) /\ Scalars[I8] = IntData(8, TRUE)
    /\ Scalars[F32] = FloatData(32) /\ Scalars[F64] = FloatData(64)
    /\ {VOID, I1, I8, F32, F64} \subseteq DOMAIN Scalars
    /\ \A t \in DOMAIN Scalars : References(Scalars[t]) = {} /\ Scalars[t].tag \in {"Void", "Int", "Float"}
    /\ NoDuplicates(Scalars)
  <1>1. /\ Len(Scalars) = 14 /\ DOMAIN Scalars = 1..14
    BY DEF Scalars
  <1>2. /\ Scalars[1] = VoidData /\ Scalars[2] = IntData(1, FALSE)
        /\ Scalars[3] = IntData(8, TRUE) /\ Scalars[4] = IntData(16, TRUE)
        /\ Scalars[5] = IntData(32, TRUE) /\ Scalars[6] = IntData(64, TRUE)
        /\ Scalars[7] = IntData(128, TRUE)
        /\ Scalars[8] = IntData(8, FALSE) /\ Scalars[9] = IntData(16, FALSE)
        /\ Scalars[10] = IntData(32, FALSE) /\ Scalars[11] = IntData(64, FALSE)
        /\ Scalars[12] = IntData(128, FALSE)
        /\ Scalars[13] = FloatData(32) /\ Scalars[14] = FloatData(64)
    BY DEF Scalars
  <1>3. \A t \in 1..14 : t \in {1, 2, 3, 4, 5, 6, 7, 8, 9, 10, 11, 12, 13, 14}
    OBVIOUS
  <1>4. \A t \in 1..14 : ScalarShape(Scalars[t])
    <2>1. ScalarShape(Scalars[1]) /\ ScalarShape(Scalars[13]) /\ ScalarShape(Scalars[14])
      BY <1>2, ScalarShapes
    <2>2. \A n \in Nat : ScalarShape(IntData(n, TRUE)) /\ ScalarShape(IntData(n, FALSE))
      BY ScalarShapes, Zenon
    <2>3. /\ 1 \in Nat /\ 8 \in Nat /\ 16 \in Nat /\ 32 \in Nat /\ 64 \in Nat /\ 128 \in Nat
      OBVIOUS
    <2>4. ScalarShape(Scalars[2])
      BY <1>2, <2>2, <2>3, Zenon
    <2>5. ScalarShape(Scalars[3])
      BY <1>2, <2>2, <2>3, Zenon
    <2>6. ScalarShape(Scalars[4])
      BY <1>2, <2>2, <2>3, Zenon
    <2>7. ScalarShape(Scalars[5])
      BY <1>2, <2>2, <2>3, Zenon
    <2>8. ScalarShape(Scalars[6])
      BY <1>2, <2>2, <2>3, Zenon
    <2>9. ScalarShape(Scalars[7])
      BY <1>2, <2>2, <2>3, Zenon
    <2>10. ScalarShape(Scalars[8])
      BY <1>2, <2>2, <2>3, Zenon
    <2>11. ScalarShape(Scalars[9])
      BY <1>2, <2>2, <2>3, Zenon
    <2>12. ScalarShape(Scalars[10])
      BY <1>2, <2>2, <2>3, Zenon
    <2>13. ScalarShape(Scalars[11])
      BY <1>2, <2>2, <2>3, Zenon
    <2>14. ScalarShape(Scalars[12])
      BY <1>2, <2>2, <2>3, Zenon
    <2> QED BY <1>3, <2>1, <2>4, <2>5, <2>6, <2>7, <2>8, <2>9, <2>10, <2>11, <2>12, <2>13, <2>14, Zenon
  <1>5. Scalars \in Seq(TypeData)
    <2>1. Scalars = [i \in 1..14 |-> Scalars[i]]
      BY DEF Scalars
    <2>2. Scalars \in [1..14 -> TypeData]
      BY <1>1, <1>4, <2>1 DEF ScalarShape
    <2> QED BY <2>2, SeqDef
  <1>6. NoDuplicates(Scalars)
    <2> SUFFICES ASSUME NEW i \in 1..14, NEW j \in 1..14, Scalars[i] = Scalars[j] PROVE i = j
      BY <1>1 DEF NoDuplicates
    <2>1. Scalars[i].tag = Scalars[j].tag
      OBVIOUS
    <2>2. CASE Scalars[i].tag = "Int"
      <3>1. i \in 2..12 /\ j \in 2..12 /\ Scalars[i].bits = Scalars[j].bits /\ Scalars[i].signed = Scalars[j].signed
        BY <1>2, <1>3, <2>1, <2>2 DEF VoidData, FloatData
      <3> QED BY <1>2, <1>3, <3>1 DEF IntData
    <2>3. CASE Scalars[i].tag # "Int"
      <3>1. i \in {1, 13, 14} /\ j \in {1, 13, 14}
        BY <1>2, <1>3, <2>1, <2>3 DEF IntData
      <3> QED BY <1>2, <3>1, <2>1 DEF VoidData, FloatData
    <2> QED BY <2>2, <2>3
  <1>7. \A t \in 1..14 : References(Scalars[t]) = {} /\ Scalars[t].tag \in {"Void", "Int", "Float"}
    BY <1>4 DEF ScalarShape
  <1> QED BY <1>1, <1>2, <1>5, <1>6, <1>7 DEF VOID, I1, I8, F32, F64

-----------------------------------------------------------------------------
(* When an instruction type checks: each arm of check_instruction reports  *)
(* nothing exactly when a conjunction holds.                               *)

BinaryTyped(m, f, inst) ==
    LET k == inst.kind
        lt == TyOf(f, k.lhs)
        rt == TyOf(f, k.rhs)
    IN  /\ IF k.op \in ShiftOps THEN Holds(m.types, rt, IsInteger) ELSE lt = rt
        /\ lt \in DOMAIN m.types /\ ClassOf(k.op, m.types[lt])
        /\ TyOf(f, inst.result) = IF k.op \in EqualityOps \cup OrderOps THEN I1 ELSE lt

AllocaTyped(m, f, inst) ==
    /\ Holds(m.types, inst.kind.ty, IsFirstClass)
    /\ TyOf(f, inst.result) \in DOMAIN m.types
    /\ m.types[TyOf(f, inst.result)] = PointerData(inst.kind.ty, 0)

LoadTyped(m, f, inst) ==
    LET ty == inst.kind.ty
        pty == TyOf(f, inst.kind.pointer)
    IN  /\ Holds(m.types, pty, IsPointer) /\ m.types[pty].pointee = ty
        /\ Holds(m.types, ty, IsFirstClass)
        /\ TyOf(f, inst.result) = ty

StoreTyped(m, f, inst) ==
    LET pty == TyOf(f, inst.kind.pointer)
    IN  /\ Holds(m.types, pty, IsPointer)
        /\ m.types[pty].pointee = TyOf(f, inst.kind.value)
        /\ inst.result = NoId

PtrOffsetTyped(m, f, inst) ==
    LET pty == TyOf(f, inst.kind.pointer)
    IN  /\ Holds(m.types, pty, IsPointer)
        /\ Holds(m.types, TyOf(f, inst.kind.offset), IsArithInteger)
        /\ TyOf(f, inst.result) = pty

ConvTyped(m, f, inst) ==
    LET op == inst.kind.op
        from == TyOf(f, inst.kind.value)
        to == inst.kind.to
    IN  /\ from \in DOMAIN m.types /\ ConvertsFrom(op, m.types[from])
        /\ to \in DOMAIN m.types /\ ConvertsTo(op, m.types[to])
        /\ op = "ext" => ~(m.types[to].bits <= m.types[from].bits)
        /\ op = "trunc" => ~(m.types[to].bits >= m.types[from].bits)
        /\ TyOf(f, inst.result) = to

CallTyped(m, f, inst) ==
    LET args == inst.kind.args
        callee == m.functions[inst.kind.callee]
        n == Len(callee.params)
    IN  /\ inst.kind.callee \in DOMAIN m.functions
        /\ IF callee.variadic THEN ~(Len(args) < n) ELSE Len(args) = n
        /\ \A i \in DOMAIN args :
              IF i <= n THEN TyOf(f, args[i]) = callee.params[i]
              ELSE Holds(m.types, TyOf(f, args[i]), IsFirstClass)
        /\ IF Holds(m.types, callee.result, IsVoid) THEN inst.result = NoId
           ELSE inst.result # NoId /\ TyOf(f, inst.result) \in {NoId, callee.result}

ConstructTyped(m, f, inst) ==
    LET ty == inst.kind.ty
        args == inst.kind.args
    IN  /\ Holds(m.types, ty, IsAggregate)
        /\ FieldCount(m.types[ty]) = Len(args)
        /\ \A i \in DOMAIN args :
              FieldType(m.types[ty], i - 1) \in {NoId, TyOf(f, args[i])}
        /\ TyOf(f, inst.result) = ty

ExtractTyped(m, f, inst) ==
    /\ FieldAt(m, f, inst.kind) # NoId
    /\ TyOf(f, inst.result) = FieldAt(m, f, inst.kind)

InsertTyped(m, f, inst) ==
    /\ FieldAt(m, f, inst.kind) # NoId
    /\ TyOf(f, inst.kind.value) = FieldAt(m, f, inst.kind)
    /\ TyOf(f, inst.result) = TyOf(f, inst.kind.aggregate)

ConstTyped(m, f, inst) ==
    /\ inst.kind.constant \in DOMAIN m.consts
    /\ TyOf(f, inst.result) # NoId
    /\ ConstantFits(m.types, m.consts[inst.kind.constant], TyOf(f, inst.result))

ArmTyped(m, f, inst) ==
    LET op == inst.kind.op
    IN  CASE op = "const" -> ConstTyped(m, f, inst)
          [] op \in BinaryOps -> BinaryTyped(m, f, inst)
          [] op = "alloca" -> AllocaTyped(m, f, inst)
          [] op = "load" -> LoadTyped(m, f, inst)
          [] op = "store" -> StoreTyped(m, f, inst)
          [] op = "ptr_offset" -> PtrOffsetTyped(m, f, inst)
          [] op \in ConvOps -> ConvTyped(m, f, inst)
          [] op = "call" -> CallTyped(m, f, inst)
          [] op = "construct" -> ConstructTyped(m, f, inst)
          [] op = "extract" -> ExtractTyped(m, f, inst)
          [] op = "insert" -> InsertTyped(m, f, inst)

InstTyped(m, f, inst) ==
    Operands(inst.kind) \subseteq DOMAIN f.values /\ ArmTyped(m, f, inst)

OtherOps ==
    {"const", "alloca", "load", "store", "ptr_offset", "call", "construct", "extract", "insert"}
AllOps == OtherOps \cup BinaryOps \cup ConvOps

\* At most one guard of a CASE over the ops holds.
LEMMA OpsApart ==
    /\ \A op \in BinaryOps : op \notin ConvOps /\ op \notin OtherOps
    /\ \A op \in ConvOps : op \notin BinaryOps /\ op \notin OtherOps
    /\ \A op \in OtherOps : op \notin BinaryOps /\ op \notin ConvOps
  BY DEF OtherOps, BinaryOps, ArithOps, BitOps, ShiftOps, EqualityOps, OrderOps, ConvOps

\* Every value has a type, in the table or not, and NoId names neither a value nor a type.
TypesKnown(m, f) ==
    /\ NoId \notin DOMAIN m.types /\ NoId \notin DOMAIN f.values
    /\ \A v \in DOMAIN f.values : f.values[v] \in Ids

\* TyOf tells the values of an arena from the ids that name none.
LEMMA TyOfValue ==
    ASSUME NEW m, NEW f, TypesKnown(m, f), NEW v
    PROVE  /\ v \in DOMAIN f.values => TyOf(f, v) = f.values[v] /\ TyOf(f, v) # NoId
           /\ v \notin DOMAIN f.values => TyOf(f, v) = NoId
           /\ TyOf(f, NoId) = NoId
  BY DEF TypesKnown, TyOf, Ids

\* A check reports nothing when its condition does not hold.
LEMMA IfEmpty == \A error, condition : If(error, condition) = {} <=> ~condition
  BY DEF If

\* alloca, load, store and ptr_offset.
LEMMA ArmsOfMemory ==
    ASSUME NEW m, NEW f, TypesKnown(m, f), NEW inst, Operands(inst.kind) \subseteq DOMAIN f.values
    PROVE  /\ inst.kind.op = "alloca" => (CheckAlloca(m, f, inst) = {} <=> AllocaTyped(m, f, inst))
           /\ inst.kind.op = "load" => (CheckLoad(m, f, inst) = {} <=> LoadTyped(m, f, inst))
           /\ inst.kind.op = "store" => (CheckStore(m, f, inst) = {} <=> StoreTyped(m, f, inst))
           /\ inst.kind.op = "ptr_offset" =>
                 (CheckPtrOffset(m, f, inst) = {} <=> PtrOffsetTyped(m, f, inst))
  <1>1. ASSUME inst.kind.op = "alloca" PROVE CheckAlloca(m, f, inst) = {} <=> AllocaTyped(m, f, inst)
    BY DEF CheckAlloca, AllocaTyped, If, Holds
  <1>2. ASSUME inst.kind.op = "load" PROVE CheckLoad(m, f, inst) = {} <=> LoadTyped(m, f, inst)
    BY DEF CheckLoad, LoadTyped, If, Holds, CheckResult, Pointee
  <1>3. ASSUME inst.kind.op = "store" PROVE CheckStore(m, f, inst) = {} <=> StoreTyped(m, f, inst)
    <2>1. inst.kind.value \in DOMAIN f.values
      BY <1>3 DEF Operands, BinaryOps, ArithOps, BitOps, ShiftOps, EqualityOps, OrderOps, ConvOps
    <2>2. TyOf(f, inst.kind.value) # NoId
      BY <2>1, TyOfValue
    <2> QED BY <2>2 DEF CheckStore, StoreTyped, If, Holds, Pointee
  <1>4. ASSUME inst.kind.op = "ptr_offset"
        PROVE  CheckPtrOffset(m, f, inst) = {} <=> PtrOffsetTyped(m, f, inst)
    <2>1. inst.kind.offset \in DOMAIN f.values
      BY <1>4 DEF Operands, BinaryOps, ArithOps, BitOps, ShiftOps, EqualityOps, OrderOps, ConvOps
    <2>2. TyOf(f, inst.kind.offset) # NoId
      BY <2>1, TyOfValue
    <2> QED BY <2>2 DEF CheckPtrOffset, PtrOffsetTyped, If, Holds, CheckResult
  <1> QED BY <1>1, <1>2, <1>3, <1>4

\* The fifteen binary ops.
LEMMA ArmOfBinary ==
    ASSUME NEW m, NEW f, TypesKnown(m, f), NEW inst, Operands(inst.kind) \subseteq DOMAIN f.values,
           inst.kind.op \in BinaryOps
    PROVE  CheckBinary(m, f, inst) = {} <=> BinaryTyped(m, f, inst)
  <1> DEFINE k == inst.kind
             lt == TyOf(f, k.lhs)
             rt == TyOf(f, k.rhs)
  <1>1. {k.lhs, k.rhs} \subseteq DOMAIN f.values
    <2>1. k.op \notin ConvOps /\ k.op \notin OtherOps
      BY OpsApart
    <2> QED BY <2>1 DEF Operands, OtherOps
  <1>2. lt # NoId /\ rt # NoId
    BY <1>1, TyOfValue
  <1>3. CASE k.op \in ArithOps
    BY <1>2, <1>3 DEF CheckBinary, CheckArith, PairErrors, CheckResult, BinaryTyped, ClassOf, IsArith,
       Holds, If, ArithOps, ShiftOps, EqualityOps, OrderOps, BitOps
  <1>4. CASE k.op = "rem"
    BY <1>2, <1>4 DEF CheckBinary, CheckArith, PairErrors, CheckResult, BinaryTyped, ClassOf, IsArith,
       Holds, If, ArithOps, ShiftOps, EqualityOps, OrderOps, BitOps
  <1>5. CASE k.op \in BitOps
    BY <1>2, <1>5 DEF CheckBinary, CheckArith, PairErrors, CheckResult, BinaryTyped, ClassOf, IsArith,
       Holds, If, ArithOps, ShiftOps, EqualityOps, OrderOps, BitOps
  <1>6. CASE k.op \in ShiftOps
    BY <1>2, <1>6 DEF CheckBinary, CheckShift, CheckResult, BinaryTyped, ClassOf,
       Holds, If, ArithOps, ShiftOps, EqualityOps, OrderOps, BitOps
  <1>7. CASE k.op \in EqualityOps
    BY <1>2, <1>7 DEF CheckBinary, CheckCompare, PairErrors, CheckResult, BinaryTyped, ClassOf,
       IsComparable, Holds, If, ArithOps, ShiftOps, EqualityOps, OrderOps, BitOps
  <1>8. CASE k.op \in OrderOps
    BY <1>2, <1>8 DEF CheckBinary, CheckCompare, PairErrors, CheckResult, BinaryTyped, ClassOf,
       IsArith, Holds, If, ArithOps, ShiftOps, EqualityOps, OrderOps, BitOps
  <1> QED BY <1>3, <1>4, <1>5, <1>6, <1>7, <1>8 DEF BinaryOps

\* The conversions.
LEMMA ArmOfConv ==
    ASSUME NEW m, NEW f, NEW inst
    PROVE  CheckConv(m, f, inst) = {} <=> ConvTyped(m, f, inst)
  BY DEF CheckConv, ConvTyped, If, Holds, CheckResult

\* construct, extract and insert.
LEMMA ArmsOfAggregates ==
    ASSUME NEW m, NEW f, TypesKnown(m, f), NEW inst, Operands(inst.kind) \subseteq DOMAIN f.values
    PROVE  /\ inst.kind.op = "construct" =>
                 (CheckConstruct(m, f, inst) = {} <=> ConstructTyped(m, f, inst))
           /\ inst.kind.op = "extract" => (CheckExtract(m, f, inst) = {} <=> ExtractTyped(m, f, inst))
           /\ inst.kind.op = "insert" => (CheckInsert(m, f, inst) = {} <=> InsertTyped(m, f, inst))
  <1>1. ASSUME inst.kind.op = "construct"
        PROVE  CheckConstruct(m, f, inst) = {} <=> ConstructTyped(m, f, inst)
    <2>1. \A i \in DOMAIN inst.kind.args : TyOf(f, inst.kind.args[i]) # NoId
      <3>1. \A i \in DOMAIN inst.kind.args : inst.kind.args[i] \in DOMAIN f.values
        BY <1>1 DEF Operands, BinaryOps, ArithOps, BitOps, ShiftOps, EqualityOps, OrderOps, ConvOps,
           ValuesOf
      <3> QED BY <3>1, TyOfValue
    <2> QED BY <2>1 DEF CheckConstruct, ConstructTyped, If, CheckResult
  <1>2. ASSUME inst.kind.op = "extract" PROVE CheckExtract(m, f, inst) = {} <=> ExtractTyped(m, f, inst)
    BY DEF CheckExtract, ExtractTyped, If, CheckResult
  <1>3. ASSUME inst.kind.op = "insert" PROVE CheckInsert(m, f, inst) = {} <=> InsertTyped(m, f, inst)
    <2>1. inst.kind.value \in DOMAIN f.values
      BY <1>3 DEF Operands, BinaryOps, ArithOps, BitOps, ShiftOps, EqualityOps, OrderOps, ConvOps
    <2>2. TyOf(f, inst.kind.value) # NoId
      BY <2>1, TyOfValue
    <2> QED BY <2>2 DEF CheckInsert, InsertTyped, If, CheckResult
  <1> QED BY <1>1, <1>2, <1>3

\* call.
LEMMA ArmOfCall ==
    ASSUME NEW m, NEW f, TypesKnown(m, f), NEW inst, Operands(inst.kind) \subseteq DOMAIN f.values,
           inst.kind.op = "call"
    PROVE  CheckCall(m, f, inst) = {} <=> CallTyped(m, f, inst)
  <1>1. \A i \in DOMAIN inst.kind.args : TyOf(f, inst.kind.args[i]) # NoId
    <2>1. \A i \in DOMAIN inst.kind.args : inst.kind.args[i] \in DOMAIN f.values
      BY DEF Operands, BinaryOps, ArithOps, BitOps, ShiftOps, EqualityOps, OrderOps, ConvOps,
         ValuesOf
    <2> QED BY <2>1, TyOfValue
  <1> DEFINE args == inst.kind.args
             callee == m.functions[inst.kind.callee]
             n == Len(callee.params)
             isVoid == Holds(m.types, callee.result, IsVoid)
             wrong(i) == LET ty == TyOf(f, args[i])
                         IN  /\ ty # NoId
                             /\ IF i <= n THEN ty # callee.params[i]
                                ELSE ~Holds(m.types, ty, IsFirstClass)
             arity == IF callee.variadic THEN Len(args) < n ELSE Len(args) # n
             some == \E i \in DOMAIN args : wrong(i)
             presence == (inst.result = NoId) # isVoid
             another == ~isVoid /\ TyOf(f, inst.result) # NoId /\ TyOf(f, inst.result) # callee.result
  <1>2. CheckCall(m, f, inst) =
            IF inst.kind.callee \notin DOMAIN m.functions THEN {"UnknownFunction"}
            ELSE If("CallArityMismatch", arity) \cup If("CallArgTypeMismatch", some)
                 \cup If("InvalidOperandType", presence) \cup If("InvalidResultType", another)
    BY DEF CheckCall
  <1>3. CheckCall(m, f, inst) = {} <=>
            inst.kind.callee \in DOMAIN m.functions /\ ~arity /\ ~some /\ ~presence /\ ~another
    <2> HIDE DEF arity, some, presence, another
    <2> QED BY <1>2, IfEmpty
  <1>4. ~some <=> \A i \in DOMAIN args :
                    IF i <= n THEN TyOf(f, args[i]) = callee.params[i]
                    ELSE Holds(m.types, TyOf(f, args[i]), IsFirstClass)
    BY <1>1
  <1>5. ~presence /\ ~another <=>
            IF isVoid THEN inst.result = NoId
            ELSE inst.result # NoId /\ TyOf(f, inst.result) \in {NoId, callee.result}
    <2>1. isVoid \in BOOLEAN
      BY DEF Holds, IsVoid
    <2> HIDE DEF isVoid
    <2>2. presence <=> ~(inst.result = NoId <=> isVoid)
      BY <2>1
    <2> HIDE DEF presence
    <2>3. CASE isVoid
      BY <2>2, <2>3
    <2>4. CASE ~isVoid
      BY <2>2, <2>4
    <2> QED BY <2>3, <2>4
  <1>6. ~arity <=> IF callee.variadic THEN ~(Len(args) < n) ELSE Len(args) = n
    OBVIOUS
  <1>7. CallTyped(m, f, inst) <=>
            /\ inst.kind.callee \in DOMAIN m.functions
            /\ IF callee.variadic THEN ~(Len(args) < n) ELSE Len(args) = n
            /\ \A i \in DOMAIN args :
                  IF i <= n THEN TyOf(f, args[i]) = callee.params[i]
                  ELSE Holds(m.types, TyOf(f, args[i]), IsFirstClass)
            /\ IF isVoid THEN inst.result = NoId
               ELSE inst.result # NoId /\ TyOf(f, inst.result) \in {NoId, callee.result}
    BY DEF CallTyped
  <1> HIDE DEF arity, some, presence, another
  <1> QED BY <1>3, <1>4, <1>5, <1>6, <1>7, Zenon

\* const.
LEMMA ArmOfConst ==
    ASSUME NEW m, NEW f, NEW inst
    PROVE  CheckConst(m, f, inst) = {} <=> ConstTyped(m, f, inst)
  BY DEF CheckConst, ConstTyped, If

\* check_instruction reports nothing exactly when the operands are in the arena
\* and the arm of the instruction holds.
LEMMA InstructionChecks ==
    ASSUME NEW m, NEW f, TypesKnown(m, f), ~(Len(f.values) < Len(f.params)),
           NEW inst, inst.kind.op \in AllOps
    PROVE  CheckInstruction(m, f, inst) = {} <=> InstTyped(m, f, inst)
  <1> DEFINE op == inst.kind.op
             known == Operands(inst.kind) \subseteq DOMAIN f.values
  <1>1. known => (CheckArm(m, f, inst) = {} <=> ArmTyped(m, f, inst))
    <2> SUFFICES ASSUME known PROVE CheckArm(m, f, inst) = {} <=> ArmTyped(m, f, inst)
      OBVIOUS
    <2>1. CASE op \in BinaryOps
      <3>1. op \notin ConvOps /\ op \notin OtherOps
        BY <2>1, OpsApart
      <3> QED BY <2>1, <3>1, ArmOfBinary DEF CheckArm, ArmTyped, OtherOps
    <2>2. CASE op \in ConvOps
      <3>1. op \notin BinaryOps /\ op \notin OtherOps
        BY <2>2, OpsApart
      <3> QED BY <2>2, <3>1, ArmOfConv DEF CheckArm, ArmTyped, OtherOps
    <2>3. CASE op \notin BinaryOps /\ op \notin ConvOps
      <3>1. op \in {"const", "alloca", "load", "store", "ptr_offset", "call", "construct",
                    "extract", "insert"}
        BY <2>3 DEF AllOps, OtherOps
      <3>2. CASE op \in {"alloca", "load", "store", "ptr_offset"}
        BY <2>3, <3>2, ArmsOfMemory DEF CheckArm, ArmTyped
      <3>3. CASE op \in {"construct", "extract", "insert"}
        BY <2>3, <3>3, ArmsOfAggregates DEF CheckArm, ArmTyped
      <3>4. CASE op = "call"
        BY <2>3, <3>4, ArmOfCall DEF CheckArm, ArmTyped
      <3>5. CASE op = "const"
        BY <2>3, <3>5, ArmOfConst DEF CheckArm, ArmTyped
      <3> QED BY <3>1, <3>2, <3>3, <3>4, <3>5
    <2> QED BY <2>1, <2>2, <2>3
  <1>2. known /\ ArmTyped(m, f, inst) /\ op \notin {"store", "call"} => inst.result # NoId
    <2> SUFFICES ASSUME known, ArmTyped(m, f, inst), op \notin {"store", "call"}, inst.result = NoId
                 PROVE  FALSE
      OBVIOUS
    <2>1. TyOf(f, inst.result) = NoId /\ NoId \notin DOMAIN m.types
      BY TyOfValue DEF TypesKnown
    <2>2. CASE op \in BinaryOps
      <3>1. BinaryTyped(m, f, inst)
        BY <2>2, OpsApart DEF ArmTyped, OtherOps
      <3>2. I1 # NoId
        BY DEF I1, NoId
      <3> QED BY <2>1, <3>1, <3>2 DEF BinaryTyped
    <2>3. CASE op \in ConvOps
      <3>1. ConvTyped(m, f, inst)
        BY <2>3, OpsApart DEF ArmTyped, OtherOps
      <3> QED BY <2>1, <3>1 DEF ConvTyped
    <2>4. CASE op \notin BinaryOps /\ op \notin ConvOps
      <3>1. op \in {"const", "alloca", "load", "ptr_offset", "construct", "extract", "insert"}
        BY <2>4 DEF AllOps, OtherOps
      <3>2. CASE op \in {"const", "alloca", "load", "ptr_offset", "construct"}
        BY <2>1, <2>4, <3>2
           DEF ArmTyped, ConstTyped, AllocaTyped, LoadTyped, PtrOffsetTyped, ConstructTyped, Holds
      <3>3. CASE op \in {"extract", "insert"}
        BY <2>1, <2>4, <3>3 DEF ArmTyped, ExtractTyped, InsertTyped, FieldAt, Holds
      <3> QED BY <3>1, <3>2, <3>3
    <2> QED BY <2>2, <2>3, <2>4
  <1>3. CheckInstruction(m, f, inst) =
            If("UnknownValue", ~known)
            \cup (CheckArm(m, f, inst)
                  \cup If("InvalidOperandType", op \notin {"store", "call"} /\ inst.result = NoId))
    BY DEF CheckInstruction
  <1> QED BY <1>1, <1>2, <1>3, IfEmpty DEF InstTyped

-----------------------------------------------------------------------------
(* What type checks goes on doing so                                       *)

SameSignature(f, g) ==
    /\ g.symbol = f.symbol /\ g.linkage = f.linkage
    /\ g.params = f.params /\ g.variadic = f.variadic /\ g.result = f.result

\* m2 is m with longer tables and longer bodies.
Larger(m, m2) ==
    /\ Extended(m.types, m2.types) /\ Extended(m.consts, m2.consts)
    /\ \A g \in DOMAIN m.functions :
          g \in DOMAIN m2.functions /\ SameSignature(m.functions[g], m2.functions[g])

\* An arm that reports nothing goes on doing so when the tables and the arena grow.
LEMMA ArmStays ==
    ASSUME NEW m, NEW m2, Larger(m, m2), NEW f, NEW f2, TypesKnown(m, f),
           Extended(f.values, f2.values), NoId \notin DOMAIN f2.values,
           \A g \in DOMAIN m.functions : m.functions[g].result \in DOMAIN m.types,
           NEW inst, inst.kind.op \in AllOps, inst.result \in {NoId} \cup DOMAIN f.values,
           Operands(inst.kind) \subseteq DOMAIN f.values, ArmTyped(m, f, inst)
    PROVE  ArmTyped(m2, f2, inst)
  <1> DEFINE k == inst.kind
             op == inst.kind.op
  <1>1. \A v : v \in DOMAIN f.values \/ v = NoId => TyOf(f2, v) = TyOf(f, v)
    BY DEF Extended, TyOf, TypesKnown
  <1>2. TyOf(f2, inst.result) = TyOf(f, inst.result)
    BY <1>1
  <1>3. \A v \in Operands(k) : TyOf(f2, v) = TyOf(f, v)
    BY <1>1
  <1>4. \A t \in DOMAIN m.types : t \in DOMAIN m2.types /\ m2.types[t] = m.types[t]
    BY DEF Larger, Extended
  <1>5. \A c \in DOMAIN m.consts : c \in DOMAIN m2.consts /\ m2.consts[c] = m.consts[c]
    BY DEF Larger, Extended
  <1>6. CASE op \in BinaryOps
    <2>1. op \notin ConvOps /\ op \notin OtherOps
      BY <1>6, OpsApart
    <2>2. Operands(k) = {k.lhs, k.rhs}
      BY <1>6, <2>1 DEF Operands, OtherOps
    <2>3. BinaryTyped(m, f, inst)
      BY <1>6, <2>1 DEF ArmTyped, OtherOps
    <2>4. BinaryTyped(m2, f2, inst)
      BY <1>2, <1>3, <1>4, <2>2, <2>3 DEF BinaryTyped, Holds
    <2> QED BY <1>6, <2>1, <2>4 DEF ArmTyped, OtherOps
  <1>7. CASE op \in ConvOps
    <2>1. op \notin BinaryOps /\ op \notin OtherOps
      BY <1>7, OpsApart
    <2>2. Operands(k) = {k.value}
      BY <1>7, <2>1 DEF Operands, OtherOps
    <2>3. ConvTyped(m, f, inst)
      BY <1>7, <2>1 DEF ArmTyped, OtherOps
    <2>4. ConvTyped(m2, f2, inst)
      BY <1>2, <1>3, <1>4, <2>2, <2>3 DEF ConvTyped
    <2> QED BY <1>7, <2>1, <2>4 DEF ArmTyped, OtherOps
  <1>8. CASE op \in OtherOps
    <2>1. op \notin BinaryOps /\ op \notin ConvOps
      BY <1>8, OpsApart
    <2>2. CASE op = "const"
      <3>1. ConstTyped(m, f, inst)
        BY <2>1, <2>2 DEF ArmTyped
      <3>2. ConstTyped(m2, f2, inst)
        BY <1>2, <1>4, <1>5, <3>1 DEF ConstTyped, ConstantFits
      <3> QED BY <2>1, <2>2, <3>2 DEF ArmTyped
    <2>3. CASE op = "alloca"
      <3>1. AllocaTyped(m, f, inst)
        BY <2>1, <2>3 DEF ArmTyped
      <3>2. AllocaTyped(m2, f2, inst)
        BY <1>2, <1>4, <3>1 DEF AllocaTyped, Holds
      <3> QED BY <2>1, <2>3, <3>2 DEF ArmTyped
    <2>4. CASE op = "load"
      <3>1. LoadTyped(m, f, inst) /\ Operands(k) = {k.pointer}
        BY <2>1, <2>4 DEF ArmTyped, Operands
      <3>2. LoadTyped(m2, f2, inst)
        BY <1>2, <1>3, <1>4, <3>1 DEF LoadTyped, Holds
      <3> QED BY <2>1, <2>4, <3>2 DEF ArmTyped
    <2>5. CASE op = "store"
      <3>1. StoreTyped(m, f, inst) /\ Operands(k) = {k.pointer, k.value}
        BY <2>1, <2>5 DEF ArmTyped, Operands
      <3>2. StoreTyped(m2, f2, inst)
        BY <1>2, <1>3, <1>4, <3>1 DEF StoreTyped, Holds
      <3> QED BY <2>1, <2>5, <3>2 DEF ArmTyped
    <2>6. CASE op = "ptr_offset"
      <3>1. PtrOffsetTyped(m, f, inst) /\ Operands(k) = {k.pointer, k.offset}
        BY <2>1, <2>6 DEF ArmTyped, Operands
      <3>2. PtrOffsetTyped(m2, f2, inst)
        BY <1>2, <1>3, <1>4, <3>1 DEF PtrOffsetTyped, Holds
      <3> QED BY <2>1, <2>6, <3>2 DEF ArmTyped
    <2>7. CASE op = "call"
      <3>1. CallTyped(m, f, inst) /\ Operands(k) = ValuesOf(k.args)
        BY <2>1, <2>7 DEF ArmTyped, Operands
      <3>2. \A i \in DOMAIN k.args : TyOf(f2, k.args[i]) = TyOf(f, k.args[i])
        BY <1>3, <3>1 DEF ValuesOf
      <3> DEFINE callee == m.functions[k.callee]
                 callee2 == m2.functions[k.callee]
      <3>3. /\ k.callee \in DOMAIN m2.functions /\ callee2.params = callee.params
            /\ callee2.variadic = callee.variadic /\ callee2.result = callee.result
            /\ callee.result \in DOMAIN m.types
        BY <3>1 DEF CallTyped, Larger, SameSignature
      <3>4. Holds(m2.types, callee.result, IsVoid) = Holds(m.types, callee.result, IsVoid)
        BY <1>4, <3>3 DEF Holds
      <3>5. CallTyped(m2, f2, inst)
        BY <1>2, <1>4, <3>1, <3>2, <3>3, <3>4 DEF CallTyped, Holds
      <3> QED BY <2>1, <2>7, <3>5 DEF ArmTyped
    <2>8. CASE op = "construct"
      <3>1. ConstructTyped(m, f, inst) /\ Operands(k) = ValuesOf(k.args)
        BY <2>1, <2>8 DEF ArmTyped, Operands
      <3>2. \A i \in DOMAIN k.args : TyOf(f2, k.args[i]) = TyOf(f, k.args[i])
        BY <1>3, <3>1 DEF ValuesOf
      <3>3. ConstructTyped(m2, f2, inst)
        BY <1>2, <1>4, <3>1, <3>2 DEF ConstructTyped, Holds
      <3> QED BY <2>1, <2>8, <3>3 DEF ArmTyped
    <2>9. CASE op = "extract"
      <3>1. ExtractTyped(m, f, inst) /\ Operands(k) = {k.aggregate}
        BY <2>1, <2>9 DEF ArmTyped, Operands
      <3>2. FieldAt(m2, f2, k) = FieldAt(m, f, k)
        BY <1>3, <1>4, <3>1, TyOfValue DEF FieldAt, Holds, ExtractTyped
      <3>3. ExtractTyped(m2, f2, inst)
        BY <1>2, <3>1, <3>2 DEF ExtractTyped
      <3> QED BY <2>1, <2>9, <3>3 DEF ArmTyped
    <2>10. CASE op = "insert"
      <3>1. InsertTyped(m, f, inst) /\ Operands(k) = {k.aggregate, k.value}
        BY <2>1, <2>10 DEF ArmTyped, Operands
      <3>2. FieldAt(m2, f2, k) = FieldAt(m, f, k)
        BY <1>3, <1>4, <3>1, TyOfValue DEF FieldAt, Holds, InsertTyped
      <3>3. InsertTyped(m2, f2, inst)
        BY <1>2, <1>3, <3>1, <3>2 DEF InsertTyped
      <3> QED BY <2>1, <2>10, <3>3 DEF ArmTyped
    <2> QED BY <1>8, <2>2, <2>3, <2>4, <2>5, <2>6, <2>7, <2>8, <2>9, <2>10 DEF OtherOps
  <1> QED BY <1>6, <1>7, <1>8 DEF AllOps

\* So does the whole of an instruction.
LEMMA InstructionStays ==
    ASSUME NEW m, NEW m2, Larger(m, m2), NEW f, NEW f2, TypesKnown(m, f),
           Extended(f.values, f2.values), NoId \notin DOMAIN f2.values,
           \A g \in DOMAIN m.functions : m.functions[g].result \in DOMAIN m.types,
           NEW inst, inst.kind.op \in AllOps, inst.result \in {NoId} \cup DOMAIN f.values,
           InstTyped(m, f, inst)
    PROVE  InstTyped(m2, f2, inst)
  BY ArmStays DEF InstTyped, Extended

-----------------------------------------------------------------------------
(* The type table                                                          *)

\* It starts with the scalars and holds nothing twice.  What an entry refers to
\* may be missing.
TypeTable(table) ==
    /\ table \in Seq(TypeData) /\ Extended(Scalars, table) /\ NoDuplicates(table)

\* The fields of the data of a type, by its tag, and what they refer to.
LEMMA TypeDataFacts ==
    ASSUME NEW d \in TypeData
    PROVE  /\ d.tag = "Int" => d.bits \in Nat
           /\ d.tag = "Pointer" => d.pointee \in Ids /\ References(d) = {d.pointee}
           /\ d.tag = "Array" => d.element \in Ids /\ d.length \in Nat /\ References(d) = {d.element}
           /\ d.tag = "Struct" => d.fields \in Seq(Ids)
                                  /\ References(d) = {d.fields[i] : i \in DOMAIN d.fields}
           /\ d.tag = "Function" =>
                 /\ d.params \in Seq(Ids) /\ d.result \in Ids
                 /\ References(d) = {d.params[i] : i \in DOMAIN d.params} \cup {d.result}
           /\ d.tag \in {"Void", "Int", "Float", "Pointer", "Array", "Struct", "Function"}
  <1>1. d.tag \in {"Void", "Int", "Float", "Pointer", "Array", "Struct", "Function"}
    BY DEF TypeData, VoidData
  <1>2. /\ d.tag = "Int" => d.bits \in Nat
        /\ d.tag = "Pointer" => d.pointee \in Ids
        /\ d.tag = "Array" => d.element \in Ids /\ d.length \in Nat
    BY DEF TypeData, VoidData
  <1>3. d.tag = "Struct" => d.fields \in Seq(Ids)
    BY DEF TypeData, VoidData
  <1>4. d.tag = "Function" => d.params \in Seq(Ids) /\ d.result \in Ids
    BY DEF TypeData, VoidData
  <1> QED BY <1>1, <1>2, <1>3, <1>4 DEF References

\* What a type of the table refers to are ids.
LEMMA TypeTableFacts ==
    ASSUME NEW table, TypeTable(table)
    PROVE  /\ DOMAIN table = 1..Len(table) /\ Len(table) \in Nat /\ NoId \notin DOMAIN table
           /\ \A t \in DOMAIN table :
                 LET d == table[t]
                 IN  /\ d \in TypeData
                     /\ d.tag = "Int" => d.bits \in Nat
                     /\ d.tag = "Pointer" => d.pointee \in Ids
                     /\ IsAggregate(d) =>
                           /\ FieldCount(d) \in Nat
                           /\ \A i \in Nat : FieldType(d, i) \in Ids \cup {NoId}
                           /\ \A i \in 1..FieldCount(d) : FieldType(d, i - 1) \in Ids
  <1>1. DOMAIN table = 1..Len(table) /\ Len(table) \in Nat
    BY LenProperties DEF TypeTable
  <1>2. NoId \notin DOMAIN table
    BY <1>1 DEF NoId
  <1>3. ASSUME NEW t \in DOMAIN table
        PROVE  LET d == table[t]
               IN  /\ d \in TypeData
                   /\ d.tag = "Int" => d.bits \in Nat
                   /\ d.tag = "Pointer" => d.pointee \in Ids
                   /\ IsAggregate(d) =>
                         /\ FieldCount(d) \in Nat
                         /\ \A i \in Nat : FieldType(d, i) \in Ids \cup {NoId}
                         /\ \A i \in 1..FieldCount(d) : FieldType(d, i - 1) \in Ids
    <2> DEFINE d == table[t]
    <2>1. d \in TypeData
      BY <1>1, ElementOfSeq DEF TypeTable
    <2> HIDE DEF d
    <2>3. d.tag = "Array" =>
              /\ FieldCount(d) \in Nat
              /\ \A i \in Nat : FieldType(d, i) \in Ids \cup {NoId}
              /\ \A i \in 1..FieldCount(d) : FieldType(d, i - 1) \in Ids
      <3> SUFFICES ASSUME d.tag = "Array"
                   PROVE  /\ FieldCount(d) \in Nat
                          /\ \A i \in Nat : FieldType(d, i) \in Ids \cup {NoId}
                          /\ \A i \in 1..FieldCount(d) : FieldType(d, i - 1) \in Ids
        OBVIOUS
      <3>1. d.element \in Ids /\ d.length \in Nat
        BY <2>1, TypeDataFacts
      <3>2. FieldCount(d) = d.length
        BY DEF FieldCount
      <3>3. \A i : FieldType(d, i) = IF i < d.length THEN d.element ELSE NoId
        BY DEF FieldType
      <3>4. \A i \in 1..d.length : i - 1 < d.length
        BY <3>1
      <3> QED BY <3>1, <3>2, <3>3, <3>4
    <2>4. d.tag = "Struct" =>
              /\ FieldCount(d) \in Nat
              /\ \A i \in Nat : FieldType(d, i) \in Ids \cup {NoId}
              /\ \A i \in 1..FieldCount(d) : FieldType(d, i - 1) \in Ids
      <3> SUFFICES ASSUME d.tag = "Struct"
                   PROVE  /\ FieldCount(d) \in Nat
                          /\ \A i \in Nat : FieldType(d, i) \in Ids \cup {NoId}
                          /\ \A i \in 1..FieldCount(d) : FieldType(d, i - 1) \in Ids
        OBVIOUS
      <3>1. d.fields \in Seq(Ids) /\ \A i \in DOMAIN d.fields : d.fields[i] \in Ids
        BY <2>1, TypeDataFacts, ElementOfSeq
      <3>2. FieldCount(d) = Len(d.fields)
        BY DEF FieldCount
      <3>3. \A i : FieldType(d, i) = IF i < Len(d.fields) THEN d.fields[i + 1] ELSE NoId
        BY DEF FieldType
      <3>4. Len(d.fields) \in Nat /\ DOMAIN d.fields = 1..Len(d.fields)
        BY <3>1, LenProperties
      <3>5. \A i \in Nat : i < Len(d.fields) => i + 1 \in DOMAIN d.fields
        BY <3>4
      <3>6. \A i \in 1..Len(d.fields) : i - 1 \in Nat /\ i - 1 < Len(d.fields)
        BY <3>4
      <3> QED BY <3>1, <3>2, <3>3, <3>4, <3>5, <3>6
    <2> USE DEF d
    <2> QED BY <2>1, <2>3, <2>4, TypeDataFacts DEF IsAggregate
  <1> QED BY <1>1, <1>2, <1>3

-----------------------------------------------------------------------------
(* Builder and verifier agree                                              *)

\* Signatures name types of the table.
SignaturesKnown ==
    \A g \in DOMAIN functions : functions[g].result \in DOMAIN types /\ functions[g].params \in Seq(Ids)

\* f2 is f with room for the result of inst, of type r, if there is one.
WithResult(f, f2, inst, r) ==
    /\ Extended(f.values, f2.values)
    /\ inst.result = NoId <=> r = NoId
    /\ TyOf(f2, inst.result) = r
    /\ \A v \in Operands(inst.kind) : v \in DOMAIN f2.values => v \in DOMAIN f.values

\* What the verifier finds well typed is what the builder accepts, and the result
\* type it insists on the one the builder gives: every op but const and alloca.
LEMMA Agreement ==
    ASSUME TypeTable(types), SignaturesKnown, NEW f, TypesKnown(M, f),
           NEW k, k.op \in AllOps \ {"const", "alloca"},
           k.op \in {"call", "construct"} => k.args \in Seq(Nat),
           k.op \in {"extract", "insert"} => k.index \in Nat,
           NEW f2, TypesKnown(M, f2), NEW inst, inst.kind = k, NEW r, WithResult(f, f2, inst, r)
    PROVE  InstTyped(M, f2, inst) <=> Accepts(f, k) /\ r = ResultType(f, k)
  <1> DEFINE op == k.op
  <1>1. \A v \in DOMAIN f.values : v \in DOMAIN f2.values /\ f2.values[v] = f.values[v]
    BY DEF WithResult, Extended
  <1>2. \A v \in Operands(k) : v \in DOMAIN f2.values <=> v \in DOMAIN f.values
    BY <1>1 DEF WithResult
  <1>3. \A v \in Operands(k) : TyOf(f2, v) = TyOf(f, v)
    BY <1>1, <1>2 DEF TyOf
  <1>4. TyOf(f2, inst.result) = r /\ (inst.result = NoId <=> r = NoId)
    BY DEF WithResult
  <1>5. \A v : /\ v \in DOMAIN f.values => TyOf(f, v) = f.values[v]
               /\ v \in DOMAIN f.values => TyOf(f, v) # NoId
               /\ TyOf(f, v) \in DOMAIN types => v \in DOMAIN f.values
               /\ TyOf(f, v) # NoId => v \in DOMAIN f.values
    BY TypeTableFacts DEF TyOf, TypesKnown, M, Ids
  <1>6. NoId \notin DOMAIN types
    BY TypeTableFacts
  <1>7. M.types = types /\ M.functions = functions
    BY DEF M
  <1>8. InstTyped(M, f2, inst) <=> Operands(k) \subseteq DOMAIN f.values /\ ArmTyped(M, f2, inst)
    BY <1>2 DEF InstTyped
  <1>9. CASE op \in BinaryOps
    <2>1. op \notin ConvOps /\ op \notin OtherOps
      BY <1>9, OpsApart
    <2>2. Operands(k) = {k.lhs, k.rhs}
      BY <1>9, <2>1 DEF Operands, OtherOps
    <2>3. ArmTyped(M, f2, inst) <=> BinaryTyped(M, f2, inst)
      BY <1>9, <2>1 DEF ArmTyped, OtherOps
    <2>4. /\ Accepts(f, k) <=> BinaryOk(f, k)
          /\ ResultType(f, k) = BinaryResult(f, k)
      BY <1>9, <2>1 DEF Accepts, ResultType, OtherOps
    <2>5. BinaryTyped(M, f2, inst) <=>
              /\ IF op \in ShiftOps THEN Holds(types, TyOf(f, k.rhs), IsInteger)
                 ELSE TyOf(f, k.lhs) = TyOf(f, k.rhs)
              /\ TyOf(f, k.lhs) \in DOMAIN types /\ ClassOf(op, types[TyOf(f, k.lhs)])
              /\ r = IF op \in EqualityOps \cup OrderOps THEN I1 ELSE TyOf(f, k.lhs)
      BY <1>3, <1>4, <1>7, <2>2 DEF BinaryTyped
    <2>6. {k.lhs, k.rhs} \subseteq DOMAIN f.values =>
              (BinaryTyped(M, f2, inst) <=> BinaryOk(f, k) /\ r = BinaryResult(f, k))
      BY <1>5, <2>5 DEF BinaryOk, BinaryResult, Holds, ShiftOps
    <2>7. BinaryOk(f, k) => {k.lhs, k.rhs} \subseteq DOMAIN f.values
      BY DEF BinaryOk
    <2> QED BY <1>8, <2>2, <2>3, <2>4, <2>6, <2>7
  <1>10. CASE op \in ConvOps
    <2>1. op \notin BinaryOps /\ op \notin OtherOps
      BY <1>10, OpsApart
    <2>2. Operands(k) = {k.value}
      BY <1>10, <2>1 DEF Operands, OtherOps
    <2>3. ArmTyped(M, f2, inst) <=> ConvTyped(M, f2, inst)
      BY <1>10, <2>1 DEF ArmTyped, OtherOps
    <2>4. (Accepts(f, k) <=> ConvOk(f, k)) /\ ResultType(f, k) = k.to
      BY <1>10, <2>1 DEF Accepts, ResultType, OtherOps
    <2>5. ConvTyped(M, f2, inst) <=>
              /\ TyOf(f, k.value) \in DOMAIN types /\ ConvertsFrom(op, types[TyOf(f, k.value)])
              /\ k.to \in DOMAIN types /\ ConvertsTo(op, types[k.to])
              /\ op = "ext" => ~(types[k.to].bits <= types[TyOf(f, k.value)].bits)
              /\ op = "trunc" => ~(types[k.to].bits >= types[TyOf(f, k.value)].bits)
              /\ r = k.to
      BY <1>3, <1>4, <1>7, <2>2 DEF ConvTyped
    <2>6. ConvOk(f, k) <=>
              /\ TyOf(f, k.value) \in DOMAIN types /\ ConvertsFrom(op, types[TyOf(f, k.value)])
              /\ k.to \in DOMAIN types /\ ConvertsTo(op, types[k.to])
              /\ op = "ext" => types[k.to].bits > types[TyOf(f, k.value)].bits
              /\ op = "trunc" => types[k.to].bits < types[TyOf(f, k.value)].bits
      BY <1>10 DEF ConvOk, Holds, ConvertsFrom, ConvertsTo, ConvOps
    <2>7. \A t \in DOMAIN types : types[t].tag = "Int" => types[t].bits \in Nat
      BY TypeTableFacts
    <2>8. op \in {"ext", "trunc"} =>
              \A d : (ConvertsFrom(op, d) => d.tag = "Int") /\ (ConvertsTo(op, d) => d.tag = "Int")
      BY DEF ConvertsFrom, ConvertsTo, IsInteger, IsArithInteger
    <2>9. ConvTyped(M, f2, inst) <=> ConvOk(f, k) /\ r = k.to
      BY <2>5, <2>6, <2>7, <2>8
    <2>10. ConvOk(f, k) => k.value \in DOMAIN f.values
      BY <1>5, <2>6
    <2> QED BY <1>8, <2>2, <2>3, <2>4, <2>9, <2>10
  <1>11. CASE op \in OtherOps
    <2>1. op \notin BinaryOps /\ op \notin ConvOps
      BY <1>11, OpsApart
    <2>2. CASE op = "load"
      <3>1. Operands(k) = {k.pointer} /\ (ArmTyped(M, f2, inst) <=> LoadTyped(M, f2, inst))
            /\ (Accepts(f, k) <=> LoadOk(f, k)) /\ ResultType(f, k) = k.ty
        BY <2>1, <2>2 DEF Operands, ArmTyped, Accepts, ResultType
      <3>2. LoadTyped(M, f2, inst) <=>
                /\ Holds(types, TyOf(f, k.pointer), IsPointer)
                /\ types[TyOf(f, k.pointer)].pointee = k.ty
                /\ Holds(types, k.ty, IsFirstClass) /\ r = k.ty
        BY <1>3, <1>4, <1>7, <3>1 DEF LoadTyped
      <3>3. LoadOk(f, k) <=>
                /\ Holds(types, TyOf(f, k.pointer), IsPointer)
                /\ types[TyOf(f, k.pointer)].pointee = k.ty
                /\ Holds(types, k.ty, IsFirstClass)
        BY <1>6, <1>7 DEF LoadOk, PointeeOf, Pointee, Holds
      <3>4. LoadOk(f, k) => k.pointer \in DOMAIN f.values
        BY <1>5, <3>3 DEF Holds
      <3> QED BY <1>8, <3>1, <3>2, <3>3, <3>4
    <2>3. CASE op = "store"
      <3>1. Operands(k) = {k.pointer, k.value} /\ (ArmTyped(M, f2, inst) <=> StoreTyped(M, f2, inst))
            /\ (Accepts(f, k) <=> StoreOk(f, k)) /\ ResultType(f, k) = NoId
        BY <2>1, <2>3 DEF Operands, ArmTyped, Accepts, ResultType
      <3>2. StoreTyped(M, f2, inst) <=>
                /\ Holds(types, TyOf(f, k.pointer), IsPointer)
                /\ types[TyOf(f, k.pointer)].pointee = TyOf(f, k.value) /\ r = NoId
        BY <1>3, <1>4, <1>7, <3>1 DEF StoreTyped
      <3>3. \A t \in DOMAIN types : IsPointer(types[t]) => types[t].pointee # NoId
        BY TypeTableFacts DEF IsPointer, Ids
      <3>4. StoreOk(f, k) <=>
                /\ k.value \in DOMAIN f.values
                /\ Holds(types, TyOf(f, k.pointer), IsPointer)
                /\ types[TyOf(f, k.pointer)].pointee = TyOf(f, k.value)
        BY <1>5, <1>6, <1>7, <3>3 DEF StoreOk, PointeeOf, Pointee, Holds
      <3>5. StoreOk(f, k) => k.pointer \in DOMAIN f.values
        BY <1>5, <3>4 DEF Holds
      <3> QED BY <1>8, <3>1, <3>2, <3>4, <3>5
    <2>4. CASE op = "ptr_offset"
      <3>1. Operands(k) = {k.pointer, k.offset}
            /\ (ArmTyped(M, f2, inst) <=> PtrOffsetTyped(M, f2, inst))
            /\ (Accepts(f, k) <=> PtrOffsetOk(f, k)) /\ ResultType(f, k) = f.values[k.pointer]
        BY <2>1, <2>4 DEF Operands, ArmTyped, Accepts, ResultType
      <3>2. PtrOffsetTyped(M, f2, inst) <=>
                /\ Holds(types, TyOf(f, k.pointer), IsPointer)
                /\ Holds(types, TyOf(f, k.offset), IsArithInteger) /\ r = TyOf(f, k.pointer)
        BY <1>3, <1>4, <1>7, <3>1 DEF PtrOffsetTyped
      <3>3. PtrOffsetOk(f, k) => {k.pointer, k.offset} \subseteq DOMAIN f.values
        BY <1>5 DEF PtrOffsetOk, Holds
      <3>4. k.pointer \in DOMAIN f.values => TyOf(f, k.pointer) = f.values[k.pointer]
        BY <1>5
      <3> QED BY <1>8, <3>1, <3>2, <3>3, <3>4 DEF PtrOffsetOk
    <2>5. CASE op = "call"
      <3> DEFINE callee == functions[k.callee]
                 n == Len(callee.params)
                 isVoid == Holds(types, callee.result, IsVoid)
                 arity == IF callee.variadic THEN Len(k.args) >= n ELSE Len(k.args) = n
                 fits == \A i \in DOMAIN k.args :
                            IF i <= n THEN TyOf(f, k.args[i]) = callee.params[i]
                            ELSE Holds(types, TyOf(f, k.args[i]), IsFirstClass)
                 known == ValuesOf(k.args) \subseteq DOMAIN f.values
      <3>1. Operands(k) = ValuesOf(k.args) /\ (ArmTyped(M, f2, inst) <=> CallTyped(M, f2, inst))
            /\ (Accepts(f, k) <=> CallOk(f, k)) /\ ResultType(f, k) = CallResult(k)
        BY <2>1, <2>5 DEF Operands, ArmTyped, Accepts, ResultType
      <3>2. \A i \in DOMAIN k.args : TyOf(f2, k.args[i]) = TyOf(f, k.args[i])
        BY <1>3, <3>1 DEF ValuesOf
      <3>3. CallResult(k) = IF isVoid THEN NoId ELSE callee.result
        BY DEF CallResult
      <3>4. k.callee \in DOMAIN functions =>
                (r = CallResult(k) <=>
                 IF isVoid THEN inst.result = NoId
                 ELSE inst.result # NoId /\ r \in {NoId, callee.result})
        <4>1. k.callee \in DOMAIN functions => callee.result # NoId
          BY <1>6 DEF SignaturesKnown
        <4> HIDE DEF isVoid
        <4> QED BY <1>4, <3>3, <4>1
      <3>5. k.callee \in DOMAIN functions =>
                (arity <=> IF callee.variadic THEN ~(Len(k.args) < n) ELSE Len(k.args) = n)
        <4>1. Len(k.args) \in Nat
          BY <2>5
        <4>2. k.callee \in DOMAIN functions => n \in Nat
          BY DEF SignaturesKnown
        <4> QED BY <4>1, <4>2
      <3>6. CallTyped(M, f2, inst) <=>
                /\ k.callee \in DOMAIN functions
                /\ IF callee.variadic THEN ~(Len(k.args) < n) ELSE Len(k.args) = n
                /\ fits
                /\ IF isVoid THEN inst.result = NoId
                   ELSE inst.result # NoId /\ r \in {NoId, callee.result}
        BY <1>4, <1>7, <3>2 DEF CallTyped
      <3>7. CallOk(f, k) <=> k.callee \in DOMAIN functions /\ arity /\ fits /\ known
        BY <1>5 DEF CallOk, ValuesOf
      <3> HIDE DEF arity, fits, isVoid, known, callee
      <3>8. CallTyped(M, f2, inst) <=>
                k.callee \in DOMAIN functions /\ arity /\ fits /\ r = CallResult(k)
        BY <3>4, <3>5, <3>6
      <3> USE DEF known
      <3> QED BY <1>8, <3>1, <3>7, <3>8
    <2>6. CASE op = "construct"
      <3>1. Operands(k) = ValuesOf(k.args) /\ (ArmTyped(M, f2, inst) <=> ConstructTyped(M, f2, inst))
            /\ (Accepts(f, k) <=> ConstructOk(f, k)) /\ ResultType(f, k) = k.ty
        BY <2>1, <2>6 DEF Operands, ArmTyped, Accepts, ResultType
      <3>2. \A i \in DOMAIN k.args : TyOf(f2, k.args[i]) = TyOf(f, k.args[i])
        BY <1>3, <3>1 DEF ValuesOf
      <3>3. ConstructTyped(M, f2, inst) <=>
                /\ Holds(types, k.ty, IsAggregate) /\ FieldCount(types[k.ty]) = Len(k.args)
                /\ \A i \in DOMAIN k.args :
                      FieldType(types[k.ty], i - 1) \in {NoId, TyOf(f, k.args[i])}
                /\ r = k.ty
        BY <1>4, <1>7, <3>2 DEF ConstructTyped
      <3>4. DOMAIN k.args = 1..Len(k.args)
        BY <2>6, LenProperties
      <3>5. Holds(types, k.ty, IsAggregate) =>
                \A i \in 1..FieldCount(types[k.ty]) : FieldType(types[k.ty], i - 1) # NoId
        BY TypeTableFacts DEF Holds, Ids
      <3>6. ConstructOk(f, k) <=>
                /\ Holds(types, k.ty, IsAggregate) /\ FieldCount(types[k.ty]) = Len(k.args)
                /\ \A i \in DOMAIN k.args : FieldType(types[k.ty], i - 1) = TyOf(f, k.args[i])
                /\ ValuesOf(k.args) \subseteq DOMAIN f.values
        <4>1. ASSUME ConstructOk(f, k)
              PROVE  /\ \A i \in DOMAIN k.args : FieldType(types[k.ty], i - 1) = TyOf(f, k.args[i])
                     /\ ValuesOf(k.args) \subseteq DOMAIN f.values
          BY <1>5, <4>1 DEF ConstructOk, ValuesOf
        <4>2. ASSUME \A i \in DOMAIN k.args : FieldType(types[k.ty], i - 1) = TyOf(f, k.args[i]),
                     ValuesOf(k.args) \subseteq DOMAIN f.values
              PROVE  \A i \in DOMAIN k.args :
                        k.args[i] \in DOMAIN f.values
                        /\ f.values[k.args[i]] = FieldType(types[k.ty], i - 1)
          BY <1>5, <4>2 DEF ValuesOf
        <4> QED BY <4>1, <4>2 DEF ConstructOk
      <3>7. Holds(types, k.ty, IsAggregate) /\ FieldCount(types[k.ty]) = Len(k.args) =>
                \A i \in DOMAIN k.args : FieldType(types[k.ty], i - 1) # NoId
        BY <3>4, <3>5
      <3> QED BY <1>8, <3>1, <3>3, <3>6, <3>7
    <2>7. CASE op = "extract"
      <3>1. Operands(k) = {k.aggregate} /\ (ArmTyped(M, f2, inst) <=> ExtractTyped(M, f2, inst))
            /\ (Accepts(f, k) <=> FieldOf(f, k) # NoId) /\ ResultType(f, k) = FieldOf(f, k)
        BY <2>1, <2>7 DEF Operands, ArmTyped, Accepts, ResultType
      <3>2. FieldAt(M, f2, k) = FieldOf(f, k)
        BY <1>3, <3>1 DEF FieldAt, FieldOf
      <3>3. FieldOf(f, k) # NoId => k.aggregate \in DOMAIN f.values
        BY <1>5, <1>7 DEF FieldAt, FieldOf, Holds
      <3> QED BY <1>4, <1>8, <3>1, <3>2, <3>3 DEF ExtractTyped
    <2>8. CASE op = "insert"
      <3>1. Operands(k) = {k.aggregate, k.value} /\ (ArmTyped(M, f2, inst) <=> InsertTyped(M, f2, inst))
            /\ (Accepts(f, k) <=> InsertOk(f, k)) /\ ResultType(f, k) = f.values[k.aggregate]
        BY <2>1, <2>8 DEF Operands, ArmTyped, Accepts, ResultType
      <3>2. FieldAt(M, f2, k) = FieldOf(f, k)
        BY <1>3, <3>1 DEF FieldAt, FieldOf
      <3>3. FieldOf(f, k) # NoId => k.aggregate \in DOMAIN f.values
        BY <1>5, <1>7 DEF FieldAt, FieldOf, Holds
      <3>4. InsertOk(f, k) => {k.aggregate, k.value} \subseteq DOMAIN f.values
        BY <1>5, <3>3 DEF InsertOk
      <3>5. k.aggregate \in DOMAIN f.values => TyOf(f, k.aggregate) = f.values[k.aggregate]
        BY <1>5
      <3>6. InsertTyped(M, f2, inst) <=> InsertOk(f, k) /\ r = TyOf(f, k.aggregate)
        BY <1>3, <1>4, <3>1, <3>2 DEF InsertTyped, InsertOk
      <3> QED BY <1>8, <3>1, <3>3, <3>4, <3>5, <3>6 DEF InsertOk
    <2> QED BY <1>11, <2>2, <2>3, <2>4, <2>5, <2>6, <2>7, <2>8 DEF OtherOps
  <1> QED BY <1>9, <1>10, <1>11 DEF AllOps

-----------------------------------------------------------------------------
(* The invariant                                                           *)

\* Integer constants are masked and elements of an aggregate come before it, but for the
\* constants put in by hand.
ConstTable(table, byHand) ==
    /\ table \in Seq(ConstData) /\ byHand \subseteq DOMAIN table
    /\ \A c \in DOMAIN table \ byHand :
          /\ table[c].tag = "Int" => table[c].bits \in 0..2 ^ table[c].width - 1
          /\ table[c].tag = "Aggregate" => ValuesOf(table[c].elements) \subseteq 1..c - 1

\* ArenaMatchesBody of one function.
ArenaOf(f) ==
    LET results == {j \in DOMAIN f.insts : f.insts[j].result # NoId}
    IN  /\ Len(f.values) = Len(f.params) + Cardinality(results)
        /\ \A j \in results :
              f.insts[j].result = Len(f.params) + Cardinality({i \in results : i <= j})

SignatureFine(m, f) ==
    /\ f.symbol \in DOMAIN m.symbols /\ f.result \in DOMAIN m.types
    /\ \A i \in DOMAIN f.params : Holds(m.types, f.params[i], IsFirstClass)
    /\ Holds(m.types, f.result, IsFirstClass) \/ Holds(m.types, f.result, IsVoid)

BodyFine(m, f) ==
    /\ ArenaOf(f)
    /\ \A j \in DOMAIN f.insts :
          f.insts[j].result \in {NoId} \cup DOMAIN f.values /\ InstTyped(m, f, f.insts[j])

NamesDiffer(m) ==
    \A g, h \in DOMAIN m.functions :
        m.symbols[m.functions[g].symbol] = m.symbols[m.functions[h].symbol] => g = h

\* A module the builder can have built, with some constants put in by hand.
ModuleFine(m, byHand) ==
    /\ TypeTable(m.types) /\ m.symbols \in Seq(Idents)
    /\ ConstTable(m.consts, byHand)
    /\ \A c \in DOMAIN m.consts \ byHand : CheckConstant(m, c) = {}
    /\ m.functions \in Seq(FunctionShapes) /\ NamesDiffer(m)
    /\ \A g \in DOMAIN m.functions :
          SignatureFine(m, m.functions[g]) /\ BodyFine(m, m.functions[g])

CursorFine ==
    /\ cursor \in [fn : Nat, block : Nat] /\ cursor.fn \in {NoId} \cup DOMAIN functions
    /\ cursor.block \in {NoId} \cup (IF Building THEN DOMAIN F.terms ELSE {})

IInv == ModuleFine(M, raw) /\ CursorFine

-----------------------------------------------------------------------------
(* A larger module keeps what is fine                                      *)

\* Instructions have one of the ops.
LEMMA OpsOfKinds == \A k \in InstKinds : k.op \in AllOps
  BY DEF InstKinds, AllOps, OtherOps

\* The fields of a function.
LEMMA FunctionParts ==
    ASSUME NEW f \in FunctionShapes
    PROVE  /\ f.params \in Seq(Ids) /\ Len(f.params) \in Nat /\ DOMAIN f.params = 1..Len(f.params)
           /\ f.values \in Seq(Ids) /\ Len(f.values) \in Nat /\ DOMAIN f.values = 1..Len(f.values)
           /\ Len(f.insts) \in Nat /\ DOMAIN f.insts = 1..Len(f.insts)
           /\ NoId \notin DOMAIN f.values
           /\ \A j \in DOMAIN f.insts : f.insts[j].kind \in InstKinds /\ f.insts[j].result \in Nat
  <1>1. f.params \in Seq(Ids) /\ f.values \in Seq(Ids)
        /\ f.insts \in Seq([kind : InstKinds, result : Nat])
    BY DEF FunctionShapes
  <1>2. /\ Len(f.params) \in Nat /\ DOMAIN f.params = 1..Len(f.params)
        /\ Len(f.values) \in Nat /\ DOMAIN f.values = 1..Len(f.values)
        /\ Len(f.insts) \in Nat /\ DOMAIN f.insts = 1..Len(f.insts)
    BY <1>1, LenProperties
  <1>3. \A j \in DOMAIN f.insts : f.insts[j] \in [kind : InstKinds, result : Nat]
    BY <1>1, <1>2, ElementOfSeq
  <1>4. \A j \in DOMAIN f.insts : f.insts[j].kind \in InstKinds /\ f.insts[j].result \in Nat
    BY <1>3
  <1> QED BY <1>1, <1>2, <1>4 DEF NoId

\* The arena holds at least the parameters, so typing is not skipped.
LEMMA ArenaHoldsParams ==
    ASSUME NEW f \in FunctionShapes, ArenaOf(f)
    PROVE  ~(Len(f.values) < Len(f.params))
  <1> DEFINE results == {j \in DOMAIN f.insts : f.insts[j].result # NoId}
  <1>1. IsFiniteSet(results)
    BY FunctionParts, FS_Interval, FS_Subset
  <1>2. Cardinality(results) \in Nat
    BY <1>1, FS_CardinalityType
  <1>3. Len(f.values) = Len(f.params) + Cardinality(results)
    BY DEF ArenaOf
  <1> HIDE DEF results
  <1> QED BY <1>2, <1>3, FunctionParts

\* The values of a body have types.
LEMMA BodyKnown ==
    ASSUME NEW m, NEW f \in FunctionShapes, TypeTable(m.types)
    PROVE  TypesKnown(m, f)
  BY TypeTableFacts, FunctionParts, ElementOfSeq DEF TypesKnown

\* A signature stays fine in a larger module.
LEMMA SignatureStays ==
    ASSUME NEW m, NEW m2, Larger(m, m2), Extended(m.symbols, m2.symbols),
           NEW f, NEW f2, SameSignature(f, f2), SignatureFine(m, f)
    PROVE  SignatureFine(m2, f2)
  BY DEF Larger, Extended, SignatureFine, SameSignature, Holds

\* The instructions of a body go on type checking when the arena grows with it.
LEMMA InstructionsStay ==
    ASSUME NEW m, NEW m2, Larger(m, m2), TypeTable(m.types),
           \A g \in DOMAIN m.functions : m.functions[g].result \in DOMAIN m.types,
           NEW f \in FunctionShapes, BodyFine(m, f), NEW f2 \in FunctionShapes,
           Extended(f.values, f2.values)
    PROVE  \A j \in DOMAIN f.insts :
               f.insts[j].result \in {NoId} \cup DOMAIN f2.values /\ InstTyped(m2, f2, f.insts[j])
  <1> SUFFICES ASSUME NEW j \in DOMAIN f.insts
               PROVE  f.insts[j].result \in {NoId} \cup DOMAIN f2.values
                      /\ InstTyped(m2, f2, f.insts[j])
    OBVIOUS
  <1>1. f.insts[j].result \in {NoId} \cup DOMAIN f.values /\ InstTyped(m, f, f.insts[j])
    BY DEF BodyFine
  <1>2. f.insts[j].kind.op \in AllOps
    BY FunctionParts, OpsOfKinds
  <1>3. TypesKnown(m, f)
    BY BodyKnown
  <1>4. NoId \notin DOMAIN f2.values
    BY FunctionParts
  <1>5. InstTyped(m2, f2, f.insts[j])
    BY <1>1, <1>2, <1>3, <1>4, InstructionStays
  <1> QED BY <1>1, <1>5 DEF Extended

\* A body nobody touches stays fine in a larger module.
LEMMA BodyStays ==
    ASSUME NEW m, NEW m2, Larger(m, m2), TypeTable(m.types),
           \A g \in DOMAIN m.functions : m.functions[g].result \in DOMAIN m.types,
           NEW f \in FunctionShapes, BodyFine(m, f), NEW f2 \in FunctionShapes,
           f2.params = f.params, f2.values = f.values, f2.insts = f.insts
    PROVE  BodyFine(m2, f2)
  <1>1. Extended(f.values, f2.values)
    BY DEF Extended
  <1>2. \A j \in DOMAIN f.insts :
            f.insts[j].result \in {NoId} \cup DOMAIN f2.values /\ InstTyped(m2, f2, f.insts[j])
    BY <1>1, InstructionsStay
  <1>3. ArenaOf(f2)
    BY DEF BodyFine, ArenaOf
  <1> QED BY <1>2, <1>3 DEF BodyFine

\* check_constant reports nothing exactly when this holds.
ConstantFine(m, i) ==
    LET c == m.consts[i]
        d == m.types[c.ty]
    IN  /\ c.tag = "Int" => c.ty \in DOMAIN m.types /\ IsInteger(d) /\ d.bits = c.width
        /\ c.tag = "Float" => c.ty \in DOMAIN m.types /\ IsFloat(d)
        /\ c.tag = "Null" => Holds(m.types, c.pointee, IsFirstClass)
        /\ c.tag = "Aggregate" =>
              /\ c.ty \in DOMAIN m.types /\ IsAggregate(d)
              /\ FieldCount(d) = Len(c.elements)
              /\ \A j \in DOMAIN c.elements :
                    d.tag = "Array" \/ j <= Len(d.fields) =>
                        /\ c.elements[j] \in DOMAIN m.consts /\ ~(c.elements[j] >= i)
                        /\ ConstantFits(m.types, m.consts[c.elements[j]], FieldType(d, j - 1))

\* check_aggregate reports nothing exactly when every element fits.
LEMMA AggregateChecks ==
    ASSUME NEW m, NEW i
    PROVE  LET c == m.consts[i]
               d == m.types[c.ty]
           IN  CheckAggregate(m, i) = {} <=>
                 /\ FieldCount(d) = Len(c.elements)
                 /\ \A j \in DOMAIN c.elements :
                       d.tag = "Array" \/ j <= Len(d.fields) =>
                           /\ c.elements[j] \in DOMAIN m.consts /\ ~(c.elements[j] >= i)
                           /\ ConstantFits(m.types, m.consts[c.elements[j]], FieldType(d, j - 1))
  <1> DEFINE c == m.consts[i]
             d == m.types[c.ty]
             errors(j) ==
                CASE c.elements[j] \notin DOMAIN m.consts -> {"UnknownConstant"}
                  [] c.elements[j] \in DOMAIN m.consts /\ c.elements[j] >= i -> {"InvalidConstant"}
                  [] OTHER -> If("InvalidConstant",
                                 ~ConstantFits(m.types, m.consts[c.elements[j]], FieldType(d, j - 1)))
             reached == {k \in DOMAIN c.elements : d.tag = "Array" \/ k <= Len(d.fields)}
             fine(j) == /\ c.elements[j] \in DOMAIN m.consts /\ ~(c.elements[j] >= i)
                        /\ ConstantFits(m.types, m.consts[c.elements[j]], FieldType(d, j - 1))
  <1>1. CheckAggregate(m, i) =
            If("InvalidConstant", FieldCount(d) # Len(c.elements)) \cup UNION {errors(j) : j \in reached}
    BY DEF CheckAggregate
  <1>2. ASSUME NEW j PROVE errors(j) = {} <=> fine(j)
    BY IfEmpty
  <1> HIDE DEF errors, fine
  <1>3. UNION {errors(j) : j \in reached} = {} <=> \A j \in reached : errors(j) = {}
    OBVIOUS
  <1>4. CheckAggregate(m, i) = {} <=>
            FieldCount(d) = Len(c.elements) /\ UNION {errors(j) : j \in reached} = {}
    BY <1>1, IfEmpty
  <1>5. CheckAggregate(m, i) = {} <=>
            FieldCount(d) = Len(c.elements) /\ \A j \in reached : fine(j)
    BY <1>2, <1>3, <1>4, Zenon
  <1> USE DEF fine
  <1> QED BY <1>5

\* check_constant reports nothing exactly when the constant is fine.
LEMMA ConstantChecks ==
    ASSUME NEW m, NEW i, m.consts[i].tag \in {"Int", "Float", "Null", "String", "Aggregate"}
    PROVE  CheckConstant(m, i) = {} <=> ConstantFine(m, i)
  <1> DEFINE c == m.consts[i]
  <1>1. CASE c.tag = "Int"
    BY <1>1 DEF CheckConstant, ConstantFine, If, Holds
  <1>2. CASE c.tag = "Float"
    BY <1>2 DEF CheckConstant, ConstantFine, If, Holds
  <1>3. CASE c.tag = "Null"
    BY <1>3 DEF CheckConstant, ConstantFine, If
  <1>4. CASE c.tag = "String"
    BY <1>4 DEF CheckConstant, ConstantFine
  <1>5. CASE c.tag = "Aggregate"
    <2>1. CheckConstant(m, i) = {} <=> Holds(m.types, c.ty, IsAggregate) /\ CheckAggregate(m, i) = {}
      BY <1>5 DEF CheckConstant
    <2> QED BY <1>5, <2>1, AggregateChecks DEF ConstantFine, Holds
  <1> QED BY <1>1, <1>2, <1>3, <1>4, <1>5

\* The tags of the constants and the fields the proofs look at.
LEMMA ConstDataFacts ==
    ASSUME NEW c \in ConstData
    PROVE  /\ c.tag \in {"Int", "Float", "Null", "String", "Aggregate"}
           /\ c.tag = "Int" => c.width \in Nat /\ c.bits \in Nat
           /\ c.tag = "Aggregate" => c.elements \in Seq(Ids)
  BY DEF ConstData

\* A constant that type checks goes on doing so: its elements are below it.
LEMMA ConstantStays ==
    ASSUME NEW m, NEW m2, Larger(m, m2), NEW i \in DOMAIN m.consts, m.consts \in Seq(ConstData),
           CheckConstant(m, i) = {}
    PROVE  CheckConstant(m2, i) = {}
  <1> DEFINE c == m.consts[i]
             d == m.types[c.ty]
  <1>1. m2.consts[i] = c /\ i \in DOMAIN m2.consts
    BY DEF Larger, Extended
  <1>2. c \in ConstData
    BY ElementOfSeq, LenProperties
  <1>3. c.tag \in {"Int", "Float", "Null", "String", "Aggregate"}
    BY <1>2, ConstDataFacts
  <1>4. ConstantFine(m, i)
    BY <1>3, ConstantChecks
  <1>5. \A t \in DOMAIN m.types : t \in DOMAIN m2.types /\ m2.types[t] = m.types[t]
    BY DEF Larger, Extended
  <1>6. \A e \in DOMAIN m.consts : e \in DOMAIN m2.consts /\ m2.consts[e] = m.consts[e]
    BY DEF Larger, Extended
  <1>7. \A e, t : ConstantFits(m.types, e, t) => ConstantFits(m2.types, e, t)
    BY <1>5 DEF ConstantFits
  <1>8. ConstantFine(m2, i)
    <2>1. CASE c.tag \in {"Int", "Float", "Null", "String"}
      BY <1>1, <1>4, <1>5, <2>1 DEF ConstantFine, Holds
    <2>2. CASE c.tag = "Aggregate"
      <3>1. /\ c.ty \in DOMAIN m.types /\ IsAggregate(d) /\ FieldCount(d) = Len(c.elements)
            /\ \A j \in DOMAIN c.elements :
                  d.tag = "Array" \/ j <= Len(d.fields) =>
                      /\ c.elements[j] \in DOMAIN m.consts /\ ~(c.elements[j] >= i)
                      /\ ConstantFits(m.types, m.consts[c.elements[j]], FieldType(d, j - 1))
        BY <1>4, <2>2 DEF ConstantFine
      <3>2. c.ty \in DOMAIN m2.types /\ m2.types[c.ty] = d
        BY <1>5, <3>1
      <3>3. \A j \in DOMAIN c.elements :
                d.tag = "Array" \/ j <= Len(d.fields) =>
                    /\ c.elements[j] \in DOMAIN m2.consts /\ ~(c.elements[j] >= i)
                    /\ ConstantFits(m2.types, m2.consts[c.elements[j]], FieldType(d, j - 1))
        BY <1>6, <1>7, <3>1
      <3> QED BY <1>1, <2>2, <3>1, <3>2, <3>3 DEF ConstantFine
    <2> QED BY <1>3, <2>1, <2>2
  <1> QED BY <1>1, <1>3, <1>8, ConstantChecks

-----------------------------------------------------------------------------
(* Larger modules are fine                                                 *)

\* The tables grow and no function changes.
LEMMA TablesGrow ==
    ASSUME NEW m, NEW m2, NEW byHand, NEW byHand2, ModuleFine(m, byHand), byHand \subseteq byHand2,
           m2.functions = m.functions,
           TypeTable(m2.types), Extended(m.types, m2.types),
           m2.symbols \in Seq(Idents), Extended(m.symbols, m2.symbols),
           ConstTable(m2.consts, byHand2), Extended(m.consts, m2.consts),
           \A c \in DOMAIN m2.consts \ byHand2 :
              c \notin DOMAIN m.consts => CheckConstant(m2, c) = {}
    PROVE  ModuleFine(m2, byHand2) /\ Larger(m, m2)
  <1>1. Larger(m, m2)
    BY DEF Larger, SameSignature
  <1>2. \A c \in DOMAIN m2.consts \ byHand2 : CheckConstant(m2, c) = {}
    BY <1>1, ConstantStays DEF ModuleFine, ConstTable
  <1>3. \A g \in DOMAIN m.functions : m.functions[g].result \in DOMAIN m.types
    BY DEF ModuleFine, SignatureFine
  <1>4. \A g \in DOMAIN m.functions : m.functions[g] \in FunctionShapes
    BY ElementOfSeq, LenProperties DEF ModuleFine
  <1>5. ASSUME NEW g \in DOMAIN m.functions
        PROVE  SignatureFine(m2, m.functions[g]) /\ BodyFine(m2, m.functions[g])
    <2>1. SignatureFine(m2, m.functions[g])
      BY <1>1, SignatureStays DEF ModuleFine, SameSignature
    <2>2. BodyFine(m2, m.functions[g])
      BY <1>1, <1>3, <1>4, BodyStays DEF ModuleFine
    <2> QED BY <2>1, <2>2
  <1>6. NamesDiffer(m2)
    BY DEF NamesDiffer, ModuleFine, SignatureFine, Extended
  <1> QED BY <1>1, <1>2, <1>5, <1>6 DEF ModuleFine

\* One body changes and keeps its signature.
LEMMA BodyGrows ==
    ASSUME NEW m, NEW m2, NEW byHand, ModuleFine(m, byHand), NEW g \in DOMAIN m.functions, NEW f \in FunctionShapes,
           m2.types = m.types, m2.symbols = m.symbols, m2.consts = m.consts,
           m2.functions = [m.functions EXCEPT ![g] = f],
           SameSignature(m.functions[g], f), Larger(m, m2) => BodyFine(m2, f)
    PROVE  ModuleFine(m2, byHand)
  <1>1. \A h \in DOMAIN m.functions :
            /\ m.functions[h] \in FunctionShapes /\ m.functions[h].result \in DOMAIN m.types
            /\ SignatureFine(m, m.functions[h]) /\ BodyFine(m, m.functions[h])
    BY ElementOfSeq, LenProperties DEF ModuleFine, SignatureFine
  <1>2. DOMAIN m2.functions = DOMAIN m.functions /\ m2.functions[g] = f
        /\ \A h \in DOMAIN m.functions : h # g => m2.functions[h] = m.functions[h]
    BY DEF ModuleFine
  <1>3. \A h \in DOMAIN m.functions : SameSignature(m.functions[h], m2.functions[h])
    BY <1>2 DEF SameSignature
  <1>4. Larger(m, m2) /\ Extended(m.symbols, m2.symbols)
    BY <1>2, <1>3 DEF Larger, Extended
  <1>5. ASSUME NEW h \in DOMAIN m.functions
        PROVE  SignatureFine(m2, m2.functions[h]) /\ BodyFine(m2, m2.functions[h])
    <2>1. SignatureFine(m2, m2.functions[h])
      BY <1>1, <1>3, <1>4, SignatureStays
    <2>2. CASE h = g
      BY <1>2, <1>4, <2>1, <2>2
    <2>3. CASE h # g
      <3>1. m2.functions[h] = m.functions[h]
        BY <1>2, <2>3
      <3>2. BodyFine(m2, m.functions[h])
        BY <1>1, <1>4, BodyStays DEF ModuleFine
      <3> QED BY <2>1, <3>1, <3>2
    <2> QED BY <2>2, <2>3
  <1>6. NamesDiffer(m2)
    BY <1>2, <1>3 DEF NamesDiffer, ModuleFine, SameSignature
  <1>7. m2.functions \in Seq(FunctionShapes)
    BY ExceptSeq DEF ModuleFine
  <1>8. \A c \in DOMAIN m2.consts \ byHand : CheckConstant(m2, c) = {}
    BY <1>4, ConstantStays DEF ModuleFine, ConstTable
  <1> QED BY <1>2, <1>5, <1>6, <1>7, <1>8 DEF ModuleFine

\* A function is declared: it has no body yet.
LEMMA FunctionDeclared ==
    ASSUME NEW m, NEW m2, NEW byHand, ModuleFine(m, byHand), NEW f \in FunctionShapes,
           m2.types = m.types, m2.symbols = m.symbols, m2.consts = m.consts,
           m2.functions = Append(m.functions, f),
           SignatureFine(m, f), f.values = f.params, f.insts = <<>>,
           \A g \in DOMAIN m.functions : m.symbols[m.functions[g].symbol] # m.symbols[f.symbol]
    PROVE  ModuleFine(m2, byHand)
  <1> DEFINE n == Len(m.functions)
  <1>1. n \in Nat /\ DOMAIN m.functions = 1..n
    BY LenProperties DEF ModuleFine
  <1>2. /\ m2.functions \in Seq(FunctionShapes) /\ Len(m2.functions) = n + 1
        /\ \A g \in 1..n : m2.functions[g] = m.functions[g]
        /\ m2.functions[n + 1] = f
    BY AppendProperties DEF ModuleFine
  <1>3. DOMAIN m2.functions = 1..n + 1
    BY <1>2, LenProperties
  <1>4. \A g \in DOMAIN m2.functions : g \in DOMAIN m.functions \/ g = n + 1
    BY <1>1, <1>3
  <1>5. \A h \in DOMAIN m.functions :
            /\ m.functions[h] \in FunctionShapes /\ m.functions[h].result \in DOMAIN m.types
            /\ SignatureFine(m, m.functions[h]) /\ BodyFine(m, m.functions[h])
    BY <1>1, ElementOfSeq DEF ModuleFine, SignatureFine
  <1>6. Larger(m, m2) /\ Extended(m.symbols, m2.symbols)
    BY <1>1, <1>2, <1>3 DEF Larger, Extended, SameSignature
  <1>7. ASSUME NEW h \in DOMAIN m.functions
        PROVE  SignatureFine(m2, m2.functions[h]) /\ BodyFine(m2, m2.functions[h])
    <2>1. m2.functions[h] = m.functions[h]
      BY <1>1, <1>2
    <2>2. SignatureFine(m2, m.functions[h])
      BY <1>5, <1>6, SignatureStays DEF SameSignature
    <2>3. BodyFine(m2, m.functions[h])
      BY <1>5, <1>6, BodyStays DEF ModuleFine
    <2> QED BY <2>1, <2>2, <2>3
  <1>8. SignatureFine(m2, f) /\ BodyFine(m2, f)
    <2>1. SignatureFine(m2, f)
      BY <1>6, SignatureStays DEF SameSignature
    <2>2. DOMAIN f.insts = {} /\ Len(f.params) \in Nat
      BY FunctionParts
    <2>3. ArenaOf(f)
      <3>1. {j \in DOMAIN f.insts : f.insts[j].result # NoId} = {}
        BY <2>2
      <3> QED BY <2>2, <3>1, FS_EmptySet DEF ArenaOf
    <2> QED BY <2>1, <2>2, <2>3 DEF BodyFine
  <1>9. NamesDiffer(m2)
    <2> SUFFICES ASSUME NEW g \in DOMAIN m2.functions, NEW h \in DOMAIN m2.functions,
                        m.symbols[m2.functions[g].symbol] = m.symbols[m2.functions[h].symbol]
                 PROVE  g = h
      BY DEF NamesDiffer
    <2>1. CASE g \in DOMAIN m.functions /\ h \in DOMAIN m.functions
      BY <1>1, <1>2, <2>1 DEF NamesDiffer, ModuleFine
    <2>2. CASE g \in DOMAIN m.functions /\ h \notin DOMAIN m.functions
      BY <1>1, <1>2, <1>4, <2>2
    <2>3. CASE g \notin DOMAIN m.functions /\ h \in DOMAIN m.functions
      BY <1>1, <1>2, <1>4, <2>3
    <2>4. CASE g \notin DOMAIN m.functions /\ h \notin DOMAIN m.functions
      BY <1>4, <2>4
    <2> QED BY <2>1, <2>2, <2>3, <2>4
  <1>10. \A c \in DOMAIN m2.consts \ byHand : CheckConstant(m2, c) = {}
    BY <1>6, ConstantStays DEF ModuleFine, ConstTable
  <1> HIDE DEF n
  <1> QED BY <1>2, <1>4, <1>7, <1>8, <1>9, <1>10 DEF ModuleFine

-----------------------------------------------------------------------------
(* Emitting an instruction                                                 *)

\* The parts of a function after an instruction was appended to it.
LEMMA EmittedParts ==
    ASSUME NEW f \in FunctionShapes, NEW k \in InstKinds, NEW rt \in Nat
    PROVE  LET f2 == Emitted(f, k, rt)
               id == IF rt = NoId THEN NoId ELSE Len(f.values) + 1
           IN  /\ f2 \in FunctionShapes /\ SameSignature(f, f2) /\ f2.terms = f.terms
               /\ f2.values = IF rt = NoId THEN f.values ELSE Append(f.values, rt)
               /\ f2.insts = Append(f.insts, [kind |-> k, result |-> id])
               /\ Extended(f.values, f2.values)
               /\ Len(f2.values) = IF rt = NoId THEN Len(f.values) ELSE Len(f.values) + 1
               /\ rt # NoId => f2.values[Len(f.values) + 1] = rt
               /\ Len(f2.insts) = Len(f.insts) + 1
               /\ \A j \in 1..Len(f.insts) : f2.insts[j] = f.insts[j]
               /\ f2.insts[Len(f.insts) + 1] = [kind |-> k, result |-> id]
  <1> DEFINE f2 == Emitted(f, k, rt)
             id == IF rt = NoId THEN NoId ELSE Len(f.values) + 1
             values == IF rt = NoId THEN f.values ELSE Append(f.values, rt)
             insts == Append(f.insts, [kind |-> k, result |-> id])
  <1>1. /\ f.values \in Seq(Ids) /\ f.insts \in Seq([kind : InstKinds, result : Nat])
        /\ Len(f.values) \in Nat
    BY LenProperties DEF FunctionShapes
  <1>2. values \in Seq(Ids)
    BY <1>1, AppendProperties DEF Ids
  <1>3. [kind |-> k, result |-> id] \in [kind : InstKinds, result : Nat]
    BY <1>1 DEF NoId
  <1>4. insts \in Seq([kind : InstKinds, result : Nat])
    BY <1>1, <1>3, AppendProperties
  <1>5. f2 = [f EXCEPT !.values = values, !.insts = insts]
    BY DEF Emitted
  <1> HIDE DEF f2, values, insts
  <1>6. /\ f2 \in FunctionShapes /\ SameSignature(f, f2) /\ f2.terms = f.terms
        /\ f2.values = values /\ f2.insts = insts
    BY <1>2, <1>4, <1>5 DEF FunctionShapes, SameSignature
  <1> USE DEF values, insts
  <1>7. /\ Len(values) = IF rt = NoId THEN Len(f.values) ELSE Len(f.values) + 1
        /\ \A v \in 1..Len(f.values) : values[v] = f.values[v]
        /\ rt # NoId => values[Len(f.values) + 1] = rt
    BY <1>1, AppendProperties
  <1>8. /\ Len(insts) = Len(f.insts) + 1
        /\ \A j \in 1..Len(f.insts) : insts[j] = f.insts[j]
        /\ insts[Len(f.insts) + 1] = [kind |-> k, result |-> id]
    BY <1>1, <1>3, AppendProperties
  <1> HIDE DEF values, insts
  <1>9. Extended(f.values, values)
    <2>1. DOMAIN f.values = 1..Len(f.values) /\ DOMAIN values = 1..Len(values)
      BY <1>1, <1>2, LenProperties
    <2> QED BY <1>1, <1>7, <2>1 DEF Extended
  <1> USE DEF f2
  <1>10. values = (IF rt = NoId THEN f.values ELSE Append(f.values, rt))
         /\ insts = Append(f.insts, [kind |-> k, result |-> id])
    BY DEF values, insts
  <1> HIDE DEF f2
  <1> QED BY <1>6, <1>7, <1>8, <1>9, <1>10 DEF f2

\* Counting up to j, in a set and in one with at most n + 1 besides.
LEMMA OneMore ==
    ASSUME NEW n \in Nat, NEW R, NEW R2, R \subseteq 1..n, R2 \subseteq 1..n + 1,
           \A j \in 1..n : j \in R2 <=> j \in R
    PROVE  /\ \A j \in R : {i \in R2 : i <= j} = {i \in R : i <= j}
           /\ n + 1 \notin R2 => R2 = R
           /\ n + 1 \in R2 => R2 = R \cup {n + 1} /\ n + 1 \notin R
                              /\ {i \in R2 : i <= n + 1} = R2
  <1>1. ASSUME NEW j \in R PROVE {i \in R2 : i <= j} = {i \in R : i <= j}
    <2>1. j \in 1..n
      OBVIOUS
    <2>2. \A i \in R2 : i <= j => i \in 1..n
      BY <2>1
    <2>3. \A i \in R : i \in 1..n
      OBVIOUS
    <2> QED BY <2>2, <2>3
  <1>2. \A i \in R2 : i \in 1..n \/ i = n + 1
    OBVIOUS
  <1>3. n + 1 \notin 1..n
    OBVIOUS
  <1>4. \A i \in R : i \in R2
    OBVIOUS
  <1>5. \A i \in R2 : i <= n + 1
    OBVIOUS
  <1> QED BY <1>1, <1>2, <1>3, <1>4, <1>5

\* One instruction and its result, if it has one: the arena goes on matching.
LEMMA ArenaGrows ==
    ASSUME NEW f \in FunctionShapes, ArenaOf(f), NEW k \in InstKinds, NEW rt \in Nat
    PROVE  ArenaOf(Emitted(f, k, rt))
  <1> DEFINE f2 == Emitted(f, k, rt)
             n == Len(f.insts)
             id == IF rt = NoId THEN NoId ELSE Len(f.values) + 1
             results == {j \in DOMAIN f.insts : f.insts[j].result # NoId}
             results2 == {j \in DOMAIN f2.insts : f2.insts[j].result # NoId}
             upTo(j) == {i \in results : i <= j}
             upTo2(j) == {i \in results2 : i <= j}
  <1>1. /\ n \in Nat /\ DOMAIN f.insts = 1..n /\ Len(f.values) \in Nat /\ Len(f.params) \in Nat
    BY FunctionParts
  <1>2. /\ f2 \in FunctionShapes /\ f2.params = f.params
        /\ Len(f2.values) = IF rt = NoId THEN Len(f.values) ELSE Len(f.values) + 1
        /\ Len(f2.insts) = n + 1
        /\ \A j \in 1..n : f2.insts[j] = f.insts[j]
        /\ f2.insts[n + 1] = [kind |-> k, result |-> id]
    BY EmittedParts DEF SameSignature
  <1>3. DOMAIN f2.insts = 1..n + 1
    BY <1>2, FunctionParts
  <1>4. f2.insts[n + 1].result = id
    BY <1>2
  <1>5. /\ Len(f.values) = Len(f.params) + Cardinality(results)
        /\ \A j \in results : f.insts[j].result = Len(f.params) + Cardinality(upTo(j))
    BY DEF ArenaOf
  <1>6. results \subseteq 1..n /\ IsFiniteSet(results)
    <2>1. results \subseteq 1..n
      BY <1>1
    <2>2. IsFiniteSet(1..n)
      BY <1>1, FS_Interval
    <2> QED BY <2>1, <2>2, FS_Subset
  <1> HIDE DEF f2, n
  <1>7. Cardinality(results) \in Nat
    BY <1>6, FS_CardinalityType
  <1>8. \A j \in 1..n : j \in results2 <=> j \in results
    BY <1>1, <1>2, <1>3
  <1>9. n + 1 \in results2 <=> rt # NoId
    BY <1>1, <1>3, <1>4 DEF NoId
  <1>10. results2 \subseteq 1..n + 1
    BY <1>3
  <1> HIDE DEF results, results2, id
  <1>11. \A j \in results : upTo2(j) = upTo(j)
    BY <1>1, <1>6, <1>8, <1>10, OneMore
  <1>12. CASE rt = NoId
    <2>1. results2 = results
      BY <1>1, <1>6, <1>8, <1>9, <1>10, <1>12, OneMore
    <2>2. \A j \in results2 : f2.insts[j].result = Len(f.params) + Cardinality(upTo2(j))
      BY <1>2, <1>5, <1>6, <1>11, <2>1
    <2> QED BY <1>2, <1>5, <1>12, <2>1, <2>2 DEF ArenaOf, f2, results2
  <1>13. CASE rt # NoId
    <2>1. results2 = results \cup {n + 1} /\ n + 1 \notin results
      BY <1>1, <1>6, <1>8, <1>9, <1>10, <1>13, OneMore
    <2>2. Cardinality(results2) = Cardinality(results) + 1
      BY <1>6, <2>1, FS_AddElement
    <2>3. upTo2(n + 1) = results2
      BY <1>1, <1>6, <1>8, <1>9, <1>10, <1>13, OneMore
    <2>8. Len(f.values) + 1 = Len(f.params) + Cardinality(results2)
      <3>1. \A a, b, c \in Nat : a = b + c => a + 1 = b + (c + 1)
        OBVIOUS
      <3> QED BY <1>1, <1>5, <1>7, <2>2, <3>1
    <2>4. f2.insts[n + 1].result = Len(f.params) + Cardinality(upTo2(n + 1))
      <3>1. f2.insts[n + 1].result = Len(f.values) + 1
        BY <1>4, <1>13 DEF id
      <3> QED BY <2>3, <2>8, <3>1
    <2>5. \A j \in results : f2.insts[j].result = Len(f.params) + Cardinality(upTo2(j))
      BY <1>2, <1>5, <1>6, <1>11
    <2>6. \A j \in results2 : f2.insts[j].result = Len(f.params) + Cardinality(upTo2(j))
      BY <2>1, <2>4, <2>5
    <2>7. Len(f2.values) = Len(f2.params) + Cardinality(results2)
      BY <1>2, <1>13, <2>8
    <2> QED BY <1>2, <2>6, <2>7 DEF ArenaOf, f2, results2
  <1> QED BY <1>12, <1>13

\* A body stays fine when an instruction that type checks is appended.
LEMMA BodyEmits ==
    ASSUME NEW m, NEW m2, Larger(m, m2), TypeTable(m.types),
           \A g \in DOMAIN m.functions : m.functions[g].result \in DOMAIN m.types,
           NEW f \in FunctionShapes, BodyFine(m, f), NEW k \in InstKinds,
           NEW rt \in Nat,
           InstTyped(m, Emitted(f, k, rt),
                     [kind |-> k, result |-> IF rt = NoId THEN NoId ELSE Len(f.values) + 1])
    PROVE  BodyFine(m2, Emitted(f, k, rt))
  <1> DEFINE f2 == Emitted(f, k, rt)
             n == Len(f.insts)
             id == IF rt = NoId THEN NoId ELSE Len(f.values) + 1
             inst == [kind |-> k, result |-> id]
  <1>2. /\ f2 \in FunctionShapes /\ Extended(f.values, f2.values)
        /\ Len(f2.values) = IF rt = NoId THEN Len(f.values) ELSE Len(f.values) + 1
        /\ rt # NoId => f2.values[Len(f.values) + 1] = rt
        /\ Len(f2.insts) = n + 1
        /\ \A j \in 1..n : f2.insts[j] = f.insts[j]
        /\ f2.insts[n + 1] = inst
    BY EmittedParts
  <1>3. ArenaOf(f2)
    BY ArenaGrows DEF BodyFine
  <1>4. /\ DOMAIN f2.values = 1..Len(f2.values) /\ DOMAIN f2.insts = 1..n + 1
        /\ DOMAIN f.values = 1..Len(f.values) /\ DOMAIN f.insts = 1..n
        /\ Len(f.values) \in Nat /\ n \in Nat /\ NoId \notin DOMAIN f2.values
    BY <1>2, FunctionParts
  <1>5. InstTyped(m, f2, inst)
    OBVIOUS
  <1> HIDE DEF f2, n, inst
  <1>8. TypesKnown(m, f2)
    BY <1>2, BodyKnown
  <1>9. \A j \in 1..n : f2.insts[j].result \in {NoId} \cup DOMAIN f2.values
                        /\ InstTyped(m2, f2, f2.insts[j])
    <2>1. \A j \in DOMAIN f.insts :
              f.insts[j].result \in {NoId} \cup DOMAIN f2.values /\ InstTyped(m2, f2, f.insts[j])
      BY <1>2, InstructionsStay
    <2> QED BY <1>2, <1>4, <2>1
  <1>10. inst.result \in {NoId} \cup DOMAIN f2.values
    BY <1>2, <1>4 DEF inst
  <1>11. InstTyped(m2, f2, inst)
    <2>1. inst.kind.op \in AllOps
      BY OpsOfKinds DEF inst
    <2>2. Extended(f2.values, f2.values)
      BY DEF Extended
    <2> QED BY <1>4, <1>5, <1>8, <1>10, <2>1, <2>2, InstructionStays
  <1>13. \A j \in DOMAIN f2.insts : j \in 1..n \/ j = n + 1
    BY <1>4
  <1>14. \A j \in DOMAIN f2.insts : f2.insts[j].result \in {NoId} \cup DOMAIN f2.values
                                   /\ InstTyped(m2, f2, f2.insts[j])
    BY <1>2, <1>9, <1>10, <1>11, <1>13
  <1>15. BodyFine(m2, f2)
    BY <1>3, <1>14 DEF BodyFine
  <1> QED BY <1>15 DEF f2

Module(typeTable, symbolTable, constTable, functionTable) ==
    [types |-> typeTable, symbols |-> symbolTable, consts |-> constTable,
     functions |-> functionTable]

\* M is the module of the variables.
LEMMA FieldsOfM == /\ M = Module(types, symbols, consts, functions)
                   /\ M.types = types /\ M.symbols = symbols
                   /\ M.consts = consts /\ M.functions = functions
  BY DEF M, Module

\* The parts of a module.
LEMMA FieldsOfModule ==
    ASSUME NEW t, NEW s, NEW c, NEW f
    PROVE  /\ Module(t, s, c, f).types = t /\ Module(t, s, c, f).symbols = s
           /\ Module(t, s, c, f).consts = c /\ Module(t, s, c, f).functions = f
  BY DEF Module

\* The instruction Emitted appends.
InstOf(f, k, rt) == [kind |-> k, result |-> IF rt = NoId THEN NoId ELSE Len(f.values) + 1]

\* The functions after append.
Appended(k, rt) ==
    IF CursorOpen THEN [functions EXCEPT ![cursor.fn] = Emitted(F, k, rt)] ELSE functions

\* The constants a call adds are fine, but for those put in by hand.
NewConstantsCheck(table, constTable, byHand) ==
    \A c \in DOMAIN constTable \ byHand :
        c \notin DOMAIN consts => CheckConstant(Module(table, symbols, constTable, functions), c) = {}

\* The step every emitting call takes: the tables grow, then append.
LEMMA Emission ==
    ASSUME IInv, Building, NEW k \in InstKinds, NEW table, NEW constTable,
           TypeTable(table), Extended(types, table),
           ConstTable(constTable, raw), Extended(consts, constTable),
           NewConstantsCheck(table, constTable, raw),
           NEW rt \in Nat,
           CursorOpen =>
               InstTyped(Module(table, symbols, constTable, functions), Emitted(F, k, rt),
                         InstOf(F, k, rt)),
           NEW after, after = Appended(k, rt)
    PROVE  /\ ModuleFine(Module(table, symbols, constTable, after), raw)
           /\ DOMAIN after = DOMAIN functions /\ after[cursor.fn].terms = F.terms
  <1> DEFINE m1 == Module(table, symbols, constTable, functions)
             m2 == Module(table, symbols, constTable, after)
             f2 == Emitted(F, k, rt)
  <1>1. ModuleFine(M, raw) /\ cursor.fn \in DOMAIN functions
    BY DEF IInv, CursorFine, Building
  <1>2. /\ m1.types = table /\ m1.symbols = symbols /\ m1.consts = constTable /\ m1.functions = functions
        /\ m2.types = table /\ m2.symbols = symbols /\ m2.consts = constTable /\ m2.functions = after
    BY FieldsOfModule
  <1>3. \A c \in DOMAIN constTable \ raw : c \notin DOMAIN consts => CheckConstant(m1, c) = {}
    BY DEF NewConstantsCheck
  <1>4. CursorOpen => InstTyped(m1, f2, InstOf(F, k, rt))
    OBVIOUS
  <1> HIDE DEF m1, m2
  <1>5. ModuleFine(m1, raw)
    <2>1. symbols \in Seq(Idents) /\ Extended(symbols, symbols)
      BY <1>1, FieldsOfM DEF ModuleFine, Extended
    <2> QED BY <1>1, <1>2, <1>3, <2>1, FieldsOfM, TablesGrow
  <1>6. F \in FunctionShapes /\ SignatureFine(m1, F) /\ BodyFine(m1, F)
    BY <1>1, <1>2, <1>5, ElementOfSeq, LenProperties DEF ModuleFine, F
  <1>7. CASE CursorOpen
    <2>2. f2 \in FunctionShapes /\ SameSignature(F, f2) /\ f2.terms = F.terms
      BY <1>6, EmittedParts
    <2>3. after = [functions EXCEPT ![cursor.fn] = f2]
      BY <1>7 DEF Appended
    <2>4. \A g \in DOMAIN m1.functions : m1.functions[g].result \in DOMAIN m1.types
      BY <1>5 DEF ModuleFine, SignatureFine
    <2>5. Larger(m1, m2) => BodyFine(m2, f2)
      <3>1. InstTyped(m1, f2, [kind |-> k, result |-> IF rt = NoId THEN NoId ELSE Len(F.values) + 1])
        BY <1>4, <1>7 DEF InstOf
      <3> HIDE DEF f2
      <3>2. TypeTable(m1.types)
        BY <1>2
      <3> USE DEF f2
      <3> QED BY <1>6, <2>4, <3>1, <3>2, BodyEmits
    <2> HIDE DEF f2
    <2>6. ModuleFine(m2, raw)
      <3>1. m1.functions[cursor.fn] = F
        BY <1>2 DEF F
      <3>2. /\ cursor.fn \in DOMAIN m1.functions /\ SameSignature(m1.functions[cursor.fn], f2)
            /\ m2.functions = [m1.functions EXCEPT ![cursor.fn] = f2]
            /\ m2.types = m1.types /\ m2.symbols = m1.symbols /\ m2.consts = m1.consts
        BY <1>1, <1>2, <2>2, <2>3, <3>1
      <3> QED BY <1>5, <2>2, <2>5, <3>2, BodyGrows
    <2>7. DOMAIN after = DOMAIN functions /\ after[cursor.fn] = f2
      BY <1>1, <2>3
    <2> QED BY <2>2, <2>6, <2>7 DEF m2
  <1>8. CASE ~CursorOpen
    <2>1. after = functions /\ m2 = m1
      BY <1>8 DEF m1, m2, Appended
    <2> QED BY <1>5, <2>1 DEF m2, F
  <1> QED BY <1>7, <1>8

-----------------------------------------------------------------------------
(* Interning into fine tables                                              *)

\* Interning a type keeps the type table.
LEMMA InternsType ==
    ASSUME NEW table, TypeTable(table), NEW data \in TypeData
    PROVE  LET new == Intern(table, data)
               id == IdOf(table, data)
           IN  TypeTable(new) /\ Extended(table, new) /\ id \in DOMAIN new /\ new[id] = data
  <1> DEFINE new == Intern(table, data)
             id == IdOf(table, data)
  <1>1. table \in Seq(TypeData)
    BY DEF TypeTable
  <1>2. /\ new \in Seq(TypeData) /\ Len(table) \in Nat
        /\ DOMAIN table = 1..Len(table)
        /\ Extended(table, new) /\ id \in DOMAIN new /\ new[id] = data
        /\ \A i \in DOMAIN new : i \notin DOMAIN table => i = id /\ i = Len(table) + 1
        /\ NoDuplicates(table) => NoDuplicates(new)
    BY <1>1, InternFacts
  <1> HIDE DEF new, id
  <1>3. Extended(Scalars, new)
    BY <1>2 DEF Extended, TypeTable
  <1>4. TypeTable(new)
    BY <1>2, <1>3 DEF TypeTable
  <1> QED BY <1>2, <1>4 DEF new, id

\* Interning a masked constant, or one whose elements exist, keeps the table of constants.
LEMMA InternsConst ==
    ASSUME NEW table, NEW byHand, ConstTable(table, byHand), NEW data \in ConstData,
           data.tag = "Int" => data.bits \in 0..2 ^ data.width - 1,
           data.tag = "Aggregate" => ValuesOf(data.elements) \subseteq DOMAIN table
    PROVE  LET new == Intern(table, data)
               id == IdOf(table, data)
           IN  /\ ConstTable(new, byHand) /\ Extended(table, new) /\ id \in DOMAIN new /\ new[id] = data
               /\ \A c \in DOMAIN new : c \notin DOMAIN table => c = id
               /\ id \notin DOMAIN table => id = Len(table) + 1
  <1> DEFINE new == Intern(table, data)
             id == IdOf(table, data)
  <1>1. table \in Seq(ConstData)
    BY DEF ConstTable
  <1>2. /\ new \in Seq(ConstData) /\ Len(table) \in Nat
        /\ DOMAIN table = 1..Len(table)
        /\ Extended(table, new) /\ id \in DOMAIN new /\ new[id] = data
        /\ \A i \in DOMAIN new : i \notin DOMAIN table => i = id /\ i = Len(table) + 1
        /\ id \notin DOMAIN table => id = Len(table) + 1
    BY <1>1, InternFacts
  <1> HIDE DEF new, id
  <1>3. ASSUME NEW c \in DOMAIN new \ byHand
        PROVE  /\ new[c].tag = "Int" => new[c].bits \in 0..2 ^ new[c].width - 1
               /\ new[c].tag = "Aggregate" => ValuesOf(new[c].elements) \subseteq 1..c - 1
    <2>1. CASE c \in DOMAIN table
      <3>1. new[c] = table[c]
        BY <1>2, <2>1 DEF Extended
      <3> QED BY <2>1, <3>1 DEF ConstTable
    <2>2. CASE c \notin DOMAIN table
      <3>1. c = Len(table) + 1 /\ new[c] = data
        BY <1>2, <2>2
      <3>2. 1..c - 1 = DOMAIN table
        BY <1>2, <3>1
      <3> QED BY <3>1, <3>2
    <2> QED BY <2>1, <2>2
  <1>4. ConstTable(new, byHand)
    BY <1>2, <1>3 DEF ConstTable, Extended
  <1> QED BY <1>2, <1>4 DEF new, id

\* What a caller uses for type ids are ids, and the named scalars exist.
LEMMA InputsKnown ==
    ASSUME TypeTable(types)
    PROVE  /\ TypeInputs \subseteq Ids /\ OperandTypes \subseteq Ids
           /\ {I1, I8, F32, F64} \subseteq DOMAIN types
           /\ types[F32] = FloatData(32) /\ types[F64] = FloatData(64)
           /\ DOMAIN types \subseteq Ids /\ {I1, I8, F32, F64} \subseteq Ids
  <1>1. \A t \in DOMAIN Scalars : t \in DOMAIN types /\ types[t] = Scalars[t]
    BY DEF TypeTable, Extended
  <1>2. {I1, I8, F32, F64} \subseteq DOMAIN types
        /\ types[F32] = FloatData(32) /\ types[F64] = FloatData(64)
    BY <1>1, ScalarFacts
  <1>3. DOMAIN types \subseteq Ids /\ {Len(types) + 1, Len(types) + 2} \subseteq Ids
    BY TypeTableFacts DEF Ids, NoId
  <1>4. ScalarInputs \subseteq DOMAIN types /\ Composites \subseteq DOMAIN types
    <2>1. ScalarInputs \subseteq DOMAIN types
      BY <1>1, ModuleBuilderAssumption
    <2>2. DOMAIN types = 1..Len(types) /\ Len(types) \in Nat
      BY TypeTableFacts
    <2>3. Len(Scalars) = 14
      BY ScalarFacts
    <2> QED BY <2>1, <2>2, <2>3 DEF Composites
  <1>5. {I1, I8, F32, F64} \subseteq Ids
    BY <1>2, <1>3
  <1>6. TypeInputs \subseteq Ids
    BY <1>3, <1>4 DEF TypeInputs
  <1>7. OperandTypes \subseteq Ids
    BY <1>5, <1>6 DEF OperandTypes
  <1> QED BY <1>2, <1>3, <1>5, <1>6, <1>7

\* The lists callers pass are sequences.
LEMMA ListsAreSequences ==
    ASSUME NEW n \in Nat, NEW S, NEW T, S \subseteq T, NEW list \in ListsUpTo(n, S)
    PROVE  list \in Seq(T) /\ \A i \in DOMAIN list : list[i] \in S
  <1>1. PICK k \in 0..n : list \in [1..k -> S]
    BY DEF ListsUpTo
  <1>2. list \in [1..k -> T] /\ k \in Nat
    BY <1>1
  <1> QED BY <1>1, <1>2, SeqDef

\* What is masked to a width fits it.
LEMMA MaskBounds ==
    ASSUME NEW width \in Nat, NEW v \in Int
    PROVE  Mask(v, width) \in Nat /\ Mask(v, width) \in 0..2 ^ width - 1
  <1>1. IsFiniteSet(1..width) /\ Cardinality(1..width) = width
    BY FS_Interval
  <1>2. IsFiniteSet(SUBSET (1..width)) /\ Cardinality(SUBSET (1..width)) = 2 ^ width
    BY <1>1, FS_SUBSET
  <1>3. Cardinality(SUBSET (1..width)) \in Nat /\ Cardinality(SUBSET (1..width)) # 0
    <2>1. SUBSET (1..width) # {}
      OBVIOUS
    <2> QED BY <1>2, <2>1, FS_CardinalityType, FS_EmptySet
  <1>4. 2 ^ width \in Nat /\ 2 ^ width > 0
    BY <1>2, <1>3
  <1> QED BY <1>4 DEF Mask

-----------------------------------------------------------------------------
(* The emitting calls                                                      *)

\* What the builder accepts names operands of the arena, and a type if it has a result.
LEMMA AcceptedKnown ==
    ASSUME TypeTable(types), SignaturesKnown, NEW f, TypesKnown(M, f),
           NEW k, k.op \in AllOps \ {"alloca", "const"},
           k.op \in {"call", "construct"} => k.args \in Seq(Nat),
           k.op \in {"extract", "insert"} => k.index \in Nat,
           Accepts(f, k)
    PROVE  Operands(k) \subseteq DOMAIN f.values /\ ResultType(f, k) \in Nat
  <1> DEFINE op == k.op
  <1>1. \A v : /\ v \in DOMAIN f.values => f.values[v] \in Nat
               /\ TyOf(f, v) \in DOMAIN types => v \in DOMAIN f.values
               /\ TyOf(f, v) # NoId => v \in DOMAIN f.values
    BY TypeTableFacts DEF TyOf, TypesKnown, M, Ids
  <1>2. NoId \notin DOMAIN types /\ DOMAIN types \subseteq Nat /\ I1 \in Nat
    BY TypeTableFacts DEF I1
  <1>3. CASE op \in BinaryOps
    <2>1. op \notin ConvOps /\ op \notin OtherOps
      BY <1>3, OpsApart
    <2>2. /\ Operands(k) = {k.lhs, k.rhs} /\ BinaryOk(f, k)
          /\ ResultType(f, k) = BinaryResult(f, k)
      BY <1>3, <2>1 DEF Operands, Accepts, ResultType, OtherOps
    <2> QED BY <1>1, <1>2, <2>2 DEF BinaryOk, BinaryResult
  <1>4. CASE op \in ConvOps
    <2>1. op \notin BinaryOps /\ op \notin OtherOps
      BY <1>4, OpsApart
    <2>2. Operands(k) = {k.value} /\ ConvOk(f, k) /\ ResultType(f, k) = k.to
      BY <1>4, <2>1 DEF Operands, Accepts, ResultType, OtherOps
    <2> QED BY <1>1, <1>2, <2>2 DEF ConvOk, Holds
  <1>5. CASE op \in OtherOps
    <2>1. op \notin BinaryOps /\ op \notin ConvOps
      BY <1>5, OpsApart
    <2>2. \A p : PointeeOf(f, p) # NoId => p \in DOMAIN f.values
      BY <1>1 DEF PointeeOf, Pointee, M, Holds
    <2>3. FieldOf(f, k) # NoId => k.aggregate \in DOMAIN f.values
      BY <1>1 DEF FieldOf, FieldAt, M, Holds
    <2>4. CASE op = "load"
      <3>1. Operands(k) = {k.pointer} /\ LoadOk(f, k) /\ ResultType(f, k) = k.ty
        BY <2>1, <2>4 DEF Operands, Accepts, ResultType
      <3> QED BY <1>2, <2>2, <3>1 DEF LoadOk, Holds
    <2>5. CASE op = "store"
      <3>1. Operands(k) = {k.pointer, k.value} /\ StoreOk(f, k) /\ ResultType(f, k) = NoId
        BY <2>1, <2>5 DEF Operands, Accepts, ResultType
      <3> QED BY <2>2, <3>1 DEF StoreOk, NoId
    <2>6. CASE op = "ptr_offset"
      <3>1. Operands(k) = {k.pointer, k.offset} /\ PtrOffsetOk(f, k)
            /\ ResultType(f, k) = f.values[k.pointer]
        BY <2>1, <2>6 DEF Operands, Accepts, ResultType
      <3> QED BY <1>1, <3>1 DEF PtrOffsetOk, Holds
    <2>7. CASE op = "call"
      <3>1. Operands(k) = ValuesOf(k.args) /\ CallOk(f, k) /\ ResultType(f, k) = CallResult(k)
        BY <2>1, <2>7 DEF Operands, Accepts, ResultType
      <3>2. k.callee \in DOMAIN functions /\ \A i \in DOMAIN k.args : k.args[i] \in DOMAIN f.values
        BY <3>1 DEF CallOk
      <3> QED BY <1>2, <3>1, <3>2 DEF ValuesOf, CallResult, SignaturesKnown, NoId
    <2>8. CASE op = "construct"
      <3>1. Operands(k) = ValuesOf(k.args) /\ ConstructOk(f, k) /\ ResultType(f, k) = k.ty
        BY <2>1, <2>8 DEF Operands, Accepts, ResultType
      <3>2. k.ty \in DOMAIN types /\ \A i \in DOMAIN k.args : k.args[i] \in DOMAIN f.values
        BY <3>1 DEF ConstructOk, Holds
      <3> QED BY <1>2, <3>1, <3>2 DEF ValuesOf
    <2>9. CASE op = "extract"
      <3>1. Operands(k) = {k.aggregate} /\ FieldOf(f, k) # NoId /\ ResultType(f, k) = FieldOf(f, k)
        BY <2>1, <2>9 DEF Operands, Accepts, ResultType
      <3>2. FieldOf(f, k) \in Nat
        BY <2>9, TypeTableFacts DEF FieldOf, FieldAt, M, Holds, Ids, NoId
      <3> QED BY <2>3, <3>1, <3>2
    <2>10. CASE op = "insert"
      <3>1. Operands(k) = {k.aggregate, k.value} /\ InsertOk(f, k)
            /\ ResultType(f, k) = f.values[k.aggregate]
        BY <2>1, <2>10 DEF Operands, Accepts, ResultType
      <3> QED BY <1>1, <2>3, <3>1 DEF InsertOk
    <2> QED BY <1>5, <2>4, <2>5, <2>6, <2>7, <2>8, <2>9, <2>10 DEF OtherOps
  <1> QED BY <1>3, <1>4, <1>5 DEF AllOps

\* The fields an instruction has for its op.
LEMMA KindParts ==
    ASSUME NEW k \in InstKinds
    PROVE  /\ k.op \in {"call", "construct"} => k.args \in Seq(Nat)
           /\ k.op \in {"extract", "insert"} => k.index \in Nat
  <1>1. \A op \in {"call", "construct", "extract", "insert"} : op \notin BinaryOps /\ op \notin ConvOps
    BY OpsApart DEF OtherOps
  <1> QED BY <1>1 DEF InstKinds

\* What the invariant says of the variables.
LEMMA StateFacts ==
    ASSUME IInv
    PROVE  /\ TypeTable(types) /\ ConstTable(consts, raw) /\ SignaturesKnown
           /\ symbols \in Seq(Idents) /\ functions \in Seq(FunctionShapes)
           /\ Len(functions) \in Nat /\ DOMAIN functions = 1..Len(functions)
           /\ \A g \in DOMAIN functions :
                 /\ functions[g] \in FunctionShapes
                 /\ SignatureFine(M, functions[g]) /\ BodyFine(M, functions[g])
           /\ Building => /\ cursor.fn \in DOMAIN functions /\ F \in FunctionShapes
                          /\ SignatureFine(M, F) /\ BodyFine(M, F) /\ TypesKnown(M, F)
  <1>1. ModuleFine(M, raw) /\ CursorFine
    BY DEF IInv
  <1>2. /\ TypeTable(types) /\ ConstTable(consts, raw) /\ symbols \in Seq(Idents)
        /\ functions \in Seq(FunctionShapes)
        /\ \A g \in DOMAIN functions :
              SignatureFine(M, functions[g]) /\ BodyFine(M, functions[g])
    BY <1>1, FieldsOfM DEF ModuleFine
  <1>3. Len(functions) \in Nat /\ DOMAIN functions = 1..Len(functions)
    BY <1>2, LenProperties
  <1>4. \A g \in DOMAIN functions : functions[g] \in FunctionShapes
    BY <1>2, <1>3, ElementOfSeq
  <1>5. SignaturesKnown
    BY <1>2, <1>4, FieldsOfM, FunctionParts DEF SignaturesKnown, SignatureFine
  <1>6. Building => cursor.fn \in DOMAIN functions
    BY <1>1 DEF CursorFine, Building
  <1>7. Building => /\ F \in FunctionShapes /\ SignatureFine(M, F) /\ BodyFine(M, F)
                    /\ TypesKnown(M, F)
    BY <1>2, <1>4, <1>6, FieldsOfM, BodyKnown DEF F
  <1> QED BY <1>2, <1>3, <1>4, <1>5, <1>6, <1>7

\* The cursor stays fine when its function keeps its blocks.
LEMMA CursorKeeps ==
    ASSUME CursorFine, cursor' = cursor, DOMAIN functions' = DOMAIN functions,
           Building => functions'[cursor.fn].terms = F.terms
    PROVE  CursorFine'
  BY DEF CursorFine, Building, F

\* After a call that emits k the invariant holds, when k type checks over the new tables.
LEMMA EmissionKeeps ==
    ASSUME IInv, Building, NEW k \in InstKinds,
           TypeTable(types'), Extended(types, types'),
           ConstTable(consts', raw), Extended(consts, consts'),
           NewConstantsCheck(types', consts', raw),
           NEW rt \in Nat,
           CursorOpen =>
               InstTyped(Module(types', symbols, consts', functions), Emitted(F, k, rt),
                         InstOf(F, k, rt)),
           AppendInst(k, rt), UNCHANGED <<symbols, cursor, raw>>
    PROVE  IInv'
  <1>1. PICK table : table = types'
    OBVIOUS
  <1>2. PICK constTable : constTable = consts'
    OBVIOUS
  <1>3. PICK after : after = functions'
    OBVIOUS
  <1>4. after = Appended(k, rt)
    BY <1>3 DEF AppendInst, Appended
  <1>5. /\ TypeTable(table) /\ Extended(types, table) /\ ConstTable(constTable, raw)
        /\ Extended(consts, constTable) /\ NewConstantsCheck(table, constTable, raw)
    BY <1>1, <1>2
  <1>7. CursorOpen =>
            InstTyped(Module(table, symbols, constTable, functions), Emitted(F, k, rt),
                      InstOf(F, k, rt))
    BY <1>1, <1>2
  <1>8. /\ ModuleFine(Module(table, symbols, constTable, after), raw)
        /\ DOMAIN after = DOMAIN functions /\ after[cursor.fn].terms = F.terms
    BY <1>4, <1>5, <1>7, Emission
  <1>9. M' = Module(table, symbols, constTable, after)
    BY <1>1, <1>2, <1>3 DEF M, Module
  <1>10. CursorFine'
    BY <1>3, <1>8, CursorKeeps DEF IInv
  <1> QED BY <1>8, <1>9, <1>10 DEF IInv

\* What append adds to the arena is room for the result, as Agreement asks.
LEMMA EmittedHasRoom ==
    ASSUME NEW f \in FunctionShapes, NEW k \in InstKinds, NEW rt \in Nat,
           TypeTable(types), Operands(k) \subseteq DOMAIN f.values
    PROVE  LET f2 == Emitted(f, k, rt)
               inst == InstOf(f, k, rt)
           IN  /\ WithResult(f, f2, inst, rt) /\ TypesKnown(M, f2)
               /\ inst.kind = k
  <1> DEFINE f2 == Emitted(f, k, rt)
             id == IF rt = NoId THEN NoId ELSE Len(f.values) + 1
             inst == InstOf(f, k, rt)
  <1>1. M.types = types
    BY DEF M
  <1>2. /\ f2 \in FunctionShapes /\ Extended(f.values, f2.values)
        /\ Len(f2.values) = IF rt = NoId THEN Len(f.values) ELSE Len(f.values) + 1
        /\ rt # NoId => f2.values[Len(f.values) + 1] = rt
    BY EmittedParts
  <1>3. /\ DOMAIN f2.values = 1..Len(f2.values) /\ DOMAIN f.values = 1..Len(f.values)
        /\ Len(f.values) \in Nat /\ NoId \notin DOMAIN f2.values
    BY <1>2, FunctionParts
  <1> HIDE DEF f2
  <1>5. TypesKnown(M, f2)
    BY <1>1, <1>2, BodyKnown
  <1>6. inst.result = id /\ inst.kind = k
    BY DEF InstOf
  <1>7. id = NoId <=> rt = NoId
    BY <1>3 DEF NoId
  <1>8. TyOf(f2, id) = rt
    BY <1>2, <1>3 DEF TyOf
  <1> HIDE DEF inst, id
  <1>9. WithResult(f, f2, inst, rt)
    BY <1>2, <1>6, <1>7, <1>8 DEF WithResult
  <1> QED BY <1>5, <1>6, <1>9 DEF f2, inst, id

\* The calls that check their operands and append: all but alloca and the constants.
LEMMA EmitKeeps ==
    ASSUME IInv, Building, NEW k \in InstKinds, k.op \notin {"alloca", "const"},
           Emit(k), NoTableChanges
    PROVE  IInv'
  <1> DEFINE rt == ResultType(F, k)
             inst == InstOf(F, k, rt)
  <1>1. /\ Accepts(F, k) /\ AppendInst(k, rt)
        /\ types' = types /\ consts' = consts /\ symbols' = symbols /\ cursor' = cursor
        /\ raw' = raw
    BY DEF Emit, NoTableChanges
  <1>2. /\ TypeTable(types) /\ ConstTable(consts, raw) /\ SignaturesKnown
        /\ F \in FunctionShapes /\ TypesKnown(M, F)
    BY StateFacts
  <1>3. k.op \in AllOps \ {"alloca", "const"}
        /\ (k.op \in {"call", "construct"} => k.args \in Seq(Nat))
        /\ (k.op \in {"extract", "insert"} => k.index \in Nat)
    BY OpsOfKinds, KindParts
  <1>4. Operands(k) \subseteq DOMAIN F.values /\ rt \in Nat
    BY <1>1, <1>2, <1>3, AcceptedKnown
  <1> HIDE DEF rt
  <1>5. WithResult(F, Emitted(F, k, rt), inst, rt) /\ TypesKnown(M, Emitted(F, k, rt)) /\ inst.kind = k
    BY <1>2, <1>4, EmittedHasRoom
  <1>6. InstTyped(M, Emitted(F, k, rt), inst)
    <2>1. PICK f : f = F
      OBVIOUS
    <2>2. PICK f2 : f2 = Emitted(F, k, rt)
      OBVIOUS
    <2>3. PICK i : i = inst
      OBVIOUS
    <2>4. TypesKnown(M, f) /\ TypesKnown(M, f2) /\ WithResult(f, f2, i, rt) /\ i.kind = k
      BY <1>2, <1>5, <2>1, <2>2, <2>3
    <2>5. InstTyped(M, f2, i) <=> Accepts(f, k) /\ rt = ResultType(f, k)
      BY <1>2, <1>3, <2>4, Agreement
    <2> QED BY <1>1, <2>1, <2>2, <2>3, <2>5 DEF rt
  <1>7. M = Module(types', symbols, consts', functions)
    BY <1>1, FieldsOfM
  <1>8. Extended(types, types') /\ Extended(consts, consts')
    BY <1>1 DEF Extended
  <1>9. InstTyped(Module(types', symbols, consts', functions), Emitted(F, k, rt), inst)
    BY <1>6, <1>7
  <1>10. /\ TypeTable(types') /\ ConstTable(consts', raw)
         /\ NewConstantsCheck(types', consts', raw)
    BY <1>1, <1>2 DEF NewConstantsCheck
  <1> QED BY <1>1, <1>4, <1>8, <1>9, <1>10, EmissionKeeps

\* The result of the appended instruction has its type.
LEMMA EmittedResult ==
    ASSUME NEW f \in FunctionShapes, NEW k \in InstKinds, NEW rt \in Nat
    PROVE  TyOf(Emitted(f, k, rt), InstOf(f, k, rt).result) = rt
           /\ InstOf(f, k, rt).kind = k
  <1> DEFINE f2 == Emitted(f, k, rt)
             id == IF rt = NoId THEN NoId ELSE Len(f.values) + 1
  <1>1. /\ f2 \in FunctionShapes
        /\ Len(f2.values) = IF rt = NoId THEN Len(f.values) ELSE Len(f.values) + 1
        /\ rt # NoId => f2.values[Len(f.values) + 1] = rt
    BY EmittedParts
  <1>2. /\ DOMAIN f2.values = 1..Len(f2.values) /\ Len(f.values) \in Nat /\ NoId \notin DOMAIN f2.values
    BY <1>1, FunctionParts
  <1> HIDE DEF f2
  <1>3. TyOf(f2, id) = rt
    BY <1>1, <1>2 DEF TyOf
  <1>4. InstOf(f, k, rt).result = id /\ InstOf(f, k, rt).kind = k
    BY DEF InstOf
  <1> QED BY <1>3, <1>4 DEF f2

\* The pointer to any type may be interned.
LEMMA PointerInterns ==
    ASSUME TypeTable(types), NEW t \in Ids
    PROVE  LET table == Intern(types, PointerData(t, 0))
               id == IdOf(types, PointerData(t, 0))
           IN  /\ TypeTable(table) /\ Extended(types, table) /\ id \in DOMAIN table
               /\ table[id] = PointerData(t, 0)
  <1>1. PointerData(t, 0) \in [tag : {"Pointer"}, pointee : Ids, space : Nat]
    BY DEF PointerData
  <1>2. PointerData(t, 0) \in TypeData
    BY <1>1 DEF TypeData
  <1> QED BY <1>2, InternsType

\* alloca: the pointer type is interned first.
LEMMA AllocaKeeps ==
    ASSUME IInv, Building, NEW t \in Ids, Alloca(t)
    PROVE  IInv'
  <1> DEFINE k == [op |-> "alloca", ty |-> t]
             data == PointerData(t, 0)
             rt == IdOf(types, data)
             table == Intern(types, data)
             m1 == Module(table, symbols, consts, functions)
  <1>1. /\ Accepts(F, k) /\ AppendInst(k, ResultType(F, k)) /\ types' = table
        /\ consts' = consts /\ symbols' = symbols /\ cursor' = cursor /\ raw' = raw
    BY DEF Alloca, Emit
  <1>2. k.op = "alloca" /\ k.ty = t /\ k.op \notin BinaryOps /\ k.op \notin ConvOps
    BY OpsApart DEF OtherOps
  <1>3. Holds(types, t, IsFirstClass) /\ ResultType(F, k) = rt
    BY <1>1, <1>2 DEF Accepts, ResultType
  <1>4. k \in InstKinds
    <2>1. k \in [op : {"alloca"}, ty : Nat]
      BY DEF Ids
    <2> QED BY <2>1 DEF InstKinds
  <1>5. TypeTable(types) /\ ConstTable(consts, raw) /\ F \in FunctionShapes
    BY StateFacts
  <1>7. TypeTable(table) /\ Extended(types, table) /\ rt \in DOMAIN table /\ table[rt] = data
    BY <1>5, PointerInterns
  <1> HIDE DEF data
  <1> HIDE DEF k, table, rt
  <1>8. InstTyped(m1, Emitted(F, k, rt), InstOf(F, k, rt))
    <2>1. rt \in Nat /\ rt # NoId
      BY <1>7, TypeTableFacts
    <2>2. TyOf(Emitted(F, k, rt), InstOf(F, k, rt).result) = rt /\ InstOf(F, k, rt).kind = k
      BY <1>4, <1>5, <2>1, EmittedResult
    <2>3. Holds(table, t, IsFirstClass)
      BY <1>3, <1>7 DEF Holds, Extended
    <2>4. AllocaTyped(m1, Emitted(F, k, rt), InstOf(F, k, rt))
      BY <1>2, <1>7, <2>2, <2>3, FieldsOfModule DEF AllocaTyped, data
    <2>5. Operands(k) = {}
      BY <1>2 DEF Operands
    <2> HIDE DEF m1
    <2> QED BY <1>2, <2>2, <2>4, <2>5 DEF InstTyped, ArmTyped
  <1>9. NewConstantsCheck(types', consts', raw)
    BY <1>1 DEF NewConstantsCheck
  <1>10. Extended(consts, consts')
    BY <1>1 DEF Extended
  <1>11. InstTyped(Module(types', symbols, consts', functions), Emitted(F, k, rt), InstOf(F, k, rt))
    BY <1>1, <1>8
  <1>12. /\ AppendInst(k, rt) /\ TypeTable(types') /\ Extended(types, types') /\ ConstTable(consts', raw)
         /\ rt \in Nat /\ UNCHANGED <<symbols, cursor, raw>>
    BY <1>1, <1>3, <1>5, <1>7, TypeTableFacts
  <1> QED BY <1>4, <1>9, <1>10, <1>11, <1>12, EmissionKeeps

\* What the code checks before it interns a constant c, typed rt over table.
ConstantAllowed(table, c, rt) ==
    /\ TypeTable(table) /\ Extended(types, table) /\ rt \in DOMAIN table
    /\ ConstantFits(table, c, rt)
    /\ c.tag = "Int" => c.bits \in 0..2 ^ c.width - 1
    /\ c.tag = "Null" => Holds(table, c.pointee, IsFirstClass)
    /\ c.tag = "Aggregate" =>
          /\ FieldCount(table[rt]) = Len(c.elements)
          /\ \A i \in DOMAIN c.elements :
                /\ c.elements[i] \in DOMAIN consts
                /\ ConstantFits(table, consts[c.elements[i]], FieldType(table[rt], i - 1))

\* The const_* calls keep the invariant when they intern what is allowed.
LEMMA EmitConstKeeps ==
    ASSUME IInv, Building, NEW c \in ConstData, NEW table, NEW rt, ConstantAllowed(table, c, rt),
           EmitConst(c, table, rt)
    PROVE  IInv'
  <1> DEFINE id == IdOf(consts, c)
             k == [op |-> "const", constant |-> id]
             after == Intern(consts, c)
             m1 == Module(table, symbols, after, functions)
  <1>1. /\ consts' = after /\ types' = table /\ AppendInst(k, rt)
        /\ symbols' = symbols /\ cursor' = cursor /\ raw' = raw
    BY DEF EmitConst
  <1>2. TypeTable(types) /\ ConstTable(consts, raw) /\ F \in FunctionShapes
    BY StateFacts
  <1>3. c.tag = "Aggregate" => ValuesOf(c.elements) \subseteq DOMAIN consts
    BY DEF ConstantAllowed, ValuesOf
  <1>4. /\ ConstTable(after, raw) /\ Extended(consts, after) /\ id \in DOMAIN after /\ after[id] = c
        /\ \A e \in DOMAIN after : e \notin DOMAIN consts => e = id
        /\ id \notin DOMAIN consts => id = Len(consts) + 1
    BY <1>2, <1>3, InternsConst DEF ConstantAllowed
  <1>5. DOMAIN consts = 1..Len(consts) /\ Len(consts) \in Nat /\ id \in Nat
    BY <1>2, <1>4, LenProperties DEF ConstTable
  <1>6. k \in InstKinds /\ k.op = "const" /\ k.constant = id
    <2>1. k \in [op : {"const"}, constant : Nat]
      BY <1>5
    <2> QED BY <2>1 DEF InstKinds
  <1> HIDE DEF k, after, id
  <1>7. /\ m1.types = table /\ m1.consts = after
    BY FieldsOfModule
  <1> HIDE DEF m1
  <1>8. NewConstantsCheck(table, after, raw)
    <2>1. ASSUME id \notin DOMAIN consts PROVE CheckConstant(m1, id) = {}
      <3>1. c.tag \in {"Int", "Float", "Null", "String", "Aggregate"}
        BY ConstDataFacts
      <3>2. ConstantFine(m1, id)
        <4>1. CASE c.tag = "Int"
          BY <1>4, <1>7, <4>1 DEF ConstantFine, ConstantAllowed, ConstantFits
        <4>2. CASE c.tag = "Float"
          BY <1>4, <1>7, <4>2 DEF ConstantFine, ConstantAllowed, ConstantFits
        <4>3. CASE c.tag = "Null"
          BY <1>4, <1>7, <4>3 DEF ConstantFine, ConstantAllowed
        <4>4. CASE c.tag = "String"
          BY <1>4, <4>4, <1>7 DEF ConstantFine
        <4>5. CASE c.tag = "Aggregate"
          <5>1. c.ty = rt /\ IsAggregate(table[rt]) /\ rt \in DOMAIN table
            BY <4>5 DEF ConstantAllowed, ConstantFits
          <5>2. FieldCount(table[rt]) = Len(c.elements)
            BY <4>5 DEF ConstantAllowed
          <5>3. ASSUME NEW i \in DOMAIN c.elements
                PROVE  /\ c.elements[i] \in DOMAIN after /\ ~(c.elements[i] >= id)
                       /\ ConstantFits(table, after[c.elements[i]], FieldType(table[rt], i - 1))
            <6>1. c.elements[i] \in DOMAIN consts
                  /\ ConstantFits(table, consts[c.elements[i]], FieldType(table[rt], i - 1))
              BY <4>5 DEF ConstantAllowed
            <6>2. c.elements[i] \in DOMAIN after /\ after[c.elements[i]] = consts[c.elements[i]]
              BY <1>4, <6>1 DEF Extended
            <6>3. ~(c.elements[i] >= id)
              BY <1>4, <1>5, <2>1, <6>1
            <6> QED BY <6>1, <6>2, <6>3
          <5> QED BY <1>4, <1>7, <4>5, <5>1, <5>2, <5>3 DEF ConstantFine
        <4> QED BY <3>1, <4>1, <4>2, <4>3, <4>4, <4>5
      <3> QED BY <1>4, <1>7, <3>1, <3>2, ConstantChecks
    <2> QED BY <1>4, <2>1 DEF NewConstantsCheck, m1
  <1>9. InstTyped(m1, Emitted(F, k, rt), InstOf(F, k, rt))
    <2>1. rt \in Nat /\ rt # NoId
      BY TypeTableFacts DEF ConstantAllowed
    <2>2. TyOf(Emitted(F, k, rt), InstOf(F, k, rt).result) = rt /\ InstOf(F, k, rt).kind = k
      BY <1>2, <1>6, <2>1, EmittedResult
    <2>3. ConstTyped(m1, Emitted(F, k, rt), InstOf(F, k, rt))
      BY <1>4, <1>6, <1>7, <2>1, <2>2 DEF ConstTyped, ConstantAllowed
    <2>4. k.op \notin BinaryOps /\ k.op \notin ConvOps
      BY <1>6, OpsApart DEF OtherOps
    <2>5. Operands(k) = {}
      BY <1>6, <2>4 DEF Operands
    <2> QED BY <1>6, <2>2, <2>3, <2>4, <2>5 DEF InstTyped, ArmTyped
  <1>10. InstTyped(Module(types', symbols, consts', functions), Emitted(F, k, rt), InstOf(F, k, rt))
    BY <1>1, <1>9 DEF m1
  <1>11. NewConstantsCheck(types', consts', raw)
    BY <1>1, <1>8
  <1>12. /\ TypeTable(types') /\ Extended(types, types') /\ ConstTable(consts', raw)
         /\ Extended(consts, consts') /\ rt \in Nat
         /\ UNCHANGED <<symbols, cursor, raw>>
    BY <1>1, <1>4, TypeTableFacts DEF ConstantAllowed
  <1> QED BY <1>1, <1>6, <1>10, <1>11, <1>12, EmissionKeeps

\* Every const_* call keeps the invariant.
LEMMA ConstCallsKeep ==
    ASSUME IInv, Building, ConstCalls
    PROVE  IInv'
  <1>1. TypeTable(types) /\ ConstTable(consts, raw)
    BY StateFacts
  <1>2. TypeInputs \subseteq Ids /\ I8 \in Ids /\ {F32, F64} \subseteq Ids /\ {I8, F32, F64} \subseteq DOMAIN types
        /\ types[F32] = FloatData(32) /\ types[F64] = FloatData(64) /\ DOMAIN types \subseteq Ids
    BY <1>1, InputsKnown
  <1>3. Extended(types, types)
    BY DEF Extended
  <1>4. ASSUME NEW t \in TypeInputs, ConstNull(t) PROVE IInv'
    <2> DEFINE c == NullConst(t)
    <2>1. c \in [tag : {"Null"}, pointee : Ids] /\ c.tag = "Null" /\ c.pointee = t
      BY <1>2, <1>4 DEF NullConst
    <2>2. c \in ConstData
      BY <2>1 DEF ConstData
    <2> HIDE DEF c
    <2>3. ASSUME NEW table, NEW id, table = Intern(types, PointerData(t, 0)),
                 id = IdOf(types, PointerData(t, 0))
          PROVE  ConstantAllowed(table, c, id)
      <3>1. /\ TypeTable(table) /\ Extended(types, table) /\ id \in DOMAIN table
            /\ table[id] = PointerData(t, 0)
        BY <1>1, <1>2, <2>3, PointerInterns
      <3>2. Holds(table, t, IsFirstClass)
        BY <1>4, <3>1 DEF ConstNull, Holds, Extended
      <3> QED BY <2>1, <3>1, <3>2 DEF ConstantAllowed, ConstantFits
    <2>4. EmitConst(c, Intern(types, PointerData(t, 0)), IdOf(types, PointerData(t, 0)))
      BY <1>4 DEF ConstNull, EmitConstPtr, c
    <2> QED BY <2>2, <2>3, <2>4, EmitConstKeeps
  <1>5. ASSUME NEW t \in TypeInputs, NEW v \in IntValues, ConstInt(t, v) PROVE IInv'
    <2> DEFINE c == ConstIntData(t, v)
               width == types[t].bits
    <2>1. t \in DOMAIN types /\ IsInteger(types[t]) /\ EmitConst(c, types, t)
      BY <1>5 DEF ConstInt, Holds
    <2>2. width \in Nat /\ v \in Int /\ t \in Ids
      BY <1>1, <1>2, <2>1, TypeTableFacts, ModuleBuilderAssumption DEF IsInteger
    <2>3. Mask(v, width) \in Nat /\ Mask(v, width) \in 0..2 ^ width - 1
      BY <2>2, MaskBounds
    <2>4. /\ c \in [tag : {"Int"}, ty : Ids, width : Nat, bits : Nat]
          /\ c.tag = "Int" /\ c.ty = t /\ c.width = width /\ c.bits = Mask(v, width)
      <3> HIDE DEF width
      <3>1. c = [tag |-> "Int", ty |-> t, width |-> width, bits |-> Mask(v, width)]
        BY DEF ConstIntData, IntConst, width
      <3> HIDE DEF c
      <3> QED BY <2>2, <2>3, <3>1
    <2>5. c \in ConstData
      BY <2>4 DEF ConstData
    <2> HIDE DEF c
    <2>6. ConstantAllowed(types, c, t)
      BY <1>1, <1>3, <2>1, <2>3, <2>4 DEF ConstantAllowed, ConstantFits
    <2> QED BY <2>1, <2>5, <2>6, EmitConstKeeps
  <1>6. ASSUME NEW t \in {F32, F64}, ConstFloat(t) PROVE IInv'
    <2> DEFINE c == FloatConst(t, 0)
    <2>1. /\ c \in [tag : {"Float"}, ty : Ids, bits : Nat] /\ c.tag = "Float" /\ c.ty = t
      BY <1>2, <1>6 DEF FloatConst
    <2>2. c \in ConstData
      BY <2>1 DEF ConstData
    <2>3. EmitConst(c, types, t)
      BY <1>6 DEF ConstFloat
    <2> HIDE DEF c
    <2>4. t \in DOMAIN types /\ IsFloat(types[t])
      BY <1>2, <1>6 DEF IsFloat, FloatData
    <2>5. ConstantAllowed(types, c, t)
      BY <1>1, <1>3, <2>1, <2>4 DEF ConstantAllowed, ConstantFits
    <2> QED BY <2>2, <2>3, <2>5, EmitConstKeeps
  <1>7. ASSUME ConstString PROVE IInv'
    <2> DEFINE c == StringConst(<<>>)
    <2>1. /\ c \in [tag : {"String"}, bytes : Seq(Nat)] /\ c.tag = "String"
      BY DEF StringConst
    <2>2. c \in ConstData
      BY <2>1 DEF ConstData
    <2>3. EmitConst(c, Intern(types, PointerData(I8, 0)), IdOf(types, PointerData(I8, 0)))
      BY <1>7 DEF ConstString, EmitConstPtr
    <2> HIDE DEF c
    <2>4. ASSUME NEW table, NEW id, table = Intern(types, PointerData(I8, 0)),
                 id = IdOf(types, PointerData(I8, 0))
          PROVE  ConstantAllowed(table, c, id)
      <3>1. /\ TypeTable(table) /\ Extended(types, table) /\ id \in DOMAIN table
            /\ table[id] = PointerData(I8, 0)
        BY <1>1, <1>2, <2>4, PointerInterns
      <3> QED BY <2>1, <3>1 DEF ConstantAllowed, ConstantFits
    <2> QED BY <2>2, <2>3, <2>4, EmitConstKeeps
  <1>8. ASSUME NEW t \in TypeInputs, NEW es \in ListsUpTo(MaxArgs, ConstInputs), ConstAggregate(t, es)
        PROVE  IInv'
    <2> DEFINE c == AggregateConst(t, es)
    <2>1. es \in Seq(Ids)
      <3>1. ConstInputs \subseteq Ids /\ MaxArgs \in Nat
        BY <1>1, LenProperties, ModuleBuilderAssumption DEF ConstInputs, ConstTable, Ids, NoId
      <3> QED BY <3>1, ListsAreSequences
    <2>2. /\ c \in [tag : {"Aggregate"}, ty : Ids, elements : Seq(Ids)]
          /\ c.tag = "Aggregate" /\ c.ty = t /\ c.elements = es
      BY <1>2, <1>8, <2>1 DEF AggregateConst
    <2>3. c \in ConstData
      BY <2>2 DEF ConstData
    <2>4. AggregateOk(t, es) /\ EmitConst(c, types, t)
      BY <1>8 DEF ConstAggregate
    <2> HIDE DEF c
    <2>5. ConstantAllowed(types, c, t)
      BY <1>1, <1>3, <2>2, <2>4 DEF ConstantAllowed, ConstantFits, AggregateOk, Holds
    <2> QED BY <2>3, <2>4, <2>5, EmitConstKeeps
  <1> QED BY <1>4, <1>5, <1>6, <1>7, <1>8 DEF ConstCalls

\* Every call that emits an instruction keeps the invariant.
LEMMA InstCallsKeep ==
    ASSUME IInv, Building, InstCalls
    PROVE  IInv'
  <1>1. /\ TypeTable(types) /\ F \in FunctionShapes /\ TypesKnown(M, F)
        /\ Len(functions) \in Nat
    BY StateFacts
  <1>2. /\ TypeInputs \subseteq Ids /\ OperandTypes \subseteq Ids /\ Ids \subseteq Nat
    BY <1>1, InputsKnown DEF Ids
  <1>3. ValueInputs(F) \subseteq Nat /\ FunctionInputs \subseteq Nat /\ IndexInputs \subseteq Nat
        /\ MaxArgs \in Nat
    BY <1>1, FunctionParts, ModuleBuilderAssumption DEF ValueInputs, FunctionInputs, IndexInputs
  <1>4. ASSUME NEW t \in TypeInputs, Alloca(t) PROVE IInv'
    BY <1>2, <1>4, AllocaKeeps
  <1>5. ASSUME NEW v \in ValueInputs(F), Load(v) PROVE IInv'
    <2> DEFINE k == [op |-> "load", ty |-> PointeeOf(F, v), pointer |-> v]
    <2>1. Emit(k) /\ NoTableChanges
      BY <1>5 DEF Load
    <2>2. PointeeOf(F, v) \in Nat
      BY <1>1, TypeTableFacts DEF PointeeOf, Pointee, Holds, M, IsPointer, NoId, Ids
    <2>3. k \in [op : {"load"}, ty : Nat, pointer : Nat] /\ k.op = "load"
      BY <1>3, <2>2
    <2>4. k \in InstKinds
      BY <2>3 DEF InstKinds
    <2> HIDE DEF k
    <2> QED BY <2>1, <2>3, <2>4, EmitKeeps
  <1>6. ASSUME NEW v \in ValueInputs(F), NEW w \in ValueInputs(F), Store(v, w) PROVE IInv'
    <2> DEFINE k == [op |-> "store", pointer |-> v, value |-> w]
    <2>1. Emit(k) /\ NoTableChanges
      BY <1>6 DEF Store
    <2>2. k \in [op : {"store"}, pointer : Nat, value : Nat] /\ k.op = "store"
      BY <1>3
    <2>3. k \in InstKinds
      BY <2>2 DEF InstKinds
    <2> HIDE DEF k
    <2> QED BY <2>1, <2>2, <2>3, EmitKeeps
  <1>7. ASSUME NEW v \in ValueInputs(F), NEW w \in ValueInputs(F), PtrOffset(v, w) PROVE IInv'
    <2> DEFINE k == [op |-> "ptr_offset", pointer |-> v, offset |-> w]
    <2>1. Emit(k) /\ NoTableChanges
      BY <1>7 DEF PtrOffset
    <2>2. k \in [op : {"ptr_offset"}, pointer : Nat, offset : Nat] /\ k.op = "ptr_offset"
      BY <1>3
    <2>3. k \in InstKinds
      BY <2>2 DEF InstKinds
    <2> HIDE DEF k
    <2> QED BY <2>1, <2>2, <2>3, EmitKeeps
  <1>8. ASSUME NEW v \in ValueInputs(F), NEW w \in ValueInputs(F),
               NEW op \in EmitOps \cap BinaryOps, Binary(op, v, w)
        PROVE  IInv'
    <2> DEFINE k == [op |-> op, lhs |-> v, rhs |-> w]
    <2>1. Emit(k) /\ NoTableChanges
      BY <1>8 DEF Binary
    <2>2. k \in [op : BinaryOps, lhs : Nat, rhs : Nat] /\ k.op = op
      BY <1>3
    <2>3. k \in InstKinds
      BY <2>2 DEF InstKinds
    <2> HIDE DEF k
    <2>4. k.op \notin {"alloca", "const"}
      BY <2>2, OpsApart DEF OtherOps
    <2> QED BY <2>1, <2>3, <2>4, EmitKeeps
  <1>9. ASSUME NEW v \in ValueInputs(F), NEW w \in ValueInputs(F), NEW i \in IndexInputs, Insert(v, i, w)
        PROVE  IInv'
    <2> DEFINE k == [op |-> "insert", aggregate |-> v, index |-> i, value |-> w]
    <2>1. Emit(k) /\ NoTableChanges
      BY <1>9 DEF Insert
    <2>2. k \in [op : {"insert"}, aggregate : Nat, index : Nat, value : Nat] /\ k.op = "insert"
      BY <1>3
    <2>3. k \in InstKinds
      BY <2>2 DEF InstKinds
    <2> HIDE DEF k
    <2> QED BY <2>1, <2>2, <2>3, EmitKeeps
  <1>10. ASSUME NEW v \in ValueInputs(F), NEW t \in OperandTypes, NEW op \in EmitOps \cap ConvOps,
                Convert(op, t, v)
         PROVE  IInv'
    <2> DEFINE k == [op |-> op, to |-> t, value |-> v]
    <2>1. Emit(k) /\ NoTableChanges
      BY <1>10 DEF Convert
    <2>2. k \in [op : ConvOps, to : Nat, value : Nat] /\ k.op = op
      BY <1>2, <1>3
    <2>3. k \in InstKinds
      BY <2>2 DEF InstKinds
    <2> HIDE DEF k
    <2>4. k.op \notin {"alloca", "const"}
      BY <2>2, OpsApart DEF OtherOps
    <2> QED BY <2>1, <2>3, <2>4, EmitKeeps
  <1>11. ASSUME NEW v \in ValueInputs(F), NEW i \in IndexInputs, Extract(v, i) PROVE IInv'
    <2> DEFINE k == [op |-> "extract", aggregate |-> v, index |-> i]
    <2>1. Emit(k) /\ NoTableChanges
      BY <1>11 DEF Extract
    <2>2. k \in [op : {"extract"}, aggregate : Nat, index : Nat] /\ k.op = "extract"
      BY <1>3
    <2>3. k \in InstKinds
      BY <2>2 DEF InstKinds
    <2> HIDE DEF k
    <2> QED BY <2>1, <2>2, <2>3, EmitKeeps
  <1>12. ASSUME NEW args \in ListsUpTo(MaxArgs, ValueInputs(F)), NEW g \in FunctionInputs, Call(g, args)
         PROVE  IInv'
    <2> DEFINE k == [op |-> "call", callee |-> g, args |-> args]
    <2>1. Emit(k) /\ NoTableChanges
      BY <1>12 DEF Call
    <2>2. args \in Seq(Nat)
      BY <1>3, ListsAreSequences
    <2>3. k \in [op : {"call"}, callee : Nat, args : Seq(Nat)] /\ k.op = "call"
      BY <1>3, <2>2
    <2>4. k \in InstKinds
      BY <2>3 DEF InstKinds
    <2> HIDE DEF k
    <2> QED BY <2>1, <2>3, <2>4, EmitKeeps
  <1>13. ASSUME NEW args \in ListsUpTo(MaxArgs, ValueInputs(F)), NEW t \in TypeInputs, Construct(t, args)
         PROVE  IInv'
    <2> DEFINE k == [op |-> "construct", ty |-> t, args |-> args]
    <2>1. Emit(k) /\ NoTableChanges
      BY <1>13 DEF Construct
    <2>2. args \in Seq(Nat)
      BY <1>3, ListsAreSequences
    <2>3. k \in [op : {"construct"}, ty : Nat, args : Seq(Nat)] /\ k.op = "construct"
      BY <1>2, <2>2
    <2>4. k \in InstKinds
      BY <2>3 DEF InstKinds
    <2> HIDE DEF k
    <2> QED BY <2>1, <2>3, <2>4, EmitKeeps
  <1> QED BY <1>4, <1>5, <1>6, <1>7, <1>8, <1>9, <1>10, <1>11, <1>12, <1>13 DEF InstCalls

-----------------------------------------------------------------------------
(* Blocks                                                                  *)

\* A call that only changes which blocks there are or are terminated.
LEMMA TermsKeep ==
    ASSUME IInv, Building, NEW terms \in Seq(BOOLEAN),
           functions' = [functions EXCEPT ![cursor.fn].terms = terms],
           types' = types, symbols' = symbols, consts' = consts, raw' = raw
    PROVE  /\ ModuleFine(M, raw)' /\ DOMAIN functions' = DOMAIN functions
           /\ functions'[cursor.fn].terms = terms
  <1> DEFINE f == [F EXCEPT !.terms = terms]
             g == cursor.fn
  <1>1. PICK after : after = functions'
    OBVIOUS
  <1> DEFINE m2 == Module(types, symbols, consts, after)
  <1>2. /\ ModuleFine(M, raw) /\ g \in DOMAIN functions /\ F \in FunctionShapes /\ F = functions[g]
        /\ BodyFine(M, F) /\ TypeTable(types) /\ SignaturesKnown
    BY StateFacts DEF IInv, F
  <1>3. f \in FunctionShapes /\ SameSignature(F, f) /\ f.values = F.values /\ f.insts = F.insts
        /\ f.terms = terms
    BY <1>2 DEF FunctionShapes, SameSignature
  <1>4. after = [functions EXCEPT ![g] = f]
    BY <1>1, <1>2 DEF F
  <1> HIDE DEF f
  <1>5. /\ m2.types = M.types /\ m2.symbols = M.symbols /\ m2.consts = M.consts
        /\ m2.functions = [M.functions EXCEPT ![g] = f] /\ M.functions = functions /\ M.types = types
    BY <1>4, FieldsOfM, FieldsOfModule
  <1> HIDE DEF m2
  <1>6. Larger(M, m2) => BodyFine(m2, f)
    <2>1. \A h \in DOMAIN M.functions : M.functions[h].result \in DOMAIN M.types
      BY <1>2, <1>5 DEF SignaturesKnown
    <2>2. TypeTable(M.types) /\ f.params = F.params
      BY <1>2, <1>3, <1>5 DEF SameSignature
    <2> QED BY <1>2, <1>3, <2>1, <2>2, BodyStays
  <1>7. ModuleFine(m2, raw)
    <2>1. g \in DOMAIN M.functions /\ SameSignature(M.functions[g], f)
      BY <1>2, <1>3, <1>5
    <2> QED BY <1>2, <1>3, <1>5, <1>6, <2>1, BodyGrows
  <1>8. M' = m2 /\ raw' = raw
    BY <1>1 DEF M, m2, Module
  <1>9. DOMAIN functions' = DOMAIN functions /\ functions'[g].terms = terms
    BY <1>1, <1>2, <1>3, <1>4
  <1> QED BY <1>7, <1>8, <1>9

\* Appending, selecting and closing blocks keeps the invariant.
LEMMA BlockCallsKeep ==
    ASSUME IInv, BlockCalls
    PROVE  IInv'
  <1>1. CursorFine /\ cursor \in [fn : Nat, block : Nat]
    BY DEF IInv, CursorFine
  <1>2. ASSUME AppendBlock PROVE IInv'
    <2> DEFINE terms == Append(F.terms, FALSE)
    <2>1. Building /\ F \in FunctionShapes /\ cursor.fn \in DOMAIN functions
      BY <1>2, StateFacts DEF AppendBlock
    <2>2. F.terms \in Seq(BOOLEAN) /\ Len(F.terms) \in Nat
      BY <2>1, LenProperties DEF FunctionShapes
    <2>3. terms \in Seq(BOOLEAN) /\ Len(terms) = Len(F.terms) + 1
      BY <2>2, AppendProperties
    <2>4. DOMAIN terms = 1..Len(F.terms) + 1
      BY <2>3, LenProperties
    <2>5. functions' = [functions EXCEPT ![cursor.fn].terms = terms]
      BY <1>2 DEF AppendBlock, F
    <2>6. types' = types /\ symbols' = symbols /\ consts' = consts /\ raw' = raw
          /\ cursor' = [cursor EXCEPT !.block = Len(F.terms) + 1]
      BY <1>2 DEF AppendBlock
    <2> HIDE DEF terms
    <2>7. /\ ModuleFine(M, raw)' /\ DOMAIN functions' = DOMAIN functions
          /\ functions'[cursor.fn].terms = terms
      BY <2>1, <2>3, <2>5, <2>6, TermsKeep
    <2>8. CursorFine'
      <3>1. cursor'.fn = cursor.fn /\ cursor'.block = Len(F.terms) + 1
            /\ cursor' \in [fn : Nat, block : Nat]
        BY <1>1, <2>2, <2>6
      <3>2. F'.terms = terms
        BY <2>7, <3>1 DEF F
      <3>3. Building'
        BY <2>1, <3>1 DEF Building
      <3> QED BY <2>1, <2>2, <2>4, <2>7, <3>1, <3>2, <3>3 DEF CursorFine
    <2> QED BY <2>7, <2>8 DEF IInv
  <1>3. ASSUME Unreachable PROVE IInv'
    <2> DEFINE terms == [F.terms EXCEPT ![cursor.block] = TRUE]
    <2>1. Building /\ F \in FunctionShapes /\ cursor.fn \in DOMAIN functions /\ CursorOpen
      BY <1>3, StateFacts DEF Unreachable
    <2>2. F.terms \in Seq(BOOLEAN) /\ DOMAIN F.terms = 1..Len(F.terms)
      BY <2>1, LenProperties DEF FunctionShapes
    <2>3. cursor.block \in DOMAIN F.terms
      BY <1>1, <2>1 DEF CursorFine, CursorOpen
    <2>4. terms \in Seq(BOOLEAN) /\ DOMAIN terms = DOMAIN F.terms
      BY <2>2, <2>3, ExceptSeq
    <2>5. functions' = [functions EXCEPT ![cursor.fn].terms = terms]
      BY <1>3 DEF Unreachable, F
    <2>6. types' = types /\ symbols' = symbols /\ consts' = consts /\ cursor' = cursor
          /\ raw' = raw
      BY <1>3 DEF Unreachable
    <2> HIDE DEF terms
    <2>7. /\ ModuleFine(M, raw)' /\ DOMAIN functions' = DOMAIN functions
          /\ functions'[cursor.fn].terms = terms
      BY <2>1, <2>4, <2>5, <2>6, TermsKeep
    <2>8. CursorFine'
      <3>1. F'.terms = terms /\ Building'
        BY <2>1, <2>6, <2>7 DEF F, Building
      <3> QED BY <1>1, <2>1, <2>4, <2>6, <2>7, <3>1 DEF CursorFine
    <2> QED BY <2>7, <2>8 DEF IInv
  <1>4. ASSUME Building, NEW b \in BlockInputs, SwitchTo(b) PROVE IInv'
    <2>1. /\ types' = types /\ symbols' = symbols /\ consts' = consts /\ functions' = functions
          /\ cursor' = [cursor EXCEPT !.block = b] /\ b \in DOMAIN F.terms /\ raw' = raw
      BY <1>4 DEF SwitchTo
    <2>2. F \in FunctionShapes /\ cursor.fn \in DOMAIN functions
      BY <1>4, StateFacts
    <2>3. b \in Nat
      BY <2>1, <2>2, LenProperties DEF FunctionShapes
    <2>4. cursor'.fn = cursor.fn /\ cursor'.block = b /\ cursor' \in [fn : Nat, block : Nat]
      BY <1>1, <2>1, <2>3
    <2>5. M' = M /\ raw' = raw /\ F' = F /\ Building'
      BY <1>4, <2>1, <2>4 DEF M, F, Building
    <2>6. CursorFine'
      BY <1>1, <2>1, <2>2, <2>4, <2>5 DEF CursorFine
    <2> QED BY <2>5, <2>6 DEF IInv
  <1> QED BY <1>2, <1>3, <1>4 DEF BlockCalls

-----------------------------------------------------------------------------
(* The calls on the module                                                 *)

\* A call on the module ends the FunctionBuilder.
LEMMA CursorGone ==
    ASSUME cursor' = NoCursor
    PROVE  CursorFine'
  <1>1. cursor' \in [fn : Nat, block : Nat] /\ cursor'.fn = NoId /\ cursor'.block = NoId
    BY DEF NoCursor, NoId
  <1> QED BY <1>1 DEF CursorFine

\* Interning a type keeps the invariant.
LEMMA InternTypeKeeps ==
    ASSUME IInv, NEW data \in TypeData, InternType(data)
    PROVE  IInv'
  <1>1. PICK table : table = types'
    OBVIOUS
  <1> DEFINE m2 == Module(table, symbols, consts, functions)
  <1>2. /\ table = Intern(types, data) /\ symbols' = symbols /\ consts' = consts
        /\ functions' = functions /\ cursor' = NoCursor /\ raw' = raw
    BY <1>1 DEF InternType
  <1>3. ModuleFine(M, raw) /\ TypeTable(types) /\ ConstTable(consts, raw) /\ symbols \in Seq(Idents)
    BY StateFacts DEF IInv
  <1>4. TypeTable(table) /\ Extended(types, table)
    BY <1>2, <1>3, InternsType
  <1>5. /\ m2.types = table /\ m2.symbols = symbols /\ m2.consts = consts /\ m2.functions = functions
        /\ M.types = types /\ M.symbols = symbols /\ M.consts = consts /\ M.functions = functions
    BY FieldsOfModule, FieldsOfM
  <1> HIDE DEF m2
  <1>6. Extended(symbols, symbols) /\ Extended(consts, consts)
    BY DEF Extended
  <1>7. ModuleFine(m2, raw)
    BY <1>3, <1>4, <1>5, <1>6, TablesGrow
  <1>8. M' = m2
    BY <1>1, <1>2 DEF M, m2, Module
  <1> QED BY <1>2, <1>7, <1>8, CursorGone DEF IInv

\* Interning a name keeps the module fine and gives the name an id.
LEMMA SymbolsGrow ==
    ASSUME IInv, NEW n \in Idents
    PROVE  LET table == Intern(symbols, n)
               m2 == Module(types, table, consts, functions)
           IN  /\ ModuleFine(m2, raw) /\ Extended(symbols, table)
               /\ IdOf(symbols, n) \in DOMAIN table /\ table[IdOf(symbols, n)] = n
               /\ IdOf(symbols, n) \in Nat
  <1> DEFINE table == Intern(symbols, n)
             m2 == Module(types, table, consts, functions)
  <1>1. ModuleFine(M, raw) /\ TypeTable(types) /\ ConstTable(consts, raw) /\ symbols \in Seq(Idents)
    BY StateFacts DEF IInv
  <1>2. /\ table \in Seq(Idents) /\ Extended(symbols, table) /\ DOMAIN table = 1..Len(table)
        /\ IdOf(symbols, n) \in DOMAIN table /\ table[IdOf(symbols, n)] = n
    BY <1>1, InternFacts
  <1>3. IdOf(symbols, n) \in Nat
    BY <1>2
  <1> HIDE DEF table
  <1>4. /\ m2.types = types /\ m2.symbols = table /\ m2.consts = consts /\ m2.functions = functions
        /\ M.types = types /\ M.symbols = symbols /\ M.consts = consts /\ M.functions = functions
    BY FieldsOfModule, FieldsOfM
  <1> HIDE DEF m2
  <1>5. Extended(types, types) /\ Extended(consts, consts)
    BY DEF Extended
  <1>6. ModuleFine(m2, raw)
    BY <1>1, <1>2, <1>4, <1>5, TablesGrow
  <1> QED BY <1>2, <1>3, <1>6 DEF m2, table

\* Declaring a function keeps the invariant.
LEMMA DeclareKeeps ==
    ASSUME IInv, NEW n, NEW linkage \in LinkageInputs, NEW params \in Seq(Ids),
           NEW variadic \in BOOLEAN, NEW result \in Ids,
           DeclareFunction(n, linkage, params, variadic, result)
    PROVE  IInv'
  <1> DEFINE table == Intern(symbols, n)
             id == IdOf(symbols, n)
             f == [symbol |-> id, linkage |-> linkage, params |-> params,
                   variadic |-> variadic, result |-> result,
                   values |-> params, insts |-> <<>>, terms |-> <<>>]
             m1 == Module(types, table, consts, functions)
             m2 == Module(types, table, consts, Append(functions, f))
  <1>1. /\ n \in Idents /\ n \notin FunctionNames
        /\ \A i \in DOMAIN params : Holds(types, params[i], IsFirstClass)
        /\ Holds(types, result, IsFirstClass) \/ Holds(types, result, IsVoid)
        /\ symbols' = table /\ functions' = Append(functions, f)
        /\ types' = types /\ consts' = consts /\ cursor' = NoCursor /\ raw' = raw
    BY DEF DeclareFunction, SignatureOk
  <1>2. /\ ModuleFine(m1, raw) /\ Extended(symbols, table) /\ id \in DOMAIN table /\ table[id] = n
        /\ id \in Nat
    BY <1>1, SymbolsGrow
  <1>3. /\ f.symbol = id /\ f.params = params /\ f.result = result /\ f.values = params
        /\ f.insts = <<>>
    OBVIOUS
  <1>4. f \in FunctionShapes
    <2>1. linkage \in Linkages /\ <<>> \in Seq([kind : InstKinds, result : Nat])
          /\ <<>> \in Seq(BOOLEAN)
      BY ModuleBuilderAssumption
    <2> HIDE DEF id
    <2> QED BY <1>2, <2>1 DEF FunctionShapes
  <1> HIDE DEF f, table, id
  <1>5. /\ m1.types = types /\ m1.symbols = table /\ m1.consts = consts /\ m1.functions = functions
        /\ m2.types = types /\ m2.symbols = table /\ m2.consts = consts
        /\ m2.functions = Append(functions, f)
    <2>1. /\ m1.types = types /\ m1.symbols = table /\ m1.consts = consts
          /\ m1.functions = functions
      BY FieldsOfModule
    <2>2. PICK fs : fs = Append(functions, f)
      OBVIOUS
    <2>3. m2 = Module(types, table, consts, fs)
      BY <2>2
    <2> HIDE DEF m1, m2
    <2>4. m2.types = types /\ m2.symbols = table /\ m2.consts = consts /\ m2.functions = fs
      BY <2>3, FieldsOfModule
    <2> QED BY <2>1, <2>2, <2>4
  <1> HIDE DEF m1, m2
  <1>6. SignatureFine(m1, f)
    <2>1. result \in DOMAIN types
      BY <1>1 DEF Holds
    <2> QED BY <1>1, <1>2, <1>3, <1>5, <2>1 DEF SignatureFine
  <1>7. \A g \in DOMAIN m1.functions : m1.symbols[m1.functions[g].symbol] # m1.symbols[f.symbol]
    <2>1. \A g \in DOMAIN functions : functions[g].symbol \in DOMAIN symbols
      BY StateFacts, FieldsOfM DEF SignatureFine
    <2>2. \A g \in DOMAIN functions : symbols[functions[g].symbol] # n
      BY <1>1 DEF FunctionNames
    <2> QED BY <1>2, <1>3, <1>5, <2>1, <2>2 DEF Extended
  <1>8. ModuleFine(m2, raw)
    BY <1>2, <1>3, <1>4, <1>5, <1>6, <1>7, FunctionDeclared
  <1>9. M' = m2
    BY <1>1 DEF M, m2, Module
  <1> QED BY <1>1, <1>8, <1>9, CursorGone DEF IInv

\* Interning a constant by hand keeps the invariant, whatever the constant is.
LEMMA InternConstantKeeps ==
    ASSUME IInv, NEW data \in ConstData, InternConstantData(data)
    PROVE  IInv'
  <1>1. PICK table : table = consts'
    OBVIOUS
  <1> DEFINE m2 == Module(types, symbols, table, functions)
             byHand == raw \cup (DOMAIN table \ DOMAIN consts)
  <1>2. /\ table = Intern(consts, data) /\ raw' = byHand
        /\ types' = types /\ symbols' = symbols /\ functions' = functions /\ cursor' = NoCursor
    BY <1>1 DEF InternConstantData
  <1>3. ModuleFine(M, raw) /\ TypeTable(types) /\ ConstTable(consts, raw) /\ symbols \in Seq(Idents)
    BY StateFacts DEF IInv
  <1>4. table \in Seq(ConstData) /\ Extended(consts, table)
    BY <1>2, <1>3, InternFacts DEF ConstTable
  <1>5. ConstTable(table, byHand)
    <2>1. byHand \subseteq DOMAIN table
      BY <1>3, <1>4 DEF ConstTable, Extended
    <2>2. \A c \in DOMAIN table \ byHand : c \in DOMAIN consts \ raw /\ table[c] = consts[c]
      BY <1>4 DEF Extended
    <2> QED BY <1>3, <1>4, <2>1, <2>2 DEF ConstTable
  <1>6. /\ m2.types = types /\ m2.symbols = symbols /\ m2.consts = table /\ m2.functions = functions
        /\ M.types = types /\ M.symbols = symbols /\ M.consts = consts /\ M.functions = functions
    BY FieldsOfModule, FieldsOfM
  <1>7. \A c \in DOMAIN table \ byHand : c \in DOMAIN consts
    OBVIOUS
  <1>8. raw \subseteq byHand
    OBVIOUS
  <1> HIDE DEF m2, byHand
  <1>9. Extended(symbols, symbols) /\ Extended(types, types)
    BY DEF Extended
  <1>10. ModuleFine(m2, byHand)
    BY <1>3, <1>4, <1>5, <1>6, <1>7, <1>8, <1>9, TablesGrow
  <1>11. M' = m2
    BY <1>1, <1>2 DEF M, m2, Module
  <1> QED BY <1>2, <1>10, <1>11, CursorGone DEF IInv

\* Every call on the module keeps the invariant.
LEMMA ModuleCallsKeep ==
    ASSUME IInv, ModuleCalls
    PROVE  IInv'
  <1>1. TypeInputs \subseteq Ids
    BY StateFacts, InputsKnown
  <1>2. ASSUME NEW t \in TypeInputs, PtrType(t) PROVE IInv'
    <2>1. PointerData(t, 0) \in [tag : {"Pointer"}, pointee : Ids, space : Nat]
      BY <1>1 DEF PointerData
    <2>2. PointerData(t, 0) \in TypeData
      BY <2>1 DEF TypeData
    <2> QED BY <1>2, <2>2, InternTypeKeeps DEF PtrType
  <1>3. ASSUME NEW t \in TypeInputs, NEW n \in Lengths, ArrayType(t, n) PROVE IInv'
    <2>1. ArrayData(t, n) \in [tag : {"Array"}, element : Ids, length : Nat]
      BY <1>1, ModuleBuilderAssumption DEF ArrayData
    <2>2. ArrayData(t, n) \in TypeData
      BY <2>1 DEF TypeData
    <2> QED BY <1>3, <2>2, InternTypeKeeps DEF ArrayType
  <1>4. ASSUME NEW fields \in ListsUpTo(MaxFields, TypeInputs), StructType(fields) PROVE IInv'
    <2>1. fields \in Seq(Ids)
      BY <1>1, ListsAreSequences, ModuleBuilderAssumption
    <2>2. StructData(fields) \in [tag : {"Struct"}, fields : Seq(Ids)]
      BY <2>1 DEF StructData
    <2>3. StructData(fields) \in TypeData
      BY <2>2 DEF TypeData
    <2> QED BY <1>4, <2>3, InternTypeKeeps DEF StructType
  <1>5. ASSUME NEW t \in ScalarInputs, FnType(<<t>>, TRUE, t) PROVE IInv'
    <2> DEFINE d == FunctionData(<<t>>, TRUE, t)
    <2>1. t \in Ids /\ <<t>> \in Seq(Ids)
      BY <1>1 DEF TypeInputs
    <2>2. d \in [tag : {"Function"}, params : Seq(Ids), variadic : BOOLEAN, result : Ids]
      BY <2>1 DEF FunctionData
    <2>3. InternType(d)
      BY <1>5 DEF FnType
    <2> HIDE DEF d
    <2>4. d \in TypeData
      BY <2>2 DEF TypeData
    <2> QED BY <2>3, <2>4, InternTypeKeeps
  <1>6. ASSUME NEW data \in TypeDataInputs, InternType(data) PROVE IInv'
    BY <1>6, InternTypeKeeps, ModuleBuilderAssumption
  <1>7. ASSUME NEW n \in Idents, InternSymbol(n) PROVE IInv'
    <2>1. /\ symbols' = Intern(symbols, n) /\ types' = types /\ consts' = consts
          /\ functions' = functions /\ cursor' = NoCursor /\ raw' = raw
      BY <1>7 DEF InternSymbol
    <2>2. M' = Module(types, Intern(symbols, n), consts, functions)
      BY <2>1 DEF M, Module
    <2> QED BY <2>1, <2>2, SymbolsGrow, CursorGone DEF IInv
  <1>8. ASSUME NEW data \in ConstDataInputs, InternConstantData(data) PROVE IInv'
    BY <1>8, InternConstantKeeps, ModuleBuilderAssumption
  <1>9. ASSUME NEW n, NEW l \in LinkageInputs, NEW v \in BOOLEAN, NEW r \in TypeInputs,
               NEW params \in ListsUpTo(MaxParams, TypeInputs), DeclareFunction(n, l, params, v, r)
        PROVE  IInv'
    <2>1. params \in Seq(Ids) /\ r \in Ids
      BY <1>1, ListsAreSequences, ModuleBuilderAssumption
    <2> QED BY <1>9, <2>1, DeclareKeeps
  <1>10. ASSUME NEW g \in FunctionInputs, FunctionBuilder(g) PROVE IInv'
    <2>1. /\ types' = types /\ symbols' = symbols /\ consts' = consts /\ functions' = functions
          /\ g \in DOMAIN functions /\ cursor' = [fn |-> g, block |-> NoId] /\ raw' = raw
      BY <1>10 DEF FunctionBuilder
    <2>2. g \in Nat
      BY <2>1, StateFacts
    <2>3. CursorFine'
      BY <2>1, <2>2 DEF CursorFine, NoId
    <2>4. M' = M
      BY <2>1 DEF M
    <2> QED BY <2>1, <2>3, <2>4 DEF IInv
  <1> QED BY <1>2, <1>3, <1>4, <1>5, <1>6, <1>7, <1>8, <1>9, <1>10 DEF ModuleCalls

-----------------------------------------------------------------------------
(* The invariant is inductive                                              *)

\* An empty module is fine.
LEMMA InitInv == Init => IInv
  <1> SUFFICES ASSUME Init PROVE IInv
    OBVIOUS
  <1>1. /\ types = Scalars /\ symbols = <<>> /\ consts = <<>> /\ functions = <<>> /\ cursor = NoCursor
        /\ raw = {}
    BY DEF Init
  <1>2. TypeTable(types)
    BY <1>1, ScalarFacts DEF TypeTable, Extended
  <1>3. /\ symbols \in Seq(Idents) /\ functions \in Seq(FunctionShapes)
        /\ DOMAIN functions = {} /\ consts \in Seq(ConstData) /\ DOMAIN consts = {}
    BY <1>1
  <1>4. ConstTable(consts, raw)
    BY <1>1, <1>3 DEF ConstTable
  <1>5. ModuleFine(M, raw)
    BY <1>2, <1>3, <1>4, FieldsOfM DEF ModuleFine, NamesDiffer
  <1>6. CursorFine
    <2>1. cursor \in [fn : Nat, block : Nat] /\ cursor.fn = NoId /\ cursor.block = NoId
      BY <1>1 DEF NoCursor, NoId
    <2> QED BY <2>1 DEF CursorFine
  <1> QED BY <1>5, <1>6 DEF IInv

\* Every step keeps the invariant.
LEMMA NextInv == IInv /\ [Next]_vars => IInv'
  <1> SUFFICES ASSUME IInv, [Next]_vars PROVE IInv'
    OBVIOUS
  <1>1. CASE ModuleCalls
    BY <1>1, ModuleCallsKeep
  <1>2. CASE BlockCalls
    BY <1>2, BlockCallsKeep
  <1>3. CASE Building /\ ConstCalls
    BY <1>3, ConstCallsKeep
  <1>4. CASE Building /\ InstCalls
    BY <1>4, InstCallsKeep
  <1>5. CASE UNCHANGED vars
    <2>1. /\ types' = types /\ symbols' = symbols /\ consts' = consts
          /\ functions' = functions /\ cursor' = cursor /\ raw' = raw
      BY <1>5 DEF vars
    <2>2. M' = M /\ CursorFine'
      BY <2>1, CursorKeeps DEF M, IInv, F
    <2> QED BY <2>1, <2>2 DEF IInv
  <1> QED BY <1>1, <1>2, <1>3, <1>4, <1>5 DEF Next

\* It holds in every state.
LEMMA Invariance == Spec => []IInv
  BY InitInv, NextInv, PTL DEF Spec

-----------------------------------------------------------------------------
(* What the calls leave type checks                                        *)

\* TypeOK: names, functions and cursor are in range whatever the tables were given, and
\* only by hand can an unmasked integer or an aggregate of later constants get in.
THEOREM ModuleBuilderTypes == Spec => []TypeOK
  <1>1. ASSUME IInv PROVE TypeOK
    <2>1. /\ TypeTable(types) /\ ConstTable(consts, raw) /\ symbols \in Seq(Idents) /\ CursorFine
          /\ \A g \in DOMAIN functions : /\ functions[g] \in FunctionShapes
                                         /\ SignatureFine(M, functions[g])
                                         /\ BodyFine(M, functions[g])
      BY <1>1, StateFacts DEF IInv
    <2>2. ASSUME NEW g \in DOMAIN functions
          PROVE  /\ functions[g].symbol \in DOMAIN symbols
                 /\ functions[g].linkage \in Linkages
                 /\ functions[g].values \in Seq(Ids)
                 /\ functions[g].terms \in Seq(BOOLEAN)
      <3> DEFINE f == functions[g]
      <3>1. f \in FunctionShapes /\ SignatureFine(M, f) /\ BodyFine(M, f)
        BY <2>1
      <3> HIDE DEF f
      <3>2. f.symbol \in DOMAIN symbols
        BY <3>1, FieldsOfM DEF SignatureFine
      <3>3. f.linkage \in Linkages /\ f.values \in Seq(Ids) /\ f.terms \in Seq(BOOLEAN)
        BY <3>1 DEF FunctionShapes
      <3> QED BY <3>2, <3>3 DEF f
    <2>3. types \in Seq(TypeData) /\ consts \in Seq(ConstData) /\ raw \subseteq DOMAIN consts
      BY <2>1 DEF TypeTable, ConstTable
    <2>4. \A c \in DOMAIN consts \ raw :
            /\ consts[c].tag = "Int" => consts[c].bits \in 0..2 ^ consts[c].width - 1
            /\ consts[c].tag = "Aggregate" => ValuesOf(consts[c].elements) \subseteq 1..c - 1
      BY <2>1 DEF ConstTable
    <2> QED BY <2>1, <2>2, <2>3, <2>4 DEF TypeOK, CursorFine
  <1> QED BY <1>1, Invariance, PTL

\* ArenaMatchesBody: whatever calls failed before, the arena of a function is
\* its parameters and then the results of its instructions, in order.
THEOREM ArenasMatchBodies == Spec => []ArenaMatchesBody
  <1>1. ASSUME IInv PROVE ArenaMatchesBody
    <2>1. \A g \in DOMAIN functions : ArenaOf(functions[g])
      BY <1>1, StateFacts DEF BodyFine
    <2> QED BY <2>1 DEF ArenaMatchesBody, ArenaOf
  <1> QED BY <1>1, Invariance, PTL

\* Of a signature the builder accepted the verifier can only say that the body
\* does not go with it.
LEMMA SignatureChecks ==
    ASSUME NEW m, NEW f, SignatureFine(m, f)
    PROVE  CheckSignature(m, f) \subseteq {"InvalidDeclaration", "VariadicDefinition"}
  BY DEF SignatureFine, CheckSignature, If

\* BuiltModulesTypeCheck: after any sequence of calls, failed ones and types without a
\* meaning included, the verifier reports no typing error of the module but the two about
\* bodies and those of the constants interned by hand.
THEOREM BuiltModulesAreTyped == Spec => []BuiltModulesTypeCheck
  <1>1. ASSUME IInv PROVE BuiltModulesTypeCheck
    <2> DEFINE Kinds == {"InvalidDeclaration", "VariadicDefinition"}
    <2>1. ModuleFine(M, raw)
      BY <1>1 DEF IInv
    <2>2. CheckModule(M, DOMAIN consts \ raw) = {}
      <3>1. \A c \in DOMAIN consts \ raw : CheckConstant(M, c) = {}
        BY <2>1, FieldsOfM DEF ModuleFine
      <3>2. DOMAIN M.functions \subseteq Nat
        BY <1>1, StateFacts, FieldsOfM
      <3>3. ~ \E g, h \in DOMAIN M.functions :
                  g < h /\ M.symbols[M.functions[g].symbol] = M.symbols[M.functions[h].symbol]
        BY <2>1, <3>2 DEF ModuleFine, NamesDiffer
      <3> QED BY <3>1, <3>3 DEF CheckModule, If
    <2>3. ASSUME NEW g \in DOMAIN M.functions
          PROVE  /\ CheckSignature(M, M.functions[g]) \subseteq Kinds
                 /\ \A j \in DOMAIN M.functions[g].insts :
                       CheckInstruction(M, M.functions[g], M.functions[g].insts[j]) = {}
      <3> DEFINE f == M.functions[g]
      <3>1. /\ f \in FunctionShapes /\ SignatureFine(M, f) /\ BodyFine(M, f)
            /\ TypeTable(M.types)
        BY <1>1, StateFacts, FieldsOfM
      <3> HIDE DEF f
      <3>2. CheckSignature(M, f) \subseteq Kinds
        BY <3>1, SignatureChecks
      <3>3. TypesKnown(M, f) /\ ~(Len(f.values) < Len(f.params))
        BY <3>1, BodyKnown, ArenaHoldsParams DEF BodyFine
      <3>4. \A j \in DOMAIN f.insts : f.insts[j].kind.op \in AllOps /\ InstTyped(M, f, f.insts[j])
        BY <3>1, FunctionParts, OpsOfKinds DEF BodyFine
      <3>5. \A j \in DOMAIN f.insts : CheckInstruction(M, f, f.insts[j]) = {}
        BY <3>3, <3>4, InstructionChecks
      <3> QED BY <3>2, <3>5 DEF f
    <2> HIDE DEF Kinds
    <2>4. TypingErrors(M, DOMAIN consts \ raw) \subseteq Kinds
      <3> DEFINE Insts(g) == UNION {CheckInstruction(M, M.functions[g], M.functions[g].insts[j]) :
                                    j \in DOMAIN M.functions[g].insts}
                 All == UNION {CheckSignature(M, M.functions[g]) \cup Insts(g) :
                               g \in DOMAIN M.functions}
      <3>1. \A g \in DOMAIN M.functions : Insts(g) = {}
        BY <2>3
      <3>2. TypingErrors(M, DOMAIN consts \ raw) = CheckModule(M, DOMAIN consts \ raw) \cup All
        BY DEF TypingErrors
      <3> HIDE DEF Insts
      <3>3. All \subseteq Kinds
        BY <2>3, <3>1
      <3> HIDE DEF All
      <3> QED BY <2>2, <3>2, <3>3
    <2> QED BY <2>4 DEF BuiltModulesTypeCheck, Kinds
  <1> QED BY <1>1, Invariance, PTL

-----------------------------------------------------------------------------
(* Type ids and structures                                                 *)

\* Types that look alike are one type, when the types the first refers to are related
\* to nothing but themselves.
LEMMA AlikeIsSame ==
    ASSUME TypeTable(types), NEW R, NEW t \in DOMAIN types, NEW u \in DOMAIN types, Alike(R, t, u),
           \A a \in References(types[t]) : \A b : <<a, b>> \in R => a = b
    PROVE  t = u
  <1> DEFINE d == types[t]
             e == types[u]
             same(a, b) == a = b \/ <<a, b>> \in R
             sameList(p, q) == Len(p) = Len(q) /\ \A i \in DOMAIN p : same(p[i], q[i])
  <1>1. d \in TypeData /\ e \in TypeData
    BY TypeTableFacts
  <1>2. d = e => t = u
    BY DEF TypeTable, NoDuplicates
  <1>3. \A a \in References(d) : \A b : same(a, b) => a = b
    OBVIOUS
  <1>4. ASSUME NEW p \in Seq(Ids), NEW q \in Seq(Ids), sameList(p, q),
               \A i \in DOMAIN p : p[i] \in References(d)
        PROVE  p = q
    <2>1. DOMAIN p = 1..Len(p) /\ \A i \in DOMAIN p : p[i] = q[i]
      BY <1>3, <1>4, LenProperties
    <2> QED BY <1>4, <2>1, SeqEqual
  <1>5. CASE d.tag = "Pointer"
    <2>1. e.tag = "Pointer" /\ e.space = d.space /\ same(d.pointee, e.pointee)
      BY <1>5 DEF Alike
    <2>2. d.pointee = e.pointee
      BY <1>1, <1>3, <1>5, <2>1, TypeDataFacts
    <2>3. d = e
      BY <1>1, <1>5, <2>1, <2>2 DEF TypeData, VoidData
    <2> QED BY <1>2, <2>3
  <1>6. CASE d.tag = "Array"
    <2>1. e.tag = "Array" /\ e.length = d.length /\ same(d.element, e.element)
      BY <1>6 DEF Alike
    <2>2. d.element = e.element
      BY <1>1, <1>3, <1>6, <2>1, TypeDataFacts
    <2>3. d = e
      BY <1>1, <1>6, <2>1, <2>2 DEF TypeData, VoidData
    <2> QED BY <1>2, <2>3
  <1>7. CASE d.tag = "Struct"
    <2>1. e.tag = "Struct" /\ sameList(d.fields, e.fields)
      BY <1>7 DEF Alike
    <2>2. d.fields = e.fields
      <3>1. /\ d.fields \in Seq(Ids) /\ e.fields \in Seq(Ids)
            /\ \A i \in DOMAIN d.fields : d.fields[i] \in References(d)
        BY <1>1, <1>7, <2>1, TypeDataFacts
      <3> HIDE DEF d, e, sameList
      <3> QED BY <1>4, <2>1, <3>1
    <2>3. d = e
      BY <1>1, <1>7, <2>1, <2>2 DEF TypeData, VoidData
    <2> QED BY <1>2, <2>3
  <1>8. CASE d.tag = "Function"
    <2>1. /\ e.tag = "Function" /\ e.variadic = d.variadic
          /\ sameList(d.params, e.params) /\ same(d.result, e.result)
      BY <1>8 DEF Alike
    <2>2. d.params = e.params
      <3>1. /\ d.params \in Seq(Ids) /\ e.params \in Seq(Ids)
            /\ \A i \in DOMAIN d.params : d.params[i] \in References(d)
        BY <1>1, <1>8, <2>1, TypeDataFacts
      <3> HIDE DEF d, e, sameList
      <3> QED BY <1>4, <2>1, <3>1
    <2>3. d.result = e.result
      BY <1>1, <1>3, <1>8, <2>1, TypeDataFacts
    <2>4. d = e
      BY <1>1, <1>8, <2>1, <2>2, <2>3 DEF TypeData, VoidData
    <2> QED BY <1>2, <2>4
  <1>9. CASE d.tag \notin {"Pointer", "Array", "Struct", "Function"}
    BY <1>2, <1>9 DEF Alike
  <1> QED BY <1>5, <1>6, <1>7, <1>8, <1>9

\* SameShapeSameId: two type ids whose references end never stand for one structure.
\* Under a relation of types that look alike, those related to nothing but themselves
\* hold a type as soon as they hold those it refers to.
THEOREM ShapesDiffer == Spec => []SameShapeSameId
  <1>1. ASSUME IInv PROVE SameShapeSameId
    <2> SUFFICES ASSUME NEW R \in SUBSET (Composites \X Composites),
                        \A p \in R : Grounded(p[1]) /\ Alike(R, p[1], p[2]),
                        NEW p \in R
                 PROVE  p[1] = p[2]
      BY DEF SameShapeSameId
    <2> DEFINE Single == {t \in Composites : \A u : <<t, u>> \in R => t = u}
    <2>1. TypeTable(types) /\ Composites \subseteq DOMAIN types
      <3>1. TypeTable(types)
        BY <1>1, StateFacts
      <3> QED BY <3>1, TypeTableFacts, ScalarFacts DEF Composites
    <2>2. \A a, b : <<a, b>> \in R => a \in Composites /\ b \in Composites
      OBVIOUS
    <2>3. ASSUME NEW t \in Composites, References(types[t]) \cap Composites \subseteq Single,
                 NEW u, <<t, u>> \in R
          PROVE  t = u
      <3>1. Alike(R, t, u) /\ u \in Composites
        BY <2>2, <2>3
      <3>2. \A a \in References(types[t]) : \A b : <<a, b>> \in R => a = b
        BY <2>2, <2>3
      <3> QED BY <2>1, <3>1, <3>2, AlikeIsSame
    <2>4. \A t \in Composites : References(types[t]) \cap Composites \subseteq Single => t \in Single
      BY <2>3
    <2>5. Single \in SUBSET Composites /\ p = <<p[1], p[2]>>
      OBVIOUS
    <2>6. p[1] \in Single
      BY <2>4, <2>5 DEF Grounded
    <2> QED BY <2>5, <2>6
  <1> QED BY <1>1, Invariance, PTL

-----------------------------------------------------------------------------
(* Builder and verifier on one instruction                                 *)

\* f with a value of type r for a result.
Grown(f, r) == [f EXCEPT !.values = Append(@, r)]

\* The parts of a function with one more value.
LEMMA GrownParts ==
    ASSUME NEW f \in FunctionShapes, NEW r \in Nat
    PROVE  /\ Grown(f, r).params = f.params /\ Grown(f, r).values = Append(f.values, r)
           /\ DOMAIN Grown(f, r).values = 1..Len(f.values) + 1
           /\ Len(Grown(f, r).values) = Len(f.values) + 1
           /\ Extended(f.values, Grown(f, r).values)
           /\ Grown(f, r).values[Len(f.values) + 1] = r
  <1>1. Grown(f, r).params = f.params /\ Grown(f, r).values = Append(f.values, r)
    BY DEF Grown, FunctionShapes
  <1>2. f.values \in Seq(Nat) /\ Len(f.values) \in Nat /\ DOMAIN f.values = 1..Len(f.values)
    BY FunctionParts, SeqDef DEF Ids
  <1>3. PICK values : values = Append(f.values, r)
    OBVIOUS
  <1>4. /\ values \in Seq(Nat) /\ Len(values) = Len(f.values) + 1
        /\ \A i \in 1..Len(f.values) : values[i] = f.values[i]
        /\ values[Len(f.values) + 1] = r
    BY <1>2, <1>3, AppendProperties
  <1>5. DOMAIN values = 1..Len(f.values) + 1
    BY <1>4, LenProperties
  <1>6. Extended(f.values, values)
    BY <1>2, <1>4, <1>5 DEF Extended
  <1> QED BY <1>1, <1>3, <1>4, <1>5, <1>6

\* The verifier has nothing to say about k with a result of type r.
Passes(m, f, k, r) ==
    IF r = NoId THEN CheckInstruction(m, f, [kind |-> k, result |-> NoId]) = {}
    ELSE CheckInstruction(m, Grown(f, r), [kind |-> k, result |-> Len(f.values) + 1]) = {}

\* VerifierAccepts, with its module and its test named.
LEMMA AcceptsPasses ==
    ASSUME NEW f, NEW k, NEW r
    PROVE  LET table == IF k.op = "alloca" /\ Accepts(f, k) THEN Intern(types, PointerData(k.ty, 0))
                        ELSE types
           IN  VerifierAccepts(f, k, r) <=> Passes(Module(table, symbols, consts, functions), f, k, r)
  <1> DEFINE table == IF k.op = "alloca" /\ Accepts(f, k) THEN Intern(types, PointerData(k.ty, 0))
                      ELSE types
  <1>1. [M EXCEPT !.types = table] = Module(table, symbols, consts, functions)
    BY DEF M, Module
  <1> HIDE DEF table
  <1> QED BY <1>1, Zenon DEF VerifierAccepts, Passes, Grown, table

\* A candidate is an instruction that does not use the value it would define.
LEMMA CandidateParts ==
    ASSUME TypeTable(types), functions \in Seq(FunctionShapes), NEW f \in FunctionShapes,
           NEW k \in Candidates(f)
    PROVE  /\ k.op \in AllOps \ {"const"}
           /\ k.op \in {"call", "construct"} => k.args \in Seq(Nat)
           /\ k.op \in {"extract", "insert"} => k.index \in Nat
           /\ k.op = "alloca" => k.ty \in Ids
           /\ \A v \in Operands(k) : v # Len(f.values) + 1
  <1> DEFINE V == (1..Len(f.values)) \cup {Len(f.values) + 2}
  <1>1. V \subseteq Nat /\ Len(f.values) + 1 \notin V
    BY FunctionParts
  <1>2. OperandTypes \subseteq Ids
    BY InputsKnown
  <1>3. \A args \in ListsUpTo(MaxArgs, V) :
            args \in Seq(Nat) /\ \A i \in DOMAIN args : args[i] \in V
    <2>1. MaxArgs \in Nat
      BY ModuleBuilderAssumption
    <2> HIDE DEF V
    <2> QED BY <1>1, <2>1, ListsAreSequences
  <1>4. IndexInputs \subseteq Nat
    BY ModuleBuilderAssumption DEF IndexInputs
  <1>5. /\ k \in [op : BinaryOps, lhs : V, rhs : V]
           \/ k \in [op : {"alloca"}, ty : OperandTypes]
           \/ k \in [op : {"load"}, ty : OperandTypes, pointer : V]
           \/ k \in [op : {"store"}, pointer : V, value : V]
           \/ k \in [op : {"ptr_offset"}, pointer : V, offset : V]
           \/ k \in [op : ConvOps, to : OperandTypes, value : V]
           \/ k \in [op : {"call"}, callee : FunctionInputs, args : ListsUpTo(MaxArgs, V)]
           \/ k \in [op : {"construct"}, ty : OperandTypes, args : ListsUpTo(MaxArgs, V)]
           \/ k \in [op : {"extract"}, aggregate : V, index : IndexInputs]
           \/ k \in [op : {"insert"}, aggregate : V, index : IndexInputs, value : V]
    BY DEF Candidates
  <1> HIDE DEF V
  <1>6. CASE k \in [op : BinaryOps, lhs : V, rhs : V]
    <2>1. k.op \in BinaryOps /\ k.op \notin ConvOps /\ k.op \notin OtherOps
      BY <1>6, OpsApart
    <2>2. Operands(k) = {k.lhs, k.rhs} /\ k.lhs \in V /\ k.rhs \in V
      BY <1>6, <2>1 DEF Operands, OtherOps
    <2> QED BY <1>1, <2>1, <2>2 DEF AllOps, OtherOps
  <1>7. CASE k \in [op : ConvOps, to : OperandTypes, value : V]
    <2>1. k.op \in ConvOps /\ k.op \notin BinaryOps /\ k.op \notin OtherOps
      BY <1>7, OpsApart
    <2>2. Operands(k) = {k.value} /\ k.value \in V
      BY <1>7, <2>1 DEF Operands, OtherOps
    <2> QED BY <1>1, <2>1, <2>2 DEF AllOps, OtherOps
  <1>8. CASE k \in [op : {"call"}, callee : FunctionInputs, args : ListsUpTo(MaxArgs, V)]
             \/ k \in [op : {"construct"}, ty : OperandTypes, args : ListsUpTo(MaxArgs, V)]
    <2>1. k.op \in {"call", "construct"} /\ k.args \in ListsUpTo(MaxArgs, V)
      BY <1>8
    <2>2. k.op \in OtherOps /\ k.op \notin ConvOps /\ k.op \notin BinaryOps
      BY <2>1, OpsApart DEF OtherOps
    <2>3. Operands(k) = ValuesOf(k.args)
      BY <2>1, <2>2 DEF Operands
    <2>4. k.args \in Seq(Nat) /\ \A v \in Operands(k) : v \in V
      BY <1>3, <2>1, <2>3 DEF ValuesOf
    <2> QED BY <1>1, <2>1, <2>2, <2>4 DEF AllOps
  <1>9. CASE k \in [op : {"alloca"}, ty : OperandTypes]
    <2>1. k.op = "alloca" /\ k.ty \in OperandTypes /\ k.op \in OtherOps
          /\ k.op \notin ConvOps /\ k.op \notin BinaryOps
      BY <1>9, OpsApart DEF OtherOps
    <2>2. Operands(k) = {}
      BY <2>1 DEF Operands
    <2> QED BY <1>2, <2>1, <2>2 DEF AllOps
  <1>10. CASE k \in [op : {"load"}, ty : OperandTypes, pointer : V]
    <2>1. k.op = "load" /\ k.pointer \in V /\ k.op \in OtherOps
          /\ k.op \notin ConvOps /\ k.op \notin BinaryOps
      BY <1>10, OpsApart DEF OtherOps
    <2>2. Operands(k) = {k.pointer}
      BY <2>1 DEF Operands
    <2> QED BY <1>1, <2>1, <2>2 DEF AllOps
  <1>11. CASE k \in [op : {"store"}, pointer : V, value : V]
    <2>1. k.op = "store" /\ k.pointer \in V /\ k.value \in V /\ k.op \in OtherOps
          /\ k.op \notin ConvOps /\ k.op \notin BinaryOps
      BY <1>11, OpsApart DEF OtherOps
    <2>2. Operands(k) = {k.pointer, k.value}
      BY <2>1 DEF Operands
    <2> QED BY <1>1, <2>1, <2>2 DEF AllOps
  <1>12. CASE k \in [op : {"ptr_offset"}, pointer : V, offset : V]
    <2>1. k.op = "ptr_offset" /\ k.pointer \in V /\ k.offset \in V /\ k.op \in OtherOps
          /\ k.op \notin ConvOps /\ k.op \notin BinaryOps
      BY <1>12, OpsApart DEF OtherOps
    <2>2. Operands(k) = {k.pointer, k.offset}
      BY <2>1 DEF Operands
    <2> QED BY <1>1, <2>1, <2>2 DEF AllOps
  <1>13. CASE k \in [op : {"extract"}, aggregate : V, index : IndexInputs]
    <2>1. k.op = "extract" /\ k.aggregate \in V /\ k.index \in IndexInputs /\ k.op \in OtherOps
          /\ k.op \notin ConvOps /\ k.op \notin BinaryOps
      BY <1>13, OpsApart DEF OtherOps
    <2>2. Operands(k) = {k.aggregate}
      BY <2>1 DEF Operands
    <2> QED BY <1>1, <1>4, <2>1, <2>2 DEF AllOps
  <1>14. CASE k \in [op : {"insert"}, aggregate : V, index : IndexInputs, value : V]
    <2>1. k.op = "insert" /\ k.aggregate \in V /\ k.value \in V /\ k.index \in IndexInputs
          /\ k.op \in OtherOps /\ k.op \notin ConvOps /\ k.op \notin BinaryOps
      BY <1>14, OpsApart DEF OtherOps
    <2>2. Operands(k) = {k.aggregate, k.value}
      BY <2>1 DEF Operands
    <2> QED BY <1>1, <1>4, <2>1, <2>2 DEF AllOps
  <1> QED BY <1>5, <1>6, <1>7, <1>8, <1>9, <1>10, <1>11, <1>12, <1>13, <1>14

\* What the verifier says of k, with and without a result, over a table that may
\* hold more than the builder's.
LEMMA PassesIsTyped ==
    ASSUME NEW m, TypeTable(m.types), NEW f \in FunctionShapes,
           TypesKnown(M, f), ~(Len(f.values) < Len(f.params)), NEW k, k.op \in AllOps, NEW r \in Nat
    PROVE  \E f2, inst : /\ inst.kind = k /\ inst.result = IF r = NoId THEN NoId ELSE Len(f.values) + 1
                         /\ f2 = IF r = NoId THEN f ELSE Grown(f, r)
                         /\ TypesKnown(m, f2) /\ TyOf(f2, inst.result) = r
                         /\ Extended(f.values, f2.values)
                         /\ DOMAIN f2.values \subseteq DOMAIN f.values \cup {Len(f.values) + 1}
                         /\ Passes(m, f, k, r) <=> InstTyped(m, f2, inst)
  <1>1. TypesKnown(m, f) /\ NoId \notin DOMAIN f.values /\ \A v \in DOMAIN f.values : f.values[v] \in Ids
    BY TypeTableFacts DEF TypesKnown
  <1>2. CASE r = NoId
    <2> DEFINE inst == [kind |-> k, result |-> NoId]
    <2>1. inst.kind = k /\ inst.result = NoId /\ TyOf(f, inst.result) = r
      BY <1>1, <1>2 DEF TyOf
    <2>2. Passes(m, f, k, r) <=> CheckInstruction(m, f, inst) = {}
      BY <1>2 DEF Passes
    <2> HIDE DEF inst
    <2>3. CheckInstruction(m, f, inst) = {} <=> InstTyped(m, f, inst)
      BY <1>1, <2>1, InstructionChecks
    <2>4. Extended(f.values, f.values)
      BY DEF Extended
    <2> QED BY <1>1, <1>2, <2>1, <2>2, <2>3, <2>4
  <1>3. CASE r # NoId
    <2> DEFINE inst == [kind |-> k, result |-> Len(f.values) + 1]
               f2 == Grown(f, r)
    <2>1. r \in Ids /\ Len(f.values) \in Nat
          /\ DOMAIN f.values = 1..Len(f.values) /\ Len(f.params) \in Nat
      BY <1>3, FunctionParts DEF Ids
    <2>2. /\ f2.params = f.params /\ DOMAIN f2.values = 1..Len(f.values) + 1
          /\ Len(f2.values) = Len(f.values) + 1 /\ Extended(f.values, f2.values)
          /\ f2.values[Len(f.values) + 1] = r
      BY <2>1, GrownParts
    <2>3. Passes(m, f, k, r) <=> CheckInstruction(m, f2, inst) = {}
      BY <1>3 DEF Passes
    <2>4. inst.kind = k /\ inst.result = Len(f.values) + 1
      OBVIOUS
    <2> HIDE DEF inst, f2
    <2>5. \A v \in DOMAIN f2.values : v \in DOMAIN f.values \/ v = Len(f.values) + 1
      BY <2>1, <2>2
    <2>6. TypesKnown(m, f2)
      <3>1. \A v \in DOMAIN f2.values : f2.values[v] \in Ids
        BY <1>1, <2>1, <2>2, <2>5 DEF Extended
      <3> QED BY <1>1, <2>1, <2>2, <3>1 DEF TypesKnown, NoId
    <2>7. TyOf(f2, inst.result) = r
      BY <2>1, <2>2, <2>4 DEF TyOf
    <2>8. ~(Len(f2.values) < Len(f2.params))
      BY <2>1, <2>2
    <2>9. CheckInstruction(m, f2, inst) = {} <=> InstTyped(m, f2, inst)
      BY <2>4, <2>6, <2>8, InstructionChecks
    <2> QED BY <1>3, <2>2, <2>3, <2>4, <2>5, <2>6, <2>7, <2>9 DEF f2
  <1> QED BY <1>2, <1>3

\* Of one candidate and one type: the verifier accepts both exactly when the builder
\* emits the candidate with that type.
LEMMA OneVerdict ==
    ASSUME IInv, NEW g \in DOMAIN functions, NEW k \in Candidates(functions[g]), NEW r \in Nat
    PROVE  VerifierAccepts(functions[g], k, r) <=>
               Accepts(functions[g], k) /\ r = ResultType(functions[g], k)
  <1> DEFINE f == functions[g]
             data == PointerData(k.ty, 0)
             table == IF k.op = "alloca" /\ Accepts(f, k) THEN Intern(types, data) ELSE types
             m == Module(table, symbols, consts, functions)
  <1>1. /\ TypeTable(types) /\ SignaturesKnown /\ functions \in Seq(FunctionShapes)
        /\ f \in FunctionShapes /\ BodyFine(M, f)
    BY StateFacts
  <1>2. VerifierAccepts(f, k, r) <=> Passes(m, f, k, r)
    BY AcceptsPasses
  <1> HIDE DEF f
  <1>3. /\ k.op \in AllOps \ {"const"}
        /\ k.op \in {"call", "construct"} => k.args \in Seq(Nat)
        /\ k.op \in {"extract", "insert"} => k.index \in Nat
        /\ k.op = "alloca" => k.ty \in Ids
        /\ \A v \in Operands(k) : v # Len(f.values) + 1
    BY <1>1, CandidateParts DEF f
  <1>4. TypesKnown(M, f) /\ ~(Len(f.values) < Len(f.params))
    BY <1>1, BodyKnown, ArenaHoldsParams, FieldsOfM DEF BodyFine
  <1>5. CASE k.op # "alloca"
    <2>1. m = M /\ M.types = types
      BY <1>5, FieldsOfM
    <2>2. PICK f2, inst :
              /\ inst.kind = k /\ inst.result = IF r = NoId THEN NoId ELSE Len(f.values) + 1
              /\ TypesKnown(M, f2) /\ TyOf(f2, inst.result) = r
              /\ Extended(f.values, f2.values)
              /\ DOMAIN f2.values \subseteq DOMAIN f.values \cup {Len(f.values) + 1}
              /\ Passes(M, f, k, r) <=> InstTyped(M, f2, inst)
      BY <1>1, <1>3, <1>4, <2>1, PassesIsTyped
    <2>3. inst.result = NoId <=> r = NoId
      <3>1. Len(f.values) \in Nat
        BY <1>1, FunctionParts
      <3> QED BY <2>2, <3>1 DEF NoId
    <2>4. WithResult(f, f2, inst, r)
      BY <1>3, <2>2, <2>3 DEF WithResult
    <2>5. k.op \in AllOps \ {"const", "alloca"}
      BY <1>3, <1>5
    <2>6. InstTyped(M, f2, inst) <=> Accepts(f, k) /\ r = ResultType(f, k)
      BY <1>1, <1>3, <1>4, <2>2, <2>4, <2>5, Agreement
    <2> HIDE DEF m
    <2> QED BY <1>2, <2>1, <2>2, <2>6 DEF f
  <1>6. CASE k.op = "alloca"
    <2> DEFINE id == IdOf(types, data)
    <2>1. k.op \notin BinaryOps /\ k.op \notin ConvOps
      BY <1>6, OpsApart DEF OtherOps
    <2>2. /\ Accepts(f, k) <=> Holds(types, k.ty, IsFirstClass)
          /\ ResultType(f, k) = id /\ Operands(k) = {}
      BY <1>6, <2>1 DEF Accepts, ResultType, Operands
    <2>3. /\ TypeTable(Intern(types, data)) /\ Extended(types, Intern(types, data))
          /\ id \in DOMAIN Intern(types, data) /\ Intern(types, data)[id] = data
      BY <1>1, <1>3, <1>6, PointerInterns
    <2>4. m.types = table /\ TypeTable(table) /\ Extended(types, table)
      BY <1>1, <2>3, FieldsOfModule DEF Extended
    <2>5. Accepts(f, k) => id \in DOMAIN table /\ table[id] = data
      BY <1>6, <2>3
    <2>6. ~Accepts(f, k) => table = types
      OBVIOUS
    <2> HIDE DEF m, table, data, id
    <2>7. PICK f2, inst : /\ inst.kind = k /\ TyOf(f2, inst.result) = r
                          /\ Passes(m, f, k, r) <=> InstTyped(m, f2, inst)
      BY <1>1, <1>3, <1>4, <2>4, PassesIsTyped
    <2>8. InstTyped(m, f2, inst) <=> AllocaTyped(m, f2, inst)
      BY <1>6, <2>1, <2>2, <2>7 DEF InstTyped, ArmTyped
    <2>9. AllocaTyped(m, f2, inst)
          <=> Holds(table, k.ty, IsFirstClass) /\ r \in DOMAIN table /\ table[r] = data
      BY <2>4, <2>7 DEF AllocaTyped, data
    <2>10. CASE Accepts(f, k)
      <3>1. Holds(table, k.ty, IsFirstClass)
        BY <2>2, <2>4, <2>10 DEF Holds, Extended
      <3>2. r \in DOMAIN table /\ table[r] = data <=> r = id
        BY <2>4, <2>5, <2>10 DEF TypeTable, NoDuplicates
      <3> QED BY <1>2, <2>2, <2>7, <2>8, <2>9, <2>10, <3>1, <3>2 DEF f
    <2>11. CASE ~Accepts(f, k)
      BY <1>2, <2>2, <2>6, <2>7, <2>8, <2>9, <2>11 DEF f
    <2> QED BY <2>10, <2>11
  <1> QED BY <1>5, <1>6

\* TypingTablesAgree, in every state, and with it BuilderAgreesWithVerifier: of every
\* candidate instruction over every arena the verifier accepts exactly the result type
\* the builder gives, and none if the builder refuses the instruction.
THEOREM BuilderAgrees == Spec => [](TypingTablesAgree /\ BuilderAgreesWithVerifier)
  <1>1. ASSUME IInv PROVE TypingTablesAgree
    <2>1. OperandTypes \cup {NoId} \subseteq Nat
      BY <1>1, StateFacts, InputsKnown DEF NoId, Ids
    <2> QED BY <1>1, <2>1, OneVerdict DEF TypingTablesAgree
  <1>2. ASSUME IInv PROVE TypingTablesAgree /\ BuilderAgreesWithVerifier
    BY <1>1, <1>2 DEF BuilderAgreesWithVerifier
  <1> QED BY <1>2, Invariance, PTL
=============================================================================
