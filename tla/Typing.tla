------------------------------- MODULE Typing -------------------------------
(***************************************************************************)
(* The typing half of the verifier: src/src/verify/types.rs and the        *)
(* signature and module checks of src/src/verify/mod.rs.                   *)
(*                                                                         *)
(* m is a module: its tables types, consts, symbols and its functions; f   *)
(* is one function: params (their types), values (value id -> type), insts *)
(* and the fields of its signature; terms tells of each block whether it   *)
(* has a terminator.  A check returns the set of kinds of VerifyError it   *)
(* reports: where the code returns early, no later part of it adds one.    *)
(* An instruction is [kind, result]; a missing result is NoId.             *)
(***************************************************************************)
EXTENDS Stores

-----------------------------------------------------------------------------
(* Instructions                                                            *)

ArithOps == {"add", "sub", "mul", "div"}
BitOps == {"and", "or", "xor"}
ShiftOps == {"shl", "shr"}
EqualityOps == {"eq", "ne"}
OrderOps == {"lt", "le", "gt", "ge"}
BinaryOps == ArithOps \cup {"rem"} \cup BitOps \cup ShiftOps \cup EqualityOps \cup OrderOps
ConvOps == {"ext", "trunc", "int_to_float", "float_to_int", "ptr_cast"}

ValuesOf(list) == {list[i] : i \in DOMAIN list}

\* InstructionKind::visit_values
Operands(k) ==
    CASE k.op \in {"const", "alloca"} -> {}
      [] k.op \in BinaryOps -> {k.lhs, k.rhs}
      [] k.op = "load" -> {k.pointer}
      [] k.op = "store" -> {k.pointer, k.value}
      [] k.op = "ptr_offset" -> {k.pointer, k.offset}
      [] k.op \in ConvOps -> {k.value}
      [] k.op \in {"call", "construct"} -> ValuesOf(k.args)
      [] k.op = "extract" -> {k.aggregate}
      [] k.op = "insert" -> {k.aggregate, k.value}

-----------------------------------------------------------------------------
(* Helpers of check_instruction                                            *)

If(error, condition) == IF condition THEN {error} ELSE {}

\* operand_ty, result_ty: NoId for a value outside the arena.
TyOf(f, v) == IF v \in DOMAIN f.values THEN f.values[v] ELSE NoId

CheckResult(f, inst, expected) ==
    If("InvalidResultType", TyOf(f, inst.result) # expected)

\* same_type_pair!: the two types, when both are known, must be equal and in
\* the class.  The result of an arithmetic op is compared only after that.
PairErrors(m, f, k, Class(_)) ==
    LET lt == TyOf(f, k.lhs)
        rt == TyOf(f, k.rhs)
    IN  IF lt = NoId \/ rt = NoId THEN {}
        ELSE IF lt # rt THEN {"TypeMismatch"}
        ELSE If("InvalidOperandType", ~Holds(m.types, lt, Class))

CheckArith(m, f, inst, Class(_)) ==
    LET errors == PairErrors(m, f, inst.kind, Class)
    IN  IF errors # {} THEN errors
        ELSE IF NoId \in {TyOf(f, inst.kind.lhs), TyOf(f, inst.kind.rhs)} THEN {}
        ELSE CheckResult(f, inst, TyOf(f, inst.kind.lhs))

IsArith(d) == IsArithInteger(d) \/ IsFloat(d)
IsComparable(d) == IsInteger(d) \/ IsFloat(d) \/ IsPointer(d)

\* Operand and count of a shift need not agree.
CheckShiftBug(m, f, inst) ==   \* the count is not looked at
    LET lt == TyOf(f, inst.kind.lhs)
    IN  IF lt = NoId THEN {}
        ELSE If("InvalidOperandType", ~Holds(m.types, lt, IsArithInteger))
             \cup CheckResult(f, inst, lt)
CheckShift(m, f, inst) ==
    LET lt == TyOf(f, inst.kind.lhs)
        rt == TyOf(f, inst.kind.rhs)
    IN  (IF lt = NoId THEN {}
         ELSE If("InvalidOperandType", ~Holds(m.types, lt, IsArithInteger))
              \cup CheckResult(f, inst, lt))
        \cup If("InvalidOperandType", rt # NoId /\ ~Holds(m.types, rt, IsInteger))

CheckCompare(m, f, inst, Class(_)) ==
    PairErrors(m, f, inst.kind, Class) \cup CheckResult(f, inst, I1)

CheckBinary(m, f, inst) ==
    LET op == inst.kind.op
    IN  CASE op \in ArithOps -> CheckArith(m, f, inst, IsArith)
          [] op = "rem" -> CheckArith(m, f, inst, IsArithInteger)
          [] op \in BitOps -> CheckArith(m, f, inst, IsInteger)
          [] op \in ShiftOps -> CheckShift(m, f, inst)
          [] op \in EqualityOps -> CheckCompare(m, f, inst, IsComparable)
          [] op \in OrderOps -> CheckCompare(m, f, inst, IsArith)

-----------------------------------------------------------------------------
(* The other arms of check_instruction                                     *)

CheckConst(m, f, inst) ==
    LET c == inst.kind.constant
        ty == TyOf(f, inst.result)
    IN  IF c \notin DOMAIN m.consts THEN {"UnknownConstant"}
        ELSE IF ty = NoId THEN {"InvalidOperandType"}
        ELSE If("InvalidResultType", ~ConstantFits(m.types, m.consts[c], ty))

CheckAlloca(m, f, inst) ==
    LET isPtr(d) == d = PointerData(inst.kind.ty, 0)
    IN  If("InvalidOperandType", ~Holds(m.types, inst.kind.ty, IsFirstClass))
        \cup If("InvalidResultType", ~Holds(m.types, TyOf(f, inst.result), isPtr))

\* ptr_pointee: NoId unless the type is a pointer.
Pointee(m, t) == IF Holds(m.types, t, IsPointer) THEN m.types[t].pointee ELSE NoId

CheckLoad(m, f, inst) ==
    LET ty == inst.kind.ty
        pty == TyOf(f, inst.kind.pointer)
    IN  IF ~Holds(m.types, pty, IsPointer) THEN {"InvalidOperandType"}
        ELSE CheckResult(f, inst, ty)
             \cup (IF ~Holds(m.types, ty, IsFirstClass) THEN {"InvalidOperandType"}
                   ELSE If("TypeMismatch", Pointee(m, pty) # ty))

CheckStore(m, f, inst) ==
    LET pty == TyOf(f, inst.kind.pointer)
        vty == TyOf(f, inst.kind.value)
    IN  If("InvalidOperandType", inst.result # NoId)
        \cup IF ~Holds(m.types, pty, IsPointer) THEN {"InvalidOperandType"}
             ELSE If("TypeMismatch", vty # NoId /\ vty # Pointee(m, pty))

CheckPtrOffset(m, f, inst) ==
    LET pty == TyOf(f, inst.kind.pointer)
        oty == TyOf(f, inst.kind.offset)
    IN  IF ~Holds(m.types, pty, IsPointer) THEN {"InvalidOperandType"}
        ELSE If("InvalidOperandType", oty # NoId /\ ~Holds(m.types, oty, IsArithInteger))
             \cup CheckResult(f, inst, pty)

\* The classes a conversion goes from and to.
ConvertsFrom(op, d) == CASE op \in {"ext", "trunc"} -> IsInteger(d)
                         [] op = "int_to_float" -> IsArithInteger(d)
                         [] op = "float_to_int" -> IsFloat(d)
                         [] op = "ptr_cast" -> IsPointer(d)
ConvertsTo(op, d) == CASE op \in {"ext", "float_to_int"} -> IsArithInteger(d)
                       [] op = "trunc" -> IsInteger(d)
                       [] op = "int_to_float" -> IsFloat(d)
                       [] op = "ptr_cast" -> IsPointer(d)

CheckConv(m, f, inst) ==
    LET op == inst.kind.op
        from == TyOf(f, inst.kind.value)
        to == inst.kind.to
        fromOk(d) == ConvertsFrom(op, d)
        toOk(d) == ConvertsTo(op, d)
        ok == Holds(m.types, from, fromOk) /\ Holds(m.types, to, toOk)
    IN  If("InvalidOperandType",
           \/ ~ok
           \/ op = "ext" /\ m.types[to].bits <= m.types[from].bits
           \/ op = "trunc" /\ m.types[to].bits >= m.types[from].bits)
        \cup CheckResult(f, inst, to)

CheckConstruct(m, f, inst) ==
    LET ty == inst.kind.ty
        args == inst.kind.args
        wrong(i) == LET want == FieldType(m.types[ty], i - 1)
                        actual == TyOf(f, args[i])
                    IN  want # NoId /\ actual # NoId /\ actual # want
    IN  CheckResult(f, inst, ty)
        \cup IF ~Holds(m.types, ty, IsAggregate) THEN {"InvalidOperandType"}
             ELSE If("InvalidOperandType", FieldCount(m.types[ty]) # Len(args))
                  \cup If("TypeMismatch", \E i \in DOMAIN args : wrong(i))

\* The type of the field an extract or an insert names, NoId when there is none.
FieldAt(m, f, k) ==
    LET aty == TyOf(f, k.aggregate)
    IN  IF Holds(m.types, aty, IsAggregate) THEN FieldType(m.types[aty], k.index) ELSE NoId

CheckExtract(m, f, inst) ==
    LET field == FieldAt(m, f, inst.kind)
    IN  IF field = NoId THEN {"InvalidOperandType"} ELSE CheckResult(f, inst, field)

CheckInsert(m, f, inst) ==
    LET field == FieldAt(m, f, inst.kind)
        actual == TyOf(f, inst.kind.value)
    IN  IF field = NoId THEN {"InvalidOperandType"}
        ELSE If("TypeMismatch", actual # NoId /\ actual # field)
             \cup CheckResult(f, inst, TyOf(f, inst.kind.aggregate))

\* check_call: arity, fixed arguments, extra arguments, and the result.
CheckCall(m, f, inst) ==
    LET args == inst.kind.args
        callee == m.functions[inst.kind.callee]
        n == Len(callee.params)
        isVoid == Holds(m.types, callee.result, IsVoid)
        wrong(i) == LET ty == TyOf(f, args[i])
                    IN  /\ ty # NoId
                        /\ IF i <= n THEN ty # callee.params[i]
                           ELSE ~Holds(m.types, ty, IsFirstClass)
        result == TyOf(f, inst.result)
    IN  IF inst.kind.callee \notin DOMAIN m.functions THEN {"UnknownFunction"}
        ELSE If("CallArityMismatch",
                IF callee.variadic THEN Len(args) < n ELSE Len(args) # n)
             \cup If("CallArgTypeMismatch", \E i \in DOMAIN args : wrong(i))
             \cup If("InvalidOperandType", (inst.result = NoId) # isVoid)
             \cup If("InvalidResultType", ~isVoid /\ result # NoId /\ result # callee.result)

\* The arm of an instruction.
CheckArm(m, f, inst) ==
    LET op == inst.kind.op
    IN  CASE op = "const" -> CheckConst(m, f, inst)
          [] op \in BinaryOps -> CheckBinary(m, f, inst)
          [] op = "alloca" -> CheckAlloca(m, f, inst)
          [] op = "load" -> CheckLoad(m, f, inst)
          [] op = "store" -> CheckStore(m, f, inst)
          [] op = "ptr_offset" -> CheckPtrOffset(m, f, inst)
          [] op \in ConvOps -> CheckConv(m, f, inst)
          [] op = "call" -> CheckCall(m, f, inst)
          [] op = "construct" -> CheckConstruct(m, f, inst)
          [] op = "extract" -> CheckExtract(m, f, inst)
          [] op = "insert" -> CheckInsert(m, f, inst)

\* check_instruction: the operands exist, the arm, and a result is present
\* where one must be.  Typing is skipped when the arena misses parameters; the
\* last check is not reached from the early returns, which report an error of
\* the same kind or another one already.
CheckInstruction(m, f, inst) ==
    If("UnknownValue", ~(Operands(inst.kind) \subseteq DOMAIN f.values))
    \cup IF Len(f.values) < Len(f.params) THEN {}
         ELSE CheckArm(m, f, inst)
              \cup If("InvalidOperandType",
                      inst.kind.op \notin {"store", "call"} /\ inst.result = NoId)

-----------------------------------------------------------------------------
(* Constants, signatures and the module                                    *)

\* check_constant of entry i: an element is an earlier entry that fits its field.
CheckAggregate(m, i) ==
    LET c == m.consts[i]
        d == m.types[c.ty]
        elementErrors(j) ==
            CASE c.elements[j] \notin DOMAIN m.consts -> {"UnknownConstant"}
              [] c.elements[j] \in DOMAIN m.consts /\ c.elements[j] >= i -> {"InvalidConstant"}
              [] OTHER -> If("InvalidConstant",
                             ~ConstantFits(m.types, m.consts[c.elements[j]], FieldType(d, j - 1)))
    IN  If("InvalidConstant", FieldCount(d) # Len(c.elements))
        \cup UNION {elementErrors(j) :
                    j \in {k \in DOMAIN c.elements : d.tag = "Array" \/ k <= Len(d.fields)}}
CheckConstant(m, i) ==
    LET c == m.consts[i]
        ofWidth(d) == IsInteger(d) /\ d.bits = c.width
    IN  CASE c.tag = "Int" -> If("InvalidConstant", ~Holds(m.types, c.ty, ofWidth))
          [] c.tag = "Float" -> If("InvalidConstant", ~Holds(m.types, c.ty, IsFloat))
          [] c.tag = "Null" -> If("InvalidConstant", ~Holds(m.types, c.pointee, IsFirstClass))
          [] c.tag = "String" -> {}
          [] c.tag = "Aggregate" ->
                IF Holds(m.types, c.ty, IsAggregate) THEN CheckAggregate(m, i)
                ELSE {"InvalidConstant"}

\* The signature part of check_function.
CheckSignature(m, f) ==
    (IF f.terms = <<>> THEN If("InvalidDeclaration", f.linkage # "External")
     ELSE If("VariadicDefinition", f.variadic))
    \cup If("InvalidSignature",
            \/ \E i \in DOMAIN f.params : ~Holds(m.types, f.params[i], IsFirstClass)
            \/ ~(Holds(m.types, f.result, IsFirstClass) \/ Holds(m.types, f.result, IsVoid)))

\* check_module: no two functions of one name, and the constants, of pool or all.
CheckModule(m, pool) ==
    If("DuplicateFunctionName",
       \E g, h \in DOMAIN m.functions :
          g < h /\ m.symbols[m.functions[g].symbol] = m.symbols[m.functions[h].symbol])
    \cup UNION {CheckConstant(m, i) : i \in pool}

\* What verify_ref reports of signatures, instruction typing and the constants of pool,
\* which is all of them in the code; definitions, terminators and dominance are in
\* Verify and Ssa.
TypingErrors(m, pool) ==
    CheckModule(m, pool) \cup
    UNION {CheckSignature(m, m.functions[g])
           \cup UNION {CheckInstruction(m, m.functions[g], m.functions[g].insts[j]) :
                       j \in DOMAIN m.functions[g].insts} : g \in DOMAIN m.functions}
=============================================================================
