------------------------------- MODULE Select -------------------------------
(***************************************************************************)
(* The machine code of one scalar instruction: gen_inst and what it calls  *)
(* in astronomy-x86/src/codegen.rs.  The code generator emits a short      *)
(* program on three integer and two float registers that reads the slots   *)
(* of the operands and writes the slot of the result; the processor then   *)
(* executes it, one action per machine instruction.                        *)
(*                                                                         *)
(* Widths are scaled: W8 stands for 8 bits and so on, i1 is stored in W8.  *)
(* A slot is a window of W64 bits of memory that starts with the value.  A *)
(* float is NaN or a number of halves.                                     *)
(***************************************************************************)
EXTENDS Integers, Sequences, Bitwise

CONSTANTS W8, W16, W32, W64,   \* the widths of integers
          P32, P64,            \* bits of a significand, f32 and f64
          NaN,
          Instructions         \* sets of the instructions to lower, with operand values

ASSUME SelectAssumption ==
    /\ {W8, W16, W32, W64, P32, P64} \subseteq Nat
    /\ 1 < W8 /\ W8 < W16 /\ W16 < W32 /\ W32 < W64
    /\ 0 < P32 /\ P32 < P64 /\ P64 + 2 < W64    \* 24, 53 and 64
    /\ NaN \notin Int

U(n, width) == n % 2^width                                  \* two's complement
Above(n, width) == n - U(n, width)                          \* the bits above those
S(n, width) == IF n >= 2^(width - 1) THEN n - 2^width ELSE n

IntTy(bits, signed) == [tag |-> "int", bits |-> bits, signed |-> signed]
FloatTy(single) == [tag |-> "float", single |-> single]
Boolean == IntTy(1, FALSE)
Pointer == IntTy(W64, FALSE)                                  \* int_info of a pointer
IsFloat(t) == t.tag = "float"
Significand(t) == IF t.single THEN P32 ELSE P64

WidthOf(bits) == IF bits = 1 THEN W8 ELSE bits              \* width_of_bits

-----------------------------------------------------------------------------
(* Machine instructions (asm.rs) and the helpers that emit one             *)

Reg(r) == <<"reg", r>>
Imm(n) == <<"imm", n>>

LoadMem(reg, slot, bits, signed) ==                         \* load_mem
    [i |-> "load", dst |-> reg, slot |-> slot, width |-> WidthOf(bits),
     signed |-> signed /\ bits # 1]
LoadInt(reg, slot, t) == LoadMem(reg, slot, t.bits, t.signed)
StoreMem(reg, slot, bits) ==
    [i |-> "store", src |-> reg, slot |-> slot, width |-> WidthOf(bits)]
StoreInt(reg, bits) == StoreMem(reg, "dst", bits)

Mov(dst, src) == [i |-> "mov", dst |-> dst, src |-> src]
AluAt(op, width, dst, src) == [i |-> "alu", op |-> op, width |-> width, dst |-> dst, src |-> src]
Alu(op, dst, src) == AluAt(op, W64, dst, src)
Zero(reg) == AluAt("xor", W32, reg, Reg(reg))
LowBit(reg) == AluAt("and", W32, reg, Imm(1))
Cmp(a, src) == [i |-> "cmp", a |-> a, src |-> src]
Test(a) == [i |-> "test", a |-> a]
Imul(dst, src) == [i |-> "imul", dst |-> dst, src |-> src]
Cqo == [i |-> "cqo"]
Divide(signed) == [i |-> "div", signed |-> signed]
Shift(op, dst, src) == [i |-> "shift", op |-> op, dst |-> dst, src |-> src]
Jcc(cond, label) == [i |-> "jump", cond |-> cond, label |-> label]
Jmp(label) == Jcc("always", label)
Label(label) == [i |-> "label", label |-> label]
Setcc(cond, dst) == [i |-> "setcc", cond |-> cond, dst |-> dst]

FLoad(dst, slot) == [i |-> "fload", dst |-> dst, slot |-> slot]
FStore == [i |-> "fstore"]
FImm(value) == [i |-> "fimm", value |-> value]              \* xmm1 from rodata, or xorpd
FArith(op, src) == [i |-> "farith", op |-> op, src |-> src]
Ucomi(b) == [i |-> "ucomi", b |-> b]
ToFloat(t, src) == [i |-> "cvtsi2f", significand |-> Significand(t), src |-> src]
Truncate == [i |-> "cvttsd2si"]

Comparisons == {"eq", "ne", "lt", "le", "gt", "ge"}         \* CmpOp

-----------------------------------------------------------------------------
(* What is emitted for instruction k: its op, the type ty of its operands  *)
(* (of the value that is loaded), the type other of a shift count, an      *)
(* offset or a conversion's result, and the size of a pointee.             *)

LoadPair(t) ==
    IF IsFloat(t) THEN <<FLoad("xmm0", "lhs"), FLoad("xmm1", "rhs")>>
    ELSE <<LoadInt("rax", "lhs", t), LoadInt("rcx", "rhs", t)>>

GenArith(op, t) ==
    LoadPair(t)
    \o (IF IsFloat(t) THEN <<FArith(op, "xmm1"), FStore>>
        ELSE <<IF op = "mul" THEN Imul("rax", Reg("rcx")) ELSE Alu(op, "rax", Reg("rcx")),
               StoreInt("rax", t.bits)>>)

GenBitwise(op, t) == LoadPair(t) \o <<Alu(op, "rax", Reg("rcx")), StoreInt("rax", t.bits)>>

\* idiv faults on the least number divided by -1, so that this is not left to it.
LeastByMinusOne(t) ==
    IF t.bits # W64 THEN <<>>
    ELSE <<Cmp("rcx", Imm(-1)), Jcc("ne", "normal"),
           Mov("rdx", Imm(2^(W64 - 1))), Cmp("rax", Reg("rdx")), Jcc("ne", "normal"),
           Zero("rdx"), Jmp("done"), Label("normal")>>

GenDiv(op, t) ==
    LoadPair(t)
    \o (IF IsFloat(t) THEN <<FArith("div", "xmm1"), FStore>>
        ELSE (IF t.signed THEN LeastByMinusOne(t) \o <<Cqo, Divide(TRUE), Label("done")>>
              ELSE <<Zero("rdx"), Divide(FALSE)>>)
             \o (IF op = "rem" THEN <<Mov("rax", Reg("rdx"))>> ELSE <<>>)
             \o <<StoreInt("rax", t.bits)>>)

\* The processor takes a count modulo the width of the register.
GenShift(op, t, count) ==
    <<LoadInt("rax", "lhs", t), LoadMem("rcx", "rhs", count.bits, FALSE),
      Cmp("rcx", Imm(t.bits)), Jcc("ae", "special"),
      Shift(IF op = "shl" THEN "shl" ELSE IF t.signed THEN "sar" ELSE "shr", "rax", Reg("rcx")),
      Jmp("done"),
      Label("special"),
      IF op = "shl" \/ ~t.signed THEN Zero("rax") ELSE Shift("sar", "rax", Imm(W64 - 1)),
      Label("done"), StoreInt("rax", t.bits)>>

\* Of floats, comisd sets the flags like unsigned ones and parity for NaN.
FloatCond(op) ==
    CASE op = "eq" -> <<"e", "np", "and">> [] op = "ne" -> <<"ne", "p", "or">>
      [] op = "lt" -> <<"b", "np", "and">> [] op = "le" -> <<"be", "np", "and">>
      [] op = "gt" -> <<"a">> [] op = "ge" -> <<"ae">>

IntCond(op, signed) ==
    CASE op = "eq" -> "e" [] op = "ne" -> "ne"
      [] op = "lt" -> IF signed THEN "l" ELSE "b"
      [] op = "le" -> IF signed THEN "le" ELSE "be"
      [] op = "gt" -> IF signed THEN "g" ELSE "a"
      [] op = "ge" -> IF signed THEN "ge" ELSE "ae"

GenCmp(op, t) ==
    LoadPair(t)
    \o (IF IsFloat(t)
        THEN LET cond == FloatCond(op)
             IN  <<Ucomi("xmm1"), Setcc(cond[1], "rax")>>
                 \o (IF Len(cond) = 1 THEN <<>>
                     ELSE <<Setcc(cond[2], "rcx"), AluAt(cond[3], W8, "rax", Reg("rcx"))>>)
        ELSE <<Cmp("rax", Reg("rcx")), Setcc(IntCond(op, t.signed), "rax")>>)
    \o <<StoreInt("rax", W8)>>

GenExt(t, to) == <<LoadInt("rax", "lhs", t), StoreInt("rax", to.bits)>>

GenTrunc(t, to) ==
    <<LoadMem("rax", "lhs", t.bits, FALSE)>>
    \o (IF to.bits = 1 THEN <<LowBit("rax")>> ELSE <<>>)
    \o <<StoreInt("rax", to.bits)>>

\* Through a pointer in rax: rhs is the memory that is read, dst the memory written.
GenLoad(t) ==
    <<LoadInt("rax", "lhs", Pointer)>>
    \o (IF IsFloat(t) THEN <<FLoad("xmm0", "rhs"), FStore>>
        ELSE <<LoadInt("rdx", "rhs", t)>>
             \o (IF t.bits = 1 THEN <<LowBit("rdx")>> ELSE <<>>)
             \o <<StoreInt("rdx", t.bits)>>)

GenStore(t) ==
    <<LoadInt("rax", "lhs", Pointer)>>
    \o (IF IsFloat(t) THEN <<FLoad("xmm0", "rhs"), FStore>>
        ELSE <<LoadInt("rdx", "rhs", t), StoreMem("rdx", "dst", t.bits)>>)

\* imul takes an immediate of 32 bits with a sign.
Scaled(size) ==
    IF size < 2^(W32 - 1) THEN <<Imul("rcx", Imm(S(U(size, W32), W32)))>>
    ELSE <<Mov("rdx", Imm(size)), Imul("rcx", Reg("rdx"))>>

GenPtrOffset(offset, size) ==
    <<LoadInt("rax", "lhs", Pointer), LoadMem("rcx", "rhs", offset.bits, TRUE)>>
    \o Scaled(size)
    \o <<Alu("add", "rax", Reg("rcx")), StoreInt("rax", W64)>>

\* A definition named ...Bug makes one plausible mistake in the definition that
\* follows it.  No specification uses it; it shows that a property would notice.

\* cvtsi2sd takes signed numbers: a large unsigned one is halved, its low bit kept for
\* rounding, and the result doubled.
HalvedBug(to) ==                                            \* the low bit is lost
    <<Mov("rcx", Reg("rax")), Shift("shr", "rcx", Imm(1)), ToFloat(to, "rcx")>>
Halved(to) ==
    <<Mov("rcx", Reg("rax")), Shift("shr", "rcx", Imm(1)), LowBit("rax"),
      Alu("or", "rcx", Reg("rax")), ToFloat(to, "rcx")>>

GenIntToFloat(t, to) ==
    <<LoadInt("rax", "lhs", t)>>
    \o (IF t.signed \/ t.bits < W64 THEN <<ToFloat(to, "rax")>>
        ELSE <<Test("rax"), Jcc("s", "big"), ToFloat(to, "rax"), Jmp("done"), Label("big")>>
             \o Halved(to)
             \o <<FArith("add", "xmm0"), Label("done")>>)
    \o <<FStore>>

Compare(n) == <<FImm(2 * n), Ucomi("xmm1")>>                \* compare_with_bound

ToSigned(bits) ==
    Compare(2^(bits - 1)) \o <<Jcc("ae", "max")>>
    \o Compare(-2^(bits - 1)) \o <<Jcc("b", "min"), Truncate, Jmp("done"),
         Label("max"), Mov("rax", Imm(2^(bits - 1) - 1)), Jmp("done"),
         Label("min"), Mov("rax", Imm(2^(bits - 1))), Jmp("done")>>

ToUnsigned(bits) ==
    Compare(0) \o <<Jcc("b", "zero")>>
    \o Compare(2^bits) \o <<Jcc("ae", "max")>>
    \o (IF bits # W64 THEN <<>>
        ELSE Compare(2^(W64 - 1))
             \o <<Jcc("b", "small"), FArith("sub", "xmm1"), Truncate,
                  Mov("rcx", Imm(2^(W64 - 1))), Alu("add", "rax", Reg("rcx")), Jmp("done"),
                  Label("small")>>)
    \o <<Truncate, Jmp("done"), Label("max"), Mov("rax", Imm(2^bits - 1)), Jmp("done")>>

GenFloatToInt(to) ==
    <<FLoad("xmm0", "lhs"), Ucomi("xmm0"), Jcc("p", "zero")>>
    \o (IF to.signed THEN ToSigned(to.bits) ELSE ToUnsigned(to.bits))
    \o <<Label("zero"), Zero("rax"), Label("done"), StoreInt("rax", to.bits)>>

\* gen_inst
Code(k) ==
    CASE k.op = "const" -> <<Mov("rax", Imm(k.l)), StoreInt("rax", k.ty.bits)>>
      [] k.op \in {"add", "sub", "mul"} -> GenArith(k.op, k.ty)
      [] k.op \in {"div", "rem"} -> GenDiv(k.op, k.ty)
      [] k.op \in {"and", "or", "xor"} -> GenBitwise(k.op, k.ty)
      [] k.op \in {"shl", "shr"} -> GenShift(k.op, k.ty, k.other)
      [] k.op \in Comparisons -> GenCmp(k.op, k.ty)
      [] k.op = "ext" -> GenExt(k.ty, k.other)
      [] k.op = "trunc" -> GenTrunc(k.ty, k.other)
      [] k.op = "ptr_cast" -> GenExt(Pointer, Pointer)
      [] k.op = "load" -> GenLoad(k.ty)
      [] k.op = "store" -> GenStore(k.ty)
      [] k.op = "ptr_offset" -> GenPtrOffset(k.other, k.size)
      [] k.op = "int_to_float" -> GenIntToFloat(k.ty, k.other)
      [] k.op = "float_to_int" -> GenFloatToInt(k.other)

-----------------------------------------------------------------------------
(* The processor                                                           *)

VARIABLES k,        \* the instruction that was lowered, never changes
          code, pc,
          regs, flags,
          slots,    \* memory: lhs, rhs, dst
          status    \* running, done, fault

vars == <<k, code, pc, regs, flags, slots, status>>

Ones == 2^W64 - 1

\* Memory that starts with value n of so many bits; what follows it is arbitrary.
Window(n, bits) == Above(Ones, bits) + n

SlotOf(n, t) == IF IsFloat(t) THEN n ELSE Window(n, WidthOf(t.bits))

\* The types of the operands.
LeftType == IF k.op \in {"load", "store"} THEN Pointer ELSE k.ty
RightType == IF k.op \in {"shl", "shr", "ptr_offset"} THEN k.other ELSE k.ty

Init ==
    /\ \E some \in Instructions : k \in some
    /\ code = Code(k) /\ pc = 1
    /\ regs = [r \in {"rax", "rcx", "rdx", "xmm0", "xmm1"} |-> Ones]
    /\ flags = {}
    /\ slots = [lhs |-> SlotOf(k.l, LeftType), rhs |-> SlotOf(k.r, RightType), dst |-> Ones]
    /\ status = "running"

At(i) == status = "running" /\ pc \in DOMAIN code /\ code[pc].i = i
I == code[pc]
Next1 == pc' = pc + 1 /\ UNCHANGED <<k, code, status>>

\* Writing 32 bits of a register clears the upper ones, writing fewer keeps them.
Written(old, width, n) ==
    IF width >= W32 THEN U(n, width) ELSE Above(old, width) + U(n, width)

ValueOf(src) == IF src[1] = "reg" THEN regs[src[2]] ELSE U(src[2], W64)

Sets(reg, n) == Next1 /\ regs' = [regs EXCEPT ![reg] = n] /\ UNCHANGED slots

Load ==
    /\ At("load")
    /\ LET n == U(slots[I.slot], I.width)
       IN  Sets(I.dst, IF I.signed THEN U(S(n, I.width), W64) ELSE n)
    /\ UNCHANGED flags

Store ==
    /\ At("store")
    /\ slots' = [slots EXCEPT ![I.slot] = Above(@, I.width) + U(regs[I.src], I.width)]
    /\ Next1 /\ UNCHANGED <<regs, flags>>

Move ==
    /\ At("mov")
    /\ Sets(I.dst, ValueOf(I.src))
    /\ UNCHANGED flags

Computed(op, a, b) ==
    CASE op = "add" -> a + b [] op = "sub" -> a - b [] op = "mul" -> a * b
      [] op = "and" -> a & b [] op = "or" -> a | b [] op = "xor" -> a ^^ b

Arithmetic ==
    /\ At("alu")
    /\ LET n == Computed(I.op, U(regs[I.dst], I.width), U(ValueOf(I.src), I.width))
       IN  Sets(I.dst, Written(regs[I.dst], I.width, n))
    /\ flags' = {}

Multiply ==
    /\ At("imul")
    /\ Sets(I.dst, U(regs[I.dst] * ValueOf(I.src), W64))
    /\ flags' = {}

SignOf(reg) == IF S(regs[reg], W64) < 0 THEN Ones ELSE 0

Extend ==
    /\ At("cqo")
    /\ Sets("rdx", SignOf("rax"))
    /\ UNCHANGED flags

Abs(n) == IF n < 0 THEN -n ELSE n
Quotient(a, b) == IF (a < 0) = (b < 0) THEN Abs(a) \div Abs(b) ELSE -(Abs(a) \div Abs(b))

Div ==
    /\ At("div")
    /\ LET wide == regs["rdx"] * 2^W64 + regs["rax"]
           a == IF I.signed THEN S(wide, 2 * W64) ELSE wide
           b == IF I.signed THEN S(regs["rcx"], W64) ELSE regs["rcx"]
           q == Quotient(a, b)
           fits == IF I.signed THEN q \in -2^(W64 - 1)..2^(W64 - 1) - 1 ELSE q \in 0..Ones
       IN  IF b = 0 \/ ~fits
           THEN status' = "fault" /\ UNCHANGED <<k, code, pc, regs, flags, slots>>
           ELSE /\ regs' = [regs EXCEPT !["rax"] = U(q, W64), !["rdx"] = U(a - q * b, W64)]
                /\ flags' = {}
                /\ Next1 /\ UNCHANGED slots

Shifts ==
    /\ At("shift")
    /\ LET count == ValueOf(I.src) % W64
           n == regs[I.dst]
       IN  Sets(I.dst, CASE I.op = "shl" -> U(n * 2^count, W64)
                         [] I.op = "shr" -> n \div 2^count
                         [] I.op = "sar" -> U(S(n, W64) \div 2^count, W64))
    /\ flags' = {}

Flags(b, l, e, s, p) ==
    {f \in {"b", "l", "e", "s", "p"} :
       CASE f = "b" -> b [] f = "l" -> l [] f = "e" -> e [] f = "s" -> s [] f = "p" -> p}

Compares ==
    /\ At("cmp")
    /\ LET a == regs[I.a]
           b == ValueOf(I.src)
       IN  flags' = Flags(a < b, S(a, W64) < S(b, W64), a = b, S(U(a - b, W64), W64) < 0, FALSE)
    /\ Next1 /\ UNCHANGED <<regs, slots>>

Tests ==
    /\ At("test")
    /\ flags' = Flags(FALSE, FALSE, regs[I.a] = 0, S(regs[I.a], W64) < 0, FALSE)
    /\ Next1 /\ UNCHANGED <<regs, slots>>

Unordered(a, b) == a = NaN \/ b = NaN

ComparesFloats ==
    /\ At("ucomi")
    /\ LET a == regs["xmm0"]
           b == regs[I.b]
       IN  flags' = IF Unordered(a, b) THEN {"e", "b", "p"}
                    ELSE Flags(a < b, FALSE, a = b, FALSE, FALSE)
    /\ Next1 /\ UNCHANGED <<regs, slots>>

Holds(cond) ==
    CASE cond = "always" -> TRUE
      [] cond \in {"e", "b", "l", "s", "p"} -> cond \in flags
      [] cond = "ne" -> "e" \notin flags
      [] cond = "np" -> "p" \notin flags
      [] cond = "ae" -> "b" \notin flags
      [] cond = "ge" -> "l" \notin flags
      [] cond = "be" -> flags \cap {"b", "e"} # {}
      [] cond = "le" -> flags \cap {"l", "e"} # {}
      [] cond = "a" -> flags \cap {"b", "e"} = {}
      [] cond = "g" -> flags \cap {"l", "e"} = {}

SetsByte ==
    /\ At("setcc")
    /\ Sets(I.dst, Written(regs[I.dst], W8, IF Holds(I.cond) THEN 1 ELSE 0))
    /\ UNCHANGED flags

Position(label) == CHOOSE p \in DOMAIN code : code[p] = Label(label)

Jumps ==
    /\ At("jump")
    /\ pc' = IF Holds(I.cond) THEN Position(I.label) ELSE pc + 1
    /\ UNCHANGED <<k, code, regs, flags, slots, status>>

Passes ==
    /\ At("label")
    /\ Next1 /\ UNCHANGED <<regs, flags, slots>>

MovesFloat ==
    /\ \/ At("fload") /\ Sets(I.dst, slots[I.slot])
       \/ At("fimm") /\ Sets("xmm1", I.value)
       \/ /\ At("fstore")
          /\ slots' = [slots EXCEPT !["dst"] = regs["xmm0"]]
          /\ Next1 /\ UNCHANGED regs
    /\ UNCHANGED flags

\* Sums are exact wherever the conversions need them; otherwise what floats come to is
\* not looked at.
FloatOf(op, a, b) ==
    IF op = "add" /\ ~Unordered(a, b) THEN a + b
    ELSE IF op = "sub" /\ ~Unordered(a, b) THEN a - b
    ELSE <<op, a, b>>

ComputesFloat ==
    /\ At("farith")
    /\ Sets("xmm0", FloatOf(I.op, regs["xmm0"], regs[I.src]))
    /\ UNCHANGED flags

\* n >= 0 to so many significant bits, ties to even.
RoundedNat(n, significand) ==
    LET e == CHOOSE x \in 0..W64 :
               n < 2^(significand + x) /\ (x = 0 \/ n >= 2^(significand + x - 1))
        q == n \div 2^e
        rest == 2 * (n % 2^e)
    IN  2^e * (IF rest > 2^e \/ (rest = 2^e /\ q % 2 = 1) THEN q + 1 ELSE q)
Rounded(n, significand) ==
    IF n < 0 THEN -RoundedNat(-n, significand) ELSE RoundedNat(n, significand)

ConvertsInt ==
    /\ At("cvtsi2f")
    /\ Sets("xmm0", 2 * Rounded(S(regs[I.src], W64), I.significand))
    /\ UNCHANGED flags

Whole(x) == Quotient(x, 2)                                  \* of x halves

ConvertsFloat ==
    /\ At("cvttsd2si")
    /\ LET x == regs["xmm0"]
       IN  Sets("rax", IF x # NaN /\ Whole(x) \in -2^(W64 - 1)..2^(W64 - 1) - 1
                       THEN U(Whole(x), W64) ELSE 2^(W64 - 1))
    /\ UNCHANGED flags

Ends ==
    /\ status = "running" /\ pc \notin DOMAIN code
    /\ status' = "done"
    /\ UNCHANGED <<k, code, pc, regs, flags, slots>>

Next ==
    \/ Load \/ Store \/ Move \/ Arithmetic \/ Multiply \/ Extend \/ Div \/ Shifts
    \/ Compares \/ Tests \/ ComparesFloats \/ SetsByte \/ Jumps \/ Passes
    \/ MovesFloat \/ ComputesFloat \/ ConvertsInt \/ ConvertsFloat \/ Ends

Spec == Init /\ [][Next]_vars

-----------------------------------------------------------------------------
(* What an instruction means (SPECIFICATION.md, sections 7 to 9)           *)

Num(n, t) == IF t.signed THEN S(n, t.bits) ELSE n

Saturated(x, t) ==
    LET least == IF t.signed THEN -2^(t.bits - 1) ELSE 0
        most == IF t.signed THEN 2^(t.bits - 1) - 1 ELSE 2^t.bits - 1
    IN  IF x = NaN THEN 0 ELSE IF Whole(x) < least THEN least ELSE IF Whole(x) > most THEN most
        ELSE Whole(x)

\* The truth of a comparison; NaN is not equal to anything, and in no order.
Compared(op, t, l, r) ==
    LET a == IF IsFloat(t) THEN l ELSE Num(l, t)
        b == IF IsFloat(t) THEN r ELSE Num(r, t)
    IN  IF IsFloat(t) /\ Unordered(l, r) THEN op = "ne"
        ELSE CASE op = "eq" -> a = b [] op = "ne" -> a # b [] op = "lt" -> a < b
               [] op = "le" -> a <= b [] op = "gt" -> a > b [] op = "ge" -> a >= b

ResultBits ==
    IF k.op \in Comparisons THEN 1
    ELSE IF k.op \in {"ext", "trunc", "float_to_int"} THEN k.other.bits ELSE k.ty.bits

\* i1 holds 0 or 1, also as an offset.
Meaning ==
    LET t == k.ty
        by == IF k.r > t.bits THEN t.bits ELSE k.r
    IN  U(CASE k.op \in {"const", "ptr_cast"} -> k.l
            [] k.op \in {"load", "store"} -> k.r
            [] k.op \in {"add", "sub", "mul", "and", "or", "xor"} -> Computed(k.op, k.l, k.r)
            [] k.op = "div" -> Quotient(Num(k.l, t), Num(k.r, t))
            [] k.op = "rem" -> Num(k.l, t) - Num(k.r, t) * Quotient(Num(k.l, t), Num(k.r, t))
            [] k.op = "shl" -> k.l * 2^by
            [] k.op = "shr" -> Num(k.l, t) \div 2^by
            [] k.op \in Comparisons ->
                 IF Compared(k.op, t, k.l, k.r) THEN 1 ELSE 0
            [] k.op = "ext" -> Num(k.l, t)
            [] k.op = "trunc" -> k.l
            [] k.op = "ptr_offset" ->
                 k.l + k.size * (IF k.other.bits = 1 THEN k.r ELSE S(k.r, k.other.bits))
            [] k.op = "float_to_int" -> Saturated(k.l, k.other), ResultBits)

FloatMeaning ==
    CASE k.op \in {"load", "store"} -> k.r
      [] k.op = "int_to_float" -> 2 * Rounded(Num(k.l, k.ty), Significand(k.other))
      [] OTHER -> FloatOf(k.op, k.l, k.r)

GivesFloat ==
    \/ k.op = "int_to_float"
    \/ IsFloat(k.ty) /\ k.op \notin Comparisons \cup {"float_to_int"}

\* The slot of the result, and nothing else, holds what the instruction means, with i1
\* as 0 or 1 (codegen.rs:653-1399), whatever the registers held; and the processor
\* faults exactly on an integer division by zero, not on the least number by -1.
ComputesMeaning ==
    LET byZero == k.op \in {"div", "rem"} /\ ~IsFloat(k.ty) /\ k.r = 0
        result == IF GivesFloat THEN FloatMeaning ELSE Window(Meaning, WidthOf(ResultBits))
    IN  /\ status = "fault" => byZero
        /\ status = "done" => /\ ~byZero
                              /\ slots = [lhs |-> SlotOf(k.l, LeftType),
                                          rhs |-> SlotOf(k.r, RightType), dst |-> result]
=============================================================================
