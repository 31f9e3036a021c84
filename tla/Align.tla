------------------------------- MODULE Align --------------------------------
(* Unsigned 64-bit arithmetic as astronomy-x86 does it: an operation that   *)
(* leaves the range gives no result.                                        *)
EXTENDS Integers

CONSTANT U64Max

Overflow == -1                                \* None

InRange(n) == IF n > U64Max THEN Overflow ELSE n

CheckedAdd(a, b) == IF Overflow \in {a, b} THEN Overflow ELSE InRange(a + b)
CheckedMul(a, b) == IF Overflow \in {a, b} THEN Overflow ELSE InRange(a * b)

\* align is a power of two: masking its low bits rounds down to a multiple.
AlignUp(value, align) ==
    LET top == CheckedAdd(value, align - 1)
    IN  IF top = Overflow THEN Overflow ELSE top - (top % align)
=============================================================================
