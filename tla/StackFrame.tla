----------------------------- MODULE StackFrame -----------------------------
(***************************************************************************)
(* How FuncGen::build of astronomy-x86/src/codegen.rs lays out the stack   *)
(* frame of a function: one slot after the other downwards from rbp, for   *)
(* the values of the arena, then the storage of every alloca, then the     *)
(* scratch slots of the block parameters; below them the outgoing area, as *)
(* large as the stack arguments of the largest call.                       *)
(*                                                                         *)
(* A slot is requested for a type; only its size and alignment matter.     *)
(***************************************************************************)
EXTENDS Align, Sequences

CONSTANT I32Max         \* displacements and immediates are signed 32-bit

Alignments == {1, 2, 4, 8, 16}
Request == [size : Nat \cup {Overflow}, align : Alignments]

\* What build finds in a function.  slots: the requests in the order it makes them;
\* calls: for every call the stack bytes plan_types assigns to its arguments.
Shape == [slots : Seq(Request), calls : Seq(Nat)]

ASSUME StackFrameAssumption == I32Max \in Nat /\ U64Max \in Nat

VARIABLES fn,          \* the function, never changes
          disp,        \* displacement of every slot reserved so far
          used,        \* bytes reserved below rbp
          planned,     \* calls looked at so far
          outgoing,    \* size of the outgoing area (max_stack)
          frameSize,
          phase        \* slots, calls, done, refused

frameVars == <<fn, disp, used, planned, outgoing, frameSize, phase>>

FrameInit ==
    /\ fn \in Shape
    /\ disp = <<>> /\ used = 0
    /\ planned = 0 /\ outgoing = 0
    /\ frameSize = 0
    /\ phase = "slots"

\* A definition named ...Bug makes one plausible mistake in the definition that
\* follows it.  No specification uses it; it shows that a property would notice.

Next1 == Len(disp) + 1                        \* the next slot to reserve

\* Where the next slot ends, counted down from rbp.
EndBug == CheckedAdd(used, fn.slots[Next1].size)       \* packs the slots
End == LET r == fn.slots[Next1] IN AlignUp(CheckedAdd(used, r.size), r.align)

Fits == End # Overflow /\ End <= I32Max - (I32Max % 16)        \* i32::MAX & !15

ReserveBug ==                                  \* forgets the padding of the slot
    /\ phase = "slots" /\ Next1 <= Len(fn.slots)
    /\ Fits
    /\ used' = used + fn.slots[Next1].size
    /\ disp' = Append(disp, -End)
    /\ UNCHANGED <<fn, planned, outgoing, frameSize, phase>>
\* reserve_slot
Reserve ==
    /\ phase = "slots" /\ Next1 <= Len(fn.slots)
    /\ Fits
    /\ used' = End
    /\ disp' = Append(disp, -End)
    /\ UNCHANGED <<fn, planned, outgoing, frameSize, phase>>

RefuseSlot ==
    /\ phase = "slots" /\ Next1 <= Len(fn.slots)
    /\ ~Fits
    /\ phase' = "refused"
    /\ UNCHANGED <<fn, disp, used, planned, outgoing, frameSize>>

SlotsReserved ==
    /\ phase = "slots" /\ Next1 > Len(fn.slots)
    /\ phase' = "calls"
    /\ UNCHANGED <<fn, disp, used, planned, outgoing, frameSize>>

LargerOfBug(m, n) == n                          \* the last call decides
LargerOf(m, n) == IF n > m THEN n ELSE m

\* One turn of the loop over the calls.
PlanCall ==
    /\ phase = "calls" /\ planned < Len(fn.calls)
    /\ planned' = planned + 1
    /\ outgoing' = LargerOf(outgoing, fn.calls[planned + 1])
    /\ UNCHANGED <<fn, disp, used, frameSize, phase>>

FrameBytes == CheckedAdd(AlignUp(used, 16), AlignUp(outgoing, 16))

CallsPlanned == phase = "calls" /\ planned = Len(fn.calls)

SetFrameSize ==
    /\ CallsPlanned
    /\ FrameBytes # Overflow /\ FrameBytes <= I32Max
    /\ frameSize' = FrameBytes
    /\ phase' = "done"
    /\ UNCHANGED <<fn, disp, used, planned, outgoing>>

RefuseFrame ==
    /\ CallsPlanned
    /\ FrameBytes = Overflow \/ FrameBytes > I32Max
    /\ phase' = "refused"
    /\ UNCHANGED <<fn, disp, used, planned, outgoing, frameSize>>

FrameNext ==
    \/ Reserve \/ RefuseSlot \/ SlotsReserved
    \/ PlanCall \/ SetFrameSize \/ RefuseFrame

FrameSpec == FrameInit /\ [][FrameNext]_frameVars

-----------------------------------------------------------------------------
Size(i) == fn.slots[i].size

FrameTypeOK ==
    /\ fn \in Shape
    /\ disp \in Seq(Int) /\ Len(disp) <= Len(fn.slots)
    /\ used \in Nat
    /\ planned \in 0..Len(fn.calls)
    /\ outgoing \in Nat
    /\ frameSize \in 0..I32Max
    /\ phase \in {"slots", "calls", "done", "refused"}

\* No two slots share a byte, so storing one value, or copying a whole aggregate
\* with rep movsb, never changes another (codegen.rs:350-367, 378-408).
SlotsDisjoint ==
    \A i, j \in DOMAIN disp : i < j => disp[j] + Size(j) <= disp[i]

\* rbp is 16-byte aligned, so a slot is aligned for its type if its displacement
\* is: what alloca hands out may be used by any load or store (codegen.rs:353).
SlotsAligned == \A i \in DOMAIN disp : disp[i] % fn.slots[i].align = 0

\* The frame that sub rsp makes reaches below every slot and leaves the outgoing
\* area of every call free under them; rsp stays 16-byte aligned for the callee,
\* and no displacement leaves its 32 bits (codegen.rs:410-432).
OutgoingBelowSlots ==
    phase = "done" =>
      /\ frameSize % 16 = 0 /\ frameSize <= I32Max
      /\ \A i \in DOMAIN fn.slots :
           \A c \in DOMAIN fn.calls : -frameSize + fn.calls[c] <= disp[i]
      /\ \A i \in DOMAIN fn.slots : -frameSize <= disp[i] /\ disp[i] + Size(i) <= 0
=============================================================================
