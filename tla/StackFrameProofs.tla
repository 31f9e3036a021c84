-------------------------- MODULE StackFrameProofs --------------------------
(* The frame of every function, whatever its slots and calls, is laid out   *)
(* soundly: theorems about StackFrame for every value of its constants.     *)
EXTENDS StackFrame, TLAPS

\* What reserving and planning keep true; each theorem below reads off a part.
Placed ==
    \A i \in DOMAIN disp :
      Size(i) \in Nat /\ -used <= disp[i] /\ disp[i] + Size(i) <= 0
CallsHeld == \A c \in 1..planned : fn.calls[c] <= outgoing
Complete ==
    /\ phase \in {"calls", "done"} => Len(disp) = Len(fn.slots)
    /\ phase = "done" => /\ planned = Len(fn.calls)
                         /\ frameSize = FrameBytes
                         /\ FrameBytes # Overflow

FrameInv ==
    FrameTypeOK /\ Placed /\ SlotsDisjoint /\ SlotsAligned /\ CallsHeld /\ Complete

\* align_up returns the least multiple of align that is not below value, or nothing.
LEMMA AlignUpBounds ==
    ASSUME NEW value \in Nat, NEW align \in Alignments,
           AlignUp(value, align) # Overflow
    PROVE  /\ AlignUp(value, align) \in Nat
           /\ value <= AlignUp(value, align)
           /\ AlignUp(value, align) % align = 0
           /\ (-AlignUp(value, align)) % align = 0
<1> DEFINE top == value + (align - 1)
<1>1. top \in Nat /\ top # Overflow
  BY DEF Alignments, Overflow
<1>2. CheckedAdd(value, align - 1) = InRange(top)
  BY DEF CheckedAdd, Alignments, Overflow
<1>3. InRange(top) # Overflow /\ InRange(top) = top
  BY <1>1, <1>2 DEF AlignUp, InRange
<1>4. AlignUp(value, align) = top - (top % align)
  BY <1>1, <1>2, <1>3 DEF AlignUp
<1> HIDE DEF top
<1>5. top = value + (align - 1)
  BY DEF top
<1>6. CASE align = 1  BY <1>1, <1>4, <1>5, <1>6
<1>7. CASE align = 2  BY <1>1, <1>4, <1>5, <1>7
<1>8. CASE align = 4  BY <1>1, <1>4, <1>5, <1>8
<1>9. CASE align = 8  BY <1>1, <1>4, <1>5, <1>9
<1>10. CASE align = 16  BY <1>1, <1>4, <1>5, <1>10
<1> QED  BY <1>6, <1>7, <1>8, <1>9, <1>10 DEF Alignments

\* A checked sum is the sum, or nothing.
LEMMA CheckedAddSum ==
    ASSUME NEW a \in Nat \cup {Overflow}, NEW b \in Nat \cup {Overflow},
           CheckedAdd(a, b) # Overflow
    PROVE  a \in Nat /\ b \in Nat /\ CheckedAdd(a, b) = a + b
BY DEF CheckedAdd, InRange, Overflow

\* What build finds in the function has the shape the rest relies on.
LEMMA FunctionShape ==
    ASSUME fn \in Shape
    PROVE  /\ fn.slots \in Seq(Request) /\ fn.calls \in Seq(Nat)
           /\ I32Max \in Nat
BY StackFrameAssumption DEF Shape

\* The slot that reserve_slot adds lies below all others and is aligned.
LEMMA ReserveSound ==
    ASSUME FrameTypeOK, Placed, Reserve
    PROVE  /\ used' \in Nat /\ used <= used'
           /\ Size(Next1) \in Nat
           /\ disp' \in Seq(Int) /\ Len(disp') = Next1
           /\ \A i \in DOMAIN disp : disp'[i] = disp[i]
           /\ disp'[Next1] = -used'
           /\ disp'[Next1] + Size(Next1) <= -used
           /\ disp'[Next1] % fn.slots[Next1].align = 0
<1> DEFINE r == fn.slots[Next1]
<1>1. fn.slots \in Seq(Request) /\ disp \in Seq(Int) /\ used \in Nat
  BY FunctionShape DEF FrameTypeOK
<1>2. Next1 \in 1..Len(fn.slots) /\ Len(disp) \in Nat
  BY <1>1 DEF Reserve, Next1
<1>3. r \in Request
  BY <1>1, <1>2
<1>4. r.size \in Nat \cup {Overflow} /\ r.align \in Alignments
  BY <1>3 DEF Request
<1>5. End # Overflow /\ End = AlignUp(CheckedAdd(used, r.size), r.align)
  BY DEF Reserve, Fits, End
<1>6. CheckedAdd(used, r.size) # Overflow
  <2> SUFFICES ASSUME CheckedAdd(used, r.size) = Overflow PROVE FALSE
    OBVIOUS
  <2>1. CheckedAdd(Overflow, r.align - 1) = Overflow
    BY DEF CheckedAdd
  <2> QED  BY <1>5, <2>1 DEF AlignUp
<1>7. r.size \in Nat /\ CheckedAdd(used, r.size) = used + r.size
  BY <1>1, <1>4, <1>6, CheckedAddSum
<1> HIDE DEF r
<1>8. End = AlignUp(used + r.size, r.align) /\ used + r.size \in Nat
  BY <1>1, <1>5, <1>7
<1>9. End \in Nat /\ used + r.size <= End /\ (-End) % r.align = 0
  BY <1>4, <1>5, <1>8, AlignUpBounds
<1>10. used' = End /\ disp' = Append(disp, -End)
  BY DEF Reserve
<1>11. /\ disp' \in Seq(Int) /\ Len(disp') = Next1 /\ disp'[Next1] = -End
       /\ \A i \in DOMAIN disp : disp'[i] = disp[i]
  BY <1>1, <1>9, <1>10 DEF Next1
<1>12. Size(Next1) = r.size /\ fn.slots[Next1] = r
  BY DEF Size, r
<1> QED  BY <1>1, <1>7, <1>9, <1>10, <1>11, <1>12

\* The frame is a multiple of 16 and holds the slots and the outgoing area.
LEMMA FrameBytesSound ==
    ASSUME used \in Nat, outgoing \in Nat, FrameBytes # Overflow
    PROVE  /\ FrameBytes \in Nat /\ FrameBytes % 16 = 0
           /\ used + outgoing <= FrameBytes
<1>1. AlignUp(used, 16) # Overflow /\ AlignUp(outgoing, 16) # Overflow
  BY DEF FrameBytes, CheckedAdd
<1>2. 16 \in Alignments
  BY DEF Alignments
<1>3. /\ AlignUp(used, 16) \in Nat /\ used <= AlignUp(used, 16)
      /\ AlignUp(used, 16) % 16 = 0
  BY <1>1, <1>2, AlignUpBounds
<1>4. /\ AlignUp(outgoing, 16) \in Nat /\ outgoing <= AlignUp(outgoing, 16)
      /\ AlignUp(outgoing, 16) % 16 = 0
  BY <1>1, <1>2, AlignUpBounds
<1>5. FrameBytes = AlignUp(used, 16) + AlignUp(outgoing, 16)
  BY <1>3, <1>4, CheckedAddSum DEF FrameBytes
<1> QED  BY <1>3, <1>4, <1>5

LEMMA FrameInvInit == FrameInit => FrameInv
<1> SUFFICES ASSUME FrameInit PROVE FrameInv
  OBVIOUS
<1>1. fn.slots \in Seq(Request) /\ fn.calls \in Seq(Nat) /\ I32Max \in Nat
  BY FunctionShape DEF FrameInit
<1>2. disp = <<>> /\ used = 0 /\ planned = 0 /\ outgoing = 0 /\ frameSize = 0
      /\ phase = "slots" /\ fn \in Shape
  BY DEF FrameInit
<1>3. FrameTypeOK  BY <1>1, <1>2 DEF FrameTypeOK
<1>4. Placed /\ SlotsDisjoint /\ SlotsAligned
  BY <1>2 DEF Placed, SlotsDisjoint, SlotsAligned
<1>5. CallsHeld /\ Complete  BY <1>2 DEF CallsHeld, Complete
<1> QED  BY <1>3, <1>4, <1>5 DEF FrameInv

\* A slot that ends where the frame was ends before every older slot begins.
LEMMA Below ==
    ASSUME NEW u \in Nat, NEW v \in Nat, NEW n \in Nat, NEW at \in Int,
           u <= v, at = -v, at + n <= -u
    PROVE  /\ -v <= at /\ at + n <= 0
           /\ \A b \in Int : -u <= b => at + n <= b /\ -v <= b
OBVIOUS

LEMMA ReserveKeeps == FrameInv /\ Reserve => FrameInv'
<1> SUFFICES ASSUME FrameInv, Reserve PROVE FrameInv'
  OBVIOUS
<1> USE DEF Size
<1>1. FrameTypeOK /\ Placed /\ SlotsDisjoint /\ SlotsAligned /\ CallsHeld
  BY DEF FrameInv
<1>2. fn.slots \in Seq(Request) /\ disp \in Seq(Int) /\ used \in Nat
      /\ Len(disp) \in Nat
  BY <1>1, FunctionShape DEF FrameTypeOK
<1>3. UNCHANGED <<fn, planned, outgoing, frameSize, phase>>
      /\ phase = "slots" /\ Next1 <= Len(fn.slots)
  BY DEF Reserve
<1>4. /\ used' \in Nat /\ used <= used' /\ Size(Next1) \in Nat
      /\ disp' \in Seq(Int) /\ Len(disp') = Next1
      /\ \A i \in DOMAIN disp : disp'[i] = disp[i]
      /\ disp'[Next1] = -used'
      /\ disp'[Next1] + Size(Next1) <= -used
      /\ disp'[Next1] % fn.slots[Next1].align = 0
  BY <1>1, ReserveSound
<1>5. DOMAIN disp = 1..Len(disp) /\ DOMAIN disp' = 1..Next1 /\ Next1 = Len(disp) + 1
      /\ DOMAIN disp' = DOMAIN disp \cup {Next1}
  BY <1>2, <1>4 DEF Next1
<1>6. \A i \in DOMAIN disp : disp[i] \in Int
  BY <1>2
<1>12. disp'[Next1] \in Int
  BY <1>4, <1>5
<1>13. /\ -used' <= disp'[Next1] /\ disp'[Next1] + Size(Next1) <= 0
       /\ \A b \in Int : -used <= b => disp'[Next1] + Size(Next1) <= b /\ -used' <= b
  BY <1>2, <1>4, <1>12, Below
<1>7. FrameTypeOK'
  BY <1>1, <1>3, <1>4 DEF FrameTypeOK
<1>8. Placed'
  <2> SUFFICES ASSUME NEW i \in DOMAIN disp'
               PROVE  /\ Size(i) \in Nat /\ -used' <= disp'[i]
                      /\ disp'[i] + Size(i) <= 0
    BY <1>3 DEF Placed
  <2>1. CASE i = Next1
    BY <1>4, <1>13, <2>1
  <2>2. CASE i \in DOMAIN disp
    <3>1. Size(i) \in Nat /\ -used <= disp[i] /\ disp[i] + Size(i) <= 0
      BY <1>1, <2>2 DEF Placed
    <3> QED  BY <1>4, <1>6, <1>13, <2>2, <3>1
  <2> QED  BY <1>5, <2>1, <2>2
<1>9. SlotsDisjoint'
  <2> SUFFICES ASSUME NEW i \in DOMAIN disp', NEW j \in DOMAIN disp', i < j
               PROVE  disp'[j] + Size(j) <= disp'[i]
    BY <1>3 DEF SlotsDisjoint
  <2>1. i \in DOMAIN disp
    BY <1>2, <1>5
  <2>2. CASE j = Next1
    <3>1. -used <= disp[i] /\ disp'[i] = disp[i] /\ disp[i] \in Int
      BY <1>1, <1>4, <1>6, <2>1 DEF Placed
    <3> QED  BY <1>13, <2>2, <3>1
  <2>3. CASE j \in DOMAIN disp
    BY <1>1, <1>4, <2>1, <2>3 DEF SlotsDisjoint
  <2> QED  BY <1>5, <2>2, <2>3
<1>10. SlotsAligned'
  BY <1>1, <1>3, <1>4, <1>5 DEF SlotsAligned
<1>11. CallsHeld' /\ Complete'
  BY <1>1, <1>3 DEF CallsHeld, Complete
<1> QED  BY <1>7, <1>8, <1>9, <1>10, <1>11 DEF FrameInv

LEMMA PlanCallKeeps == FrameInv /\ PlanCall => FrameInv'
<1> SUFFICES ASSUME FrameInv, PlanCall PROVE FrameInv'
  OBVIOUS
<1>1. FrameTypeOK /\ Placed /\ SlotsDisjoint /\ SlotsAligned /\ CallsHeld /\ Complete
  BY DEF FrameInv
<1>2. /\ UNCHANGED <<fn, disp, used, frameSize, phase>>
      /\ phase = "calls" /\ planned < Len(fn.calls) /\ planned' = planned + 1
      /\ outgoing' = LargerOf(outgoing, fn.calls[planned + 1])
  BY DEF PlanCall
<1>3. fn.calls \in Seq(Nat) /\ planned \in Nat /\ outgoing \in Nat
  BY <1>1, FunctionShape DEF FrameTypeOK
<1>4. planned + 1 \in 1..Len(fn.calls) /\ fn.calls[planned + 1] \in Nat
  BY <1>2, <1>3
<1>5. outgoing' \in Nat /\ outgoing <= outgoing' /\ fn.calls[planned + 1] <= outgoing'
  BY <1>2, <1>3, <1>4 DEF LargerOf
<1>6. FrameTypeOK'
  BY <1>1, <1>2, <1>4, <1>5 DEF FrameTypeOK
<1>7. Placed' /\ SlotsDisjoint' /\ SlotsAligned'
  BY <1>1, <1>2 DEF Placed, SlotsDisjoint, SlotsAligned, Size
<1>8. CallsHeld'
  <2> SUFFICES ASSUME NEW c \in 1..(planned + 1) PROVE fn.calls[c] <= outgoing'
    BY <1>2 DEF CallsHeld
  <2>1. CASE c = planned + 1
    BY <1>5, <2>1
  <2>2. CASE c \in 1..planned
    <3>1. fn.calls[c] <= outgoing
      BY <1>1, <2>2 DEF CallsHeld
    <3>2. fn.calls[c] \in Nat
      BY <1>3, <1>4, <2>2
    <3> QED  BY <1>3, <1>5, <3>1, <3>2
  <2> QED  BY <1>3, <2>1, <2>2
<1>9. Complete'
  BY <1>1, <1>2 DEF Complete
<1> QED  BY <1>6, <1>7, <1>8, <1>9 DEF FrameInv

\* The steps that only move on.
LEMMA OtherStepsKeep ==
    ASSUME FrameInv,
           RefuseSlot \/ SlotsReserved \/ SetFrameSize \/ RefuseFrame
    PROVE  FrameInv'
<1>1. FrameTypeOK /\ Placed /\ SlotsDisjoint /\ SlotsAligned /\ CallsHeld /\ Complete
  BY DEF FrameInv
<1>2. UNCHANGED <<fn, disp, used, planned, outgoing>>
  BY DEF RefuseSlot, SlotsReserved, SetFrameSize, RefuseFrame
<1>3. Placed' /\ SlotsDisjoint' /\ SlotsAligned' /\ CallsHeld'
  BY <1>1, <1>2 DEF Placed, SlotsDisjoint, SlotsAligned, CallsHeld, Size
<1>4. disp \in Seq(Int) /\ Len(disp) \in Nat /\ fn.slots \in Seq(Request)
      /\ I32Max \in Nat
  BY <1>1, FunctionShape DEF FrameTypeOK
<1>5. CASE RefuseSlot \/ RefuseFrame
  <2>1. FrameTypeOK' /\ Complete'
    BY <1>1, <1>2, <1>5 DEF FrameTypeOK, Complete, RefuseSlot, RefuseFrame
  <2> QED  BY <1>3, <2>1 DEF FrameInv
<1>6. CASE SlotsReserved
  <2>1. Len(disp) = Len(fn.slots)
    BY <1>1, <1>4, <1>6 DEF SlotsReserved, Next1, FrameTypeOK
  <2>2. FrameTypeOK' /\ Complete'
    BY <1>1, <1>2, <1>6, <2>1 DEF FrameTypeOK, Complete, SlotsReserved
  <2> QED  BY <1>3, <2>2 DEF FrameInv
<1>7. CASE SetFrameSize
  <2>1. FrameBytes # Overflow /\ FrameBytes <= I32Max /\ FrameBytes \in Nat
    <3>1. FrameBytes # Overflow /\ FrameBytes <= I32Max
      BY <1>7 DEF SetFrameSize
    <3>2. used \in Nat /\ outgoing \in Nat
      BY <1>1 DEF FrameTypeOK
    <3> QED  BY <3>1, <3>2, FrameBytesSound
  <2>2. FrameTypeOK'
    BY <1>1, <1>2, <1>4, <1>7, <2>1 DEF FrameTypeOK, SetFrameSize
  <2>3. FrameBytes' = FrameBytes
    BY <1>2 DEF FrameBytes
  <2>4. Complete'
    BY <1>1, <1>2, <1>7, <2>1, <2>3 DEF Complete, SetFrameSize, CallsPlanned
  <2> QED  BY <1>3, <2>2, <2>4 DEF FrameInv
<1> QED  BY <1>5, <1>6, <1>7

LEMMA FrameInvNext == FrameInv /\ [FrameNext]_frameVars => FrameInv'
<1> SUFFICES ASSUME FrameInv, [FrameNext]_frameVars PROVE FrameInv'
  OBVIOUS
<1>1. CASE Reserve  BY <1>1, ReserveKeeps
<1>2. CASE PlanCall  BY <1>2, PlanCallKeeps
<1>3. CASE RefuseSlot \/ SlotsReserved \/ SetFrameSize \/ RefuseFrame
  BY <1>3, OtherStepsKeep
<1>4. CASE UNCHANGED frameVars
  BY <1>4 DEF frameVars, FrameInv, FrameTypeOK, Placed, SlotsDisjoint, SlotsAligned,
              CallsHeld, Complete, Size, FrameBytes
<1> QED  BY <1>1, <1>2, <1>3, <1>4 DEF FrameNext

\* What build knows of the frame of a function holds for every function.
THEOREM FrameInvariant == FrameSpec => []FrameInv
BY FrameInvInit, FrameInvNext, PTL DEF FrameSpec

\* The state of build stays in its type: displacements fit 32 bits once a frame
\* is sized (codegen.rs:369-439).
THEOREM FrameTypes == FrameSpec => []FrameTypeOK
<1>1. FrameInv => FrameTypeOK  BY DEF FrameInv
<1> QED  BY <1>1, FrameInvariant, PTL

\* No two slots of a frame overlap, for every list of requests (codegen.rs:350-367).
THEOREM SlotsAreDisjoint == FrameSpec => []SlotsDisjoint
<1>1. FrameInv => SlotsDisjoint  BY DEF FrameInv
<1> QED  BY <1>1, FrameInvariant, PTL

\* Every slot has the alignment of its type (codegen.rs:353).
THEOREM SlotsAreAligned == FrameSpec => []SlotsAligned
<1>1. FrameInv => SlotsAligned  BY DEF FrameInv
<1> QED  BY <1>1, FrameInvariant, PTL

\* No stack argument of any call overlaps a slot, no slot lies outside the
\* frame, and rsp stays aligned (codegen.rs:410-432).
THEOREM OutgoingIsFree == FrameSpec => []OutgoingBelowSlots
<1>1. FrameInv => OutgoingBelowSlots
  <2> SUFFICES ASSUME FrameInv, phase = "done" PROVE OutgoingBelowSlots
    BY DEF OutgoingBelowSlots
  <2>1. FrameTypeOK /\ Placed /\ CallsHeld
    BY DEF FrameInv
  <2>2. Len(disp) = Len(fn.slots) /\ planned = Len(fn.calls) /\ frameSize = FrameBytes
        /\ FrameBytes # Overflow
    BY DEF FrameInv, Complete
  <2>3. fn.slots \in Seq(Request) /\ fn.calls \in Seq(Nat) /\ disp \in Seq(Int)
        /\ used \in Nat /\ outgoing \in Nat /\ frameSize \in 0..I32Max /\ I32Max \in Nat
    BY <2>1, FunctionShape DEF FrameTypeOK
  <2>4. frameSize \in Nat /\ frameSize % 16 = 0 /\ used + outgoing <= frameSize
    BY <2>2, <2>3, FrameBytesSound
  <2>5. DOMAIN disp = DOMAIN fn.slots /\ DOMAIN fn.calls = 1..planned
    BY <2>2, <2>3
  <2>6. \A i \in DOMAIN fn.slots : /\ disp[i] \in Int /\ -used <= disp[i]
                                   /\ disp[i] + Size(i) <= 0
    BY <2>1, <2>3, <2>5 DEF Placed
  <2>7. \A c \in DOMAIN fn.calls : fn.calls[c] \in Nat /\ fn.calls[c] <= outgoing
    <3>1. \A c \in DOMAIN fn.calls : fn.calls[c] \in Nat
      BY <2>3
    <3>2. \A c \in DOMAIN fn.calls : fn.calls[c] <= outgoing
      BY <2>1, <2>5 DEF CallsHeld
    <3> QED  BY <3>1, <3>2
  <2>8. \A i \in DOMAIN fn.slots :
          \A c \in DOMAIN fn.calls : -frameSize + fn.calls[c] <= disp[i]
    <3> SUFFICES ASSUME NEW i \in DOMAIN fn.slots, NEW c \in DOMAIN fn.calls
                 PROVE  -frameSize + fn.calls[c] <= disp[i]
      OBVIOUS
    <3>1. disp[i] \in Int /\ -used <= disp[i]
      BY <2>6
    <3>2. fn.calls[c] \in Nat /\ fn.calls[c] <= outgoing
      BY <2>7
    <3>3. used \in Nat /\ outgoing \in Nat
      BY <2>3
    <3> QED  BY <2>4, <3>1, <3>2, <3>3
  <2>9. \A i \in DOMAIN fn.slots : -frameSize <= disp[i] /\ disp[i] + Size(i) <= 0
    BY <2>3, <2>4, <2>6
  <2> QED  BY <2>3, <2>4, <2>8, <2>9 DEF OutgoingBelowSlots
<1> QED  BY <1>1, FrameInvariant, PTL
=============================================================================
