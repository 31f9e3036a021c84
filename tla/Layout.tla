------------------------------- MODULE Layout -------------------------------
(***************************************************************************)
(* Sizes, alignments and field offsets of types on x86-64, and where the   *)
(* System V convention passes the arguments of a call                      *)
(* (astronomy-x86/src/layout.rs, codegen.rs plan_types).                   *)
(*                                                                         *)
(* A type is an index of Types; its fields and its element are types with  *)
(* a smaller index.                                                        *)
(***************************************************************************)
EXTENDS Align, Sequences, SequencesExt, FiniteSetsExt

CONSTANTS Types,       \* type data by index: see TypeShape
          GpArgs,      \* the integer argument registers, in order (GP_ARGS)
          SseArgs      \* number of SSE argument registers

TypeIds == DOMAIN Types

TypeShape(t) ==
    CASE Types[t].tag = "Int" -> Types[t].bits \in Nat
      [] Types[t].tag = "Float" -> Types[t].bits \in {32, 64}
      [] Types[t].tag = "Array" -> Types[t].element \in 1..(t - 1) /\ Types[t].length \in Nat
      [] Types[t].tag = "Struct" -> Types[t].fields \in Seq(1..(t - 1))
      [] OTHER -> Types[t].tag \in {"Pointer", "Void", "Function"}

ASSUME LayoutAssumption ==
    /\ U64Max \in Nat /\ SseArgs \in Nat
    /\ \A t \in TypeIds : TypeShape(t)

IntBytes(bits) == LET n == (bits + 7) \div 8 IN IF n = 0 THEN 1 ELSE n

IntAlign(bits) ==
    CASE bits <= 8 -> 1 [] bits <= 16 -> 2 [] bits <= 32 -> 4 [] bits <= 64 -> 8
      [] OTHER -> 16

IsAggregate(t) == Types[t].tag \in {"Struct", "Array"}

\* check_supported
Supported[t \in TypeIds] ==
    LET data == Types[t]
    IN  CASE data.tag = "Int" -> data.bits \in {1, 8, 16, 32, 64}
          [] data.tag \in {"Float", "Pointer"} -> TRUE
          [] data.tag = "Array" -> Supported[data.element]
          [] data.tag = "Struct" -> \A i \in DOMAIN data.fields : Supported[data.fields[i]]
          [] OTHER -> FALSE

AlignOf[t \in TypeIds] ==
    LET data == Types[t]
    IN  CASE data.tag = "Int" -> IntAlign(data.bits)
          [] data.tag = "Float" -> data.bits \div 8
          [] data.tag = "Pointer" -> 8
          [] data.tag = "Array" -> AlignOf[data.element]
          [] data.tag = "Struct" ->
               Max({1} \cup {AlignOf[data.fields[i]] : i \in DOMAIN data.fields})
          [] OTHER -> 1

\* A definition named ...Bug makes one plausible mistake in the definition that
\* follows it.  No specification uses it; it shows that a property would notice.

\* Offset of the next field after `end` bytes of the struct are taken.
PlaceFieldBug(end, t) == end
PlaceField(end, t) == AlignUp(end, AlignOf[t])

SizeOf[t \in TypeIds] ==
    LET data == Types[t]
        \* End of the i-th field (struct_layout before the final padding).
        end[i \in 0..(IF data.tag = "Struct" THEN Len(data.fields) ELSE 0)] ==
          IF i = 0 THEN 0
          ELSE CheckedAdd(PlaceField(end[i - 1], data.fields[i]), SizeOf[data.fields[i]])
    IN  CASE data.tag = "Int" -> IntBytes(data.bits)
          [] data.tag = "Float" -> data.bits \div 8
          [] data.tag = "Pointer" -> 8
          [] data.tag = "Array" -> CheckedMul(SizeOf[data.element], data.length)
          [] data.tag = "Struct" -> AlignUp(end[Len(data.fields)], AlignOf[t])
          [] OTHER -> 0

\* Fields are counted from 0, as in the source.
FieldType(t, i) ==
    IF Types[t].tag = "Array" THEN Types[t].element ELSE Types[t].fields[i + 1]

FieldCount(t) ==
    IF Types[t].tag = "Array" THEN Types[t].length ELSE Len(Types[t].fields)

FieldOffset(t, i) ==
    LET fields == Types[t].fields
        offset[n \in 0..i] ==
          IF n = 0 THEN 0
          ELSE PlaceField(CheckedAdd(offset[n - 1], SizeOf[fields[n]]), fields[n + 1])
    IN  IF Types[t].tag = "Array" THEN CheckedMul(SizeOf[Types[t].element], i)
        ELSE offset[i]

-----------------------------------------------------------------------------
(* Where arguments of the given types are passed.                           *)

IsFloat(t) == Types[t].tag = "Float"

\* plan_types takes pointers, integers and floats only.
Passable(types) ==
    \A i \in DOMAIN types : /\ Types[types[i]].tag \in {"Int", "Float", "Pointer"}
                            /\ Supported[types[i]]

InReg(r) == [in |-> "reg", reg |-> r]
InXmm(n) == [in |-> "xmm", reg |-> n]
OnStack(offset) == [in |-> "stack", offset |-> offset]

Earlier(types, i, float) ==
    Cardinality({j \in 1..(i - 1) : IsFloat(types[j]) = float})

\* How many of the arguments before the i-th went to the stack.
SpilledBefore(types, i) ==
    Max({0, Earlier(types, i, FALSE) - Len(GpArgs)})
      + Max({0, Earlier(types, i, TRUE) - SseArgs})

\* Integer and SSE registers are counted apart, the stack is shared.
PlanTypes(types) ==
    [i \in DOMAIN types |->
       CASE IsFloat(types[i]) /\ Earlier(types, i, TRUE) < SseArgs ->
              InXmm(Earlier(types, i, TRUE))
         [] ~IsFloat(types[i]) /\ Earlier(types, i, FALSE) < Len(GpArgs) ->
              InReg(GpArgs[Earlier(types, i, FALSE) + 1])
         [] OTHER -> OnStack(8 * SpilledBefore(types, i))]

StackBytes(types) == 8 * SpilledBefore(types, Len(types) + 1)
=============================================================================
