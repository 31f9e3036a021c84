-------------------------------- MODULE Relax --------------------------------
(***************************************************************************)
(* Branch sizing of the object encoder: relax of                           *)
(* astronomy-object/src/encode.rs.  Branches start in the 2-byte short     *)
(* form.  Sizing passes walk over the pieces of the section and give each  *)
(* branch the form its target seems to need, until a pass moves nothing or *)
(* the limit is reached; then a layout is computed and short branches that *)
(* do not reach are widened, until all do.                                 *)
(*                                                                         *)
(* One action is one turn of one of the code's loops.  Offsets are the     *)
(* code's (from 0), pieces are counted from 1.                             *)
(***************************************************************************)
EXTENDS Integers, Sequences

CONSTANTS Codes,            \* the sections to size, sequences of pieces
          Labels,           \* section-wide label numbers
          MinRel, MaxRel,   \* reach of a short branch, -128 and 127
          Limits            \* what MAX_PASSES may be

BytesPiece == [tag : {"Bytes"}, len : Nat]
LabelPiece == [tag : {"Label"}, label : Labels]
BranchPiece == [tag : {"Branch"}, cond : BOOLEAN, target : Labels]

ASSUME RelaxAssumption ==
    /\ Codes \subseteq Seq(BytesPiece \cup LabelPiece \cup BranchPiece)
    /\ MinRel \in Int /\ MaxRel \in Int
    /\ Limits \subseteq Nat \ {0}

\* Code generation emits a block's label at the head of the block, and any other label
\* where it takes a fresh number: no label is defined twice (codegen.rs:214, 558).
ASSUME LabelsDefinedOnce ==
    \A s \in Codes : \A p, q \in DOMAIN s :
      s[p].tag = "Label" /\ s[p] = s[q] => p = q

VARIABLES code,       \* never changes
          limit,      \* MAX_PASSES, never changes
          long,       \* piece -> whether it is a branch in the long form
          phase,      \* pass, lay, widen, done, failed
          i,          \* next piece
          at,         \* its offset
          seen,       \* label -> its latest definition, or Unknown
          previous,   \* what the pass before ended with
          resized, settled, passes,
          offsets,    \* piece -> its offset in the last layout; one more for the end
          labels,     \* label -> its offset in the last layout, or Unknown
          changed

input == <<code, limit>>
sizing == <<seen, previous, resized, settled, passes>>
layout == <<offsets, labels>>
vars == <<input, long, phase, i, at, sizing, layout, changed>>

Unknown == -1

Pieces == DOMAIN code
Branches == {p \in Pieces : code[p].tag = "Branch"}

Size(piece, isLong) ==
    CASE piece.tag = "Bytes" -> piece.len
      [] piece.tag = "Label" -> 0
      [] OTHER -> IF ~isLong THEN 2 ELSE IF piece.cond THEN 6 ELSE 5

\* fits_i8 of the displacement of a short branch at offset a.
Reaches(dest, a) == dest - (a + 2) \in MinRel..MaxRel

Init ==
    /\ code \in Codes /\ limit \in Limits
    /\ long = [p \in Pieces |-> FALSE]
    /\ phase = "pass"
    /\ i = 1 /\ at = 0
    /\ seen = [l \in Labels |-> Unknown]
    /\ previous = seen
    /\ resized = FALSE /\ settled = FALSE
    /\ passes = 0
    /\ offsets = [p \in 1..Len(code) + 1 |-> 0]
    /\ labels = [l \in Labels |-> Unknown]
    /\ changed = FALSE

Restart == i' = 1 /\ at' = 0

-----------------------------------------------------------------------------
(* Sizing passes                                                           *)

\* A definition named ...Bug makes one plausible mistake in the definition that
\* follows it.  No specification uses it; it shows that a property would notice.

Short(dest) == dest = Unknown \/ Reaches(dest, at)

PassLabel ==
    /\ phase = "pass" /\ i \in Pieces \ Branches
    /\ seen' = IF code[i].tag = "Label" THEN [seen EXCEPT ![code[i].label] = at] ELSE seen
    /\ at' = at + Size(code[i], long[i])
    /\ i' = i + 1
    /\ UNCHANGED <<input, long, phase, previous, resized, settled, passes, layout, changed>>

PassBranch ==
    /\ phase = "pass" /\ i \in Branches
    /\ LET isLong == ~Short(seen[code[i].target])
       IN  /\ long' = [long EXCEPT ![i] = isLong]
           /\ resized' = (resized \/ isLong # long[i])
           /\ at' = at + Size(code[i], isLong)
    /\ i' = i + 1
    /\ UNCHANGED <<input, phase, seen, previous, settled, passes, layout, changed>>

StableBug == ~resized                        \* labels may still have moved
Stable == ~resized /\ seen = previous

LastPassBug == passes = limit            \* one too many
LastPass == passes + 1 = limit

CarriedBug == previous                       \* what this pass found is forgotten
Carried == seen

EndPass ==
    /\ phase = "pass" /\ i \notin Pieces
    /\ settled' = Stable
    /\ previous' = Carried
    /\ seen' = Carried
    /\ resized' = FALSE
    /\ passes' = passes + 1
    /\ phase' = IF Stable \/ LastPass THEN "lay" ELSE "pass"
    /\ Restart
    /\ UNCHANGED <<input, long, layout, changed>>

-----------------------------------------------------------------------------
(* The grow-only loop                                                      *)

LayPiece ==
    /\ phase = "lay" /\ i \in Pieces
    /\ offsets' = [offsets EXCEPT ![i] = at]
    /\ labels' = IF code[i].tag = "Label" THEN [labels EXCEPT ![code[i].label] = at] ELSE labels
    /\ at' = at + Size(code[i], long[i])
    /\ i' = i + 1
    /\ UNCHANGED <<input, long, phase, sizing, changed>>

EndLayBug ==                                 \* changed is never cleared
    /\ phase = "lay" /\ i \notin Pieces
    /\ offsets' = [offsets EXCEPT ![i] = at]
    /\ phase' = "widen"
    /\ Restart
    /\ UNCHANGED <<input, long, sizing, labels, changed>>

EndLay ==
    /\ phase = "lay" /\ i \notin Pieces
    /\ offsets' = [offsets EXCEPT ![i] = at]
    /\ phase' = "widen"
    /\ changed' = FALSE
    /\ Restart
    /\ UNCHANGED <<input, long, sizing, labels>>

UndefinedBug(p) == labels[code[p].target] \in {Unknown, 0}   \* 0 taken for not set
Undefined(p) == labels[code[p].target] = Unknown

TooFarBug(p) == labels[code[p].target] - offsets[p] \notin MinRel..MaxRel   \* from its start
TooFar(p) == ~Reaches(labels[code[p].target], offsets[p])

\* A short branch: to an undefined label it ends everything, out of reach it grows.
WidenBranch ==
    /\ phase = "widen" /\ i \in Branches /\ ~long[i]
    /\ LET grow == ~Undefined(i) /\ TooFar(i)
       IN  /\ phase' = IF Undefined(i) THEN "failed" ELSE phase
           /\ long' = [long EXCEPT ![i] = grow]
           /\ changed' = (changed \/ grow)
    /\ i' = i + 1
    /\ UNCHANGED <<input, at, sizing, layout>>

WidenSkip ==
    /\ phase = "widen" /\ i \in Pieces
    /\ i \in Branches => long[i]
    /\ i' = i + 1
    /\ UNCHANGED <<input, long, phase, at, sizing, layout, changed>>

\* Lay out again if something grew; else look for branches to undefined labels (a
\* branch to one stays short, so that WidenBranch has found it already).
EndWiden ==
    /\ phase = "widen" /\ i \notin Pieces
    /\ phase' = IF changed THEN "lay"
                ELSE IF \E p \in Branches : Undefined(p) THEN "failed"
                ELSE "done"
    /\ Restart
    /\ UNCHANGED <<input, long, sizing, layout, changed>>

Relaxing ==
    \/ PassLabel \/ PassBranch \/ EndPass
    \/ LayPiece \/ EndLay
    \/ WidenBranch \/ WidenSkip \/ EndWiden

Returned == phase \in {"done", "failed"} /\ UNCHANGED vars

Next == Relaxing \/ Returned

Spec == Init /\ [][Next]_vars

\* Sequential code keeps running until it returns.
FairSpec == Spec /\ WF_vars(Relaxing)

-----------------------------------------------------------------------------
(* Properties                                                              *)

\* Types of the variables.
TypeOK ==
    /\ code \in Codes /\ limit \in Limits
    /\ long \in [Pieces -> BOOLEAN]
    /\ phase \in {"pass", "lay", "widen", "done", "failed"}
    /\ i \in 1..Len(code) + 1 /\ at \in Nat
    /\ seen \in [Labels -> Nat \cup {Unknown}] /\ previous \in [Labels -> Nat \cup {Unknown}]
    /\ resized \in BOOLEAN /\ settled \in BOOLEAN /\ changed \in BOOLEAN
    /\ passes \in 0..limit
    /\ offsets \in [1..Len(code) + 1 -> Nat]
    /\ labels \in [Labels -> Nat \cup {Unknown}]

\* The layout relax returns is real: each piece follows the one before it with the size
\* its final form has, every label is where its definition is, and every branch left in
\* the short form reaches its target, however the sizing passes ended (encode.rs:285).
ResultHolds ==
    phase = "done" =>
      /\ offsets[1] = 0
      /\ \A p \in Pieces : offsets[p + 1] = offsets[p] + Size(code[p], long[p])
      /\ \A p \in Pieces : code[p].tag = "Label" => labels[code[p].label] = offsets[p]
      /\ \A p \in Branches : ~long[p] => Reaches(labels[code[p].target], offsets[p])

\* "Grow-only pass (a no-op once the passes settled)" (encode.rs:285): after settled
\* passes the layout is the one they saw, and a branch is long exactly if a short one
\* would not reach in that layout.
SettledIsFinal ==
    (phase = "done" /\ settled) =>
      /\ labels = previous
      /\ \A p \in Branches : long[p] <=> ~Reaches(labels[code[p].target], offsets[p])

\* relax fails exactly when some branch names a label no piece defines.
FailsOnUndefined ==
    LET defined == {code[p].label : p \in {q \in Pieces : code[q].tag = "Label"}}
    IN  phase \in {"done", "failed"} =>
          (phase = "failed" <=> \E p \in Branches : code[p].target \notin defined)

\* relax returns for every section (encode.rs:249-329): its sizing passes have no
\* measure that falls, and what ends them is settling or the cut-off; the loop after
\* them only grows, and lays out again only if something grew.
Returns == <>(phase \in {"done", "failed"})

\* "until nothing moves" (encode.rs:15): the passes settle by themselves and are never
\* cut off, which MAX_PASSES (encode.rs:243) only guards against, when they may be more
\* than the pieces.
PassesSettle == phase = "lay" /\ limit > Len(code) => settled
=============================================================================
