------------------------------ MODULE RelaxProofs ------------------------------
(* Branch sizing is sound for every section: theorems about Relax for every  *)
(* value of its constants, whatever the reach of a short branch and whatever *)
(* the limit on sizing passes.                                               *)
EXTENDS Relax, TLAPS

LabelPieces == {p \in Pieces : code[p].tag = "Label"}
Defined == {code[p].label : p \in LabelPieces}

\* The types, apart: one prover reasons about numbers, another about truth values.
NumTypes ==
    /\ code \in Codes /\ limit \in Limits
    /\ phase \in {"pass", "lay", "widen", "done", "failed"}
    /\ i \in 1..Len(code) + 1 /\ at \in Nat
    /\ seen \in [Labels -> Nat \cup {Unknown}] /\ previous \in [Labels -> Nat \cup {Unknown}]
    /\ passes \in 0..limit
    /\ offsets \in [1..Len(code) + 1 -> Nat]
    /\ labels \in [Labels -> Nat \cup {Unknown}]

BoolTypes ==
    /\ long \in [Pieces -> BOOLEAN]
    /\ resized \in BOOLEAN /\ settled \in BOOLEAN /\ changed \in BOOLEAN

\* The limit is only reached by leaving the passes.
PassesLeft == phase = "pass" => passes < limit

-----------------------------------------------------------------------------
(* What the last layout says while it is made, read and returned.          *)

\* Offsets and labels of the pieces laid out so far follow each other.
LaidOut ==
    phase = "lay" =>
      /\ i = 1 => at = 0
      /\ i > 1 => offsets[1] = 0
      /\ i > 1 => at = offsets[i - 1] + Size(code[i - 1], long[i - 1])
      /\ \A p \in Pieces : p + 1 < i => offsets[p + 1] = offsets[p] + Size(code[p], long[p])
      /\ \A p \in LabelPieces : p < i => labels[code[p].label] = offsets[p]

\* As long as nothing grew, the layout is that of the forms the branches have.
Contiguous ==
    /\ offsets[1] = 0
    /\ \A p \in Pieces : offsets[p + 1] = offsets[p] + Size(code[p], long[p])

\* A branch left short reaches its target.
ShortReaches(p) ==
    ~long[p] => /\ labels[code[p].target] # Unknown
                /\ Reaches(labels[code[p].target], offsets[p])

Checked ==
    phase \in {"widen", "done"} =>
      /\ \A p \in LabelPieces : labels[code[p].label] = offsets[p]
      /\ ~changed => Contiguous
      /\ ~changed => \A p \in Branches : p < i \/ phase = "done" => ShortReaches(p)

ResultReady == phase = "done" => ~changed

\* Only a label that some piece defines ever gets an offset, and relax fails for no
\* other reason than one that has none.
UndefinedStay ==
    /\ \A l \in Labels \ Defined : labels[l] = Unknown
    /\ phase = "failed" => \E p \in Branches : code[p].target \notin Defined
    /\ phase = "done" => \A p \in Branches : code[p].target \in Defined

SafeInv ==
    NumTypes /\ BoolTypes /\ PassesLeft /\ LaidOut /\ Checked /\ ResultReady /\ UndefinedStay

-----------------------------------------------------------------------------
\* What the assumption says of the section at hand.
LEMMA SectionShape ==
    ASSUME code \in Codes
    PROVE  /\ Len(code) \in Nat /\ Pieces = 1..Len(code)
           /\ \A p \in Pieces : code[p] \in BytesPiece \cup LabelPiece \cup BranchPiece
           /\ \A p \in LabelPieces : code[p].label \in Labels
           /\ \A p \in Branches : code[p].target \in Labels
           /\ \A p \in Pieces, isLong \in BOOLEAN : Size(code[p], isLong) \in Nat
           /\ \A p, q \in LabelPieces : code[p].label = code[q].label => p = q
<1>1. code \in Seq(BytesPiece \cup LabelPiece \cup BranchPiece)
  BY RelaxAssumption
<1>2. Len(code) \in Nat /\ Pieces = 1..Len(code)
  BY <1>1 DEF Pieces
<1>3. \A p \in Pieces : code[p] \in BytesPiece \cup LabelPiece \cup BranchPiece
  BY <1>1 DEF Pieces
<1>4. \A p \in Pieces :
        /\ code[p].tag = "Label" => code[p] \in LabelPiece
        /\ code[p].tag = "Branch" => code[p] \in BranchPiece
        /\ code[p].tag = "Bytes" => code[p] \in BytesPiece
        /\ code[p].tag \in {"Label", "Branch", "Bytes"}
  BY <1>3 DEF BytesPiece, LabelPiece, BranchPiece
<1>5. \A p \in LabelPieces : code[p].label \in Labels
  BY <1>4 DEF LabelPieces, LabelPiece
<1>6. \A p \in Branches : code[p].target \in Labels
  BY <1>4 DEF Branches, BranchPiece
<1>7. \A p \in Pieces, isLong \in BOOLEAN : Size(code[p], isLong) \in Nat
  BY <1>4 DEF Size, BytesPiece, BranchPiece
<1>9. ASSUME NEW p \in LabelPieces, NEW q \in LabelPieces, code[p].label = code[q].label
      PROVE  p = q
  <2>1. code[p] \in LabelPiece /\ code[q] \in LabelPiece /\ p \in Pieces /\ q \in Pieces
    BY <1>4 DEF LabelPieces
  <2>2. code[p] = [tag |-> "Label", label |-> code[p].label]
    BY <2>1 DEF LabelPiece
  <2>3. code[q] = [tag |-> "Label", label |-> code[q].label]
    BY <2>1 DEF LabelPiece
  <2>4. code[p] = code[q] /\ code[p].tag = "Label"
    BY <1>9, <2>2, <2>3
  <2> QED  BY <2>1, <2>4, LabelsDefinedOnce DEF Pieces
<1> QED  BY <1>2, <1>3, <1>5, <1>6, <1>7, <1>9

\* What is read off the section is the same after every step.
LEMMA SectionStays ==
    ASSUME UNCHANGED input
    PROVE  /\ code' = code /\ limit' = limit
           /\ Pieces' = Pieces /\ Branches' = Branches /\ LabelPieces' = LabelPieces
           /\ Defined' = Defined
BY DEF input, Pieces, Branches, LabelPieces, Defined

LEMMA InitSafe == Init => SafeInv
<1> SUFFICES ASSUME Init PROVE SafeInv  OBVIOUS
<1>1. Len(code) \in Nat /\ Pieces = 1..Len(code)
  BY SectionShape DEF Init
<1>2. limit \in Nat \ {0}
  BY RelaxAssumption DEF Init
<1>3. 0 \in 0..limit /\ 1 \in 1..Len(code) + 1
  BY <1>1, <1>2
<1>4. [l \in Labels |-> Unknown] \in [Labels -> Nat \cup {Unknown}]
  OBVIOUS
<1>5. NumTypes /\ BoolTypes
  BY <1>3, <1>4 DEF Init, NumTypes, BoolTypes
<1> QED
  BY <1>1, <1>2, <1>5 DEF Init, SafeInv, PassesLeft, LaidOut, Checked, ResultReady, UndefinedStay

-----------------------------------------------------------------------------
(* One lemma per action.                                                   *)

LEMMA PassLabelSafe == ASSUME SafeInv, PassLabel PROVE SafeInv'
<1>1. UNCHANGED <<input, long, phase, previous, resized, settled, passes, layout, changed>> /\ phase = "pass"
  BY DEF PassLabel
<1>2. NumTypes /\ BoolTypes /\ PassesLeft /\ UndefinedStay
  BY DEF SafeInv
<1>3. Len(code) \in Nat /\ Pieces = 1..Len(code) /\ i \in Pieces
  BY <1>2, SectionShape DEF PassLabel, NumTypes
<1>4. code[i].tag = "Label" => code[i].label \in Labels
  BY <1>2, <1>3, SectionShape DEF NumTypes, LabelPieces
<1>5. Size(code[i], long[i]) \in Nat
  BY <1>2, <1>3, SectionShape DEF NumTypes, BoolTypes
<1>6. BoolTypes'
  BY <1>1, <1>2 DEF BoolTypes, Pieces, input
<1>7. NumTypes'
  <2>1. i' \in 1..Len(code) + 1 /\ at' \in Nat
    BY <1>2, <1>3, <1>5 DEF PassLabel, NumTypes
  <2>2. seen' \in [Labels -> Nat \cup {Unknown}]
    BY <1>2, <1>4 DEF PassLabel, NumTypes
  <2> QED  BY <1>1, <1>2, <2>1, <2>2 DEF NumTypes, input, layout
<1>8. PassesLeft' /\ LaidOut' /\ Checked' /\ ResultReady'
  BY <1>1, <1>2 DEF PassesLeft, LaidOut, Checked, ResultReady, input
<1>9. UndefinedStay'
  BY <1>1, <1>2, SectionStays DEF UndefinedStay, layout
<1> QED  BY <1>6, <1>7, <1>8, <1>9 DEF SafeInv

LEMMA PassBranchSafe == ASSUME SafeInv, PassBranch PROVE SafeInv'
<1>1. UNCHANGED <<input, phase, seen, previous, settled, passes, layout, changed>> /\ phase = "pass"
  BY DEF PassBranch
<1>2. NumTypes /\ BoolTypes /\ PassesLeft /\ UndefinedStay
  BY DEF SafeInv
<1>3. Len(code) \in Nat /\ Pieces = 1..Len(code) /\ i \in Pieces
  BY <1>2, SectionShape DEF PassBranch, NumTypes, Branches
<1> DEFINE isLong == ~Short(seen[code[i].target])
<1>4. isLong \in BOOLEAN
  OBVIOUS
<1>5. /\ long' = [long EXCEPT ![i] = isLong]
      /\ at' = at + Size(code[i], isLong)
      /\ resized' = (resized \/ isLong # long[i])
      /\ i' = i + 1
  BY DEF PassBranch
<1> HIDE DEF isLong
<1>6. Size(code[i], isLong) \in Nat
  BY <1>2, <1>3, <1>4, SectionShape DEF NumTypes
<1>7. BoolTypes'
  <2>1. long' \in [Pieces -> BOOLEAN]
    BY <1>2, <1>4, <1>5 DEF BoolTypes
  <2>2. resized' \in BOOLEAN
    BY <1>5
  <2> QED  BY <1>1, <1>2, <2>1, <2>2 DEF BoolTypes, Pieces, input
<1>8. NumTypes'
  <2>1. i' \in 1..Len(code) + 1 /\ at' \in Nat
    BY <1>2, <1>3, <1>5, <1>6 DEF NumTypes
  <2> QED  BY <1>1, <1>2, <2>1 DEF NumTypes, input, layout
<1>9. PassesLeft' /\ LaidOut' /\ Checked' /\ ResultReady'
  BY <1>1, <1>2 DEF PassesLeft, LaidOut, Checked, ResultReady, input
<1>10. UndefinedStay'
  BY <1>1, <1>2, SectionStays DEF UndefinedStay, layout
<1> QED  BY <1>7, <1>8, <1>9, <1>10 DEF SafeInv

LEMMA EndPassSafe == ASSUME SafeInv, EndPass PROVE SafeInv'
<1>1. /\ UNCHANGED <<input, long, layout, changed>>
      /\ phase' \in {"pass", "lay"} /\ i' = 1 /\ at' = 0
  BY DEF EndPass, Restart
<1>2. NumTypes /\ BoolTypes /\ PassesLeft /\ UndefinedStay
  BY DEF SafeInv
<1>3. Len(code) \in Nat /\ limit \in Nat
  BY <1>2, RelaxAssumption, SectionShape DEF NumTypes
<1>4. passes' \in 0..limit /\ (phase' = "pass" => passes' < limit)
  BY <1>2, <1>3 DEF EndPass, LastPass, NumTypes, PassesLeft
<1>5. BoolTypes'
  BY <1>1, <1>2 DEF EndPass, Stable, BoolTypes, Pieces, input
<1>6. NumTypes'
  <2>1. seen' \in [Labels -> Nat \cup {Unknown}] /\ previous' = seen'
    BY <1>2 DEF EndPass, Carried, NumTypes
  <2> QED  BY <1>1, <1>2, <1>3, <1>4, <2>1 DEF NumTypes, input, layout
<1>7. PassesLeft'
  BY <1>1, <1>4 DEF PassesLeft, input
<1>8. LaidOut' /\ Checked' /\ ResultReady'
  BY <1>1, SectionShape, SectionStays, <1>2, <1>3 DEF LaidOut, Checked, ResultReady, LabelPieces, NumTypes
<1>9. UndefinedStay'
  BY <1>1, <1>2, SectionStays DEF UndefinedStay, layout
<1> QED  BY <1>5, <1>6, <1>7, <1>8, <1>9 DEF SafeInv

LEMMA LayPieceSafe == ASSUME SafeInv, LayPiece PROVE SafeInv'
<1>1. UNCHANGED <<input, long, phase, sizing, changed>> /\ phase = "lay"
  BY DEF LayPiece
<1>2. NumTypes /\ BoolTypes /\ LaidOut /\ UndefinedStay
  BY DEF SafeInv
<1>3. Len(code) \in Nat /\ Pieces = 1..Len(code) /\ i \in Pieces
  BY <1>2, SectionShape DEF LayPiece, NumTypes
<1>4. code[i].tag = "Label" => i \in LabelPieces /\ code[i].label \in Labels
  BY <1>2, <1>3, SectionShape DEF NumTypes, LabelPieces
<1>5. Size(code[i], long[i]) \in Nat
  BY <1>2, <1>3, SectionShape DEF NumTypes, BoolTypes
<1>6. at' = at + Size(code[i], long[i]) /\ i' = i + 1 /\ offsets' = [offsets EXCEPT ![i] = at]
  BY DEF LayPiece
<1>7. BoolTypes'
  BY <1>1, <1>2 DEF BoolTypes, Pieces, input, sizing
<1>8. NumTypes'
  <2>1. i' \in 1..Len(code) + 1 /\ at' \in Nat
    BY <1>2, <1>3, <1>5, <1>6 DEF NumTypes
  <2>2. offsets' \in [1..Len(code) + 1 -> Nat]
    BY <1>2, <1>6 DEF NumTypes
  <2>3. labels' \in [Labels -> Nat \cup {Unknown}]
    BY <1>2, <1>4 DEF LayPiece, NumTypes
  <2> QED  BY <1>1, <1>2, <2>1, <2>2, <2>3 DEF NumTypes, input, sizing
<1>9. LaidOut'
  <2>1. offsets'[1] = 0
    BY <1>1, <1>2, <1>3, <1>6 DEF LaidOut, NumTypes
  <2>2. at' = offsets'[i' - 1] + Size(code[i' - 1], long[i' - 1])
    BY <1>2, <1>3, <1>6 DEF NumTypes
  <2>3. ASSUME NEW p \in Pieces, p + 1 < i'
        PROVE  offsets'[p + 1] = offsets'[p] + Size(code[p], long[p])
    BY <1>1, <1>2, <1>3, <1>6, <2>3 DEF NumTypes, LaidOut
  <2>4. ASSUME NEW p \in LabelPieces, p < i'
        PROVE  labels'[code[p].label] = offsets'[p]
    <3>1. p \in Pieces /\ code[p].label \in Labels
      BY <1>2, SectionShape DEF NumTypes, LabelPieces
    <3>2. CASE p = i
      BY <1>2, <1>3, <1>4, <1>6, <3>1, <3>2 DEF LayPiece, NumTypes, LabelPieces
    <3>3. CASE p # i
      <4>1. labels'[code[p].label] = labels[code[p].label]
        BY <1>2, <1>3, <1>4, <3>1, <3>3, SectionShape DEF LayPiece, NumTypes
      <4> QED  BY <1>1, <1>2, <1>3, <1>6, <2>4, <3>1, <3>3, <4>1 DEF LaidOut, NumTypes
    <3> QED  BY <3>2, <3>3
  <2>5. long' = long /\ code' = code /\ Pieces' = Pieces /\ LabelPieces' = LabelPieces
    BY <1>1, SectionStays DEF input
  <2> QED  BY <1>3, <1>6, <2>1, <2>2, <2>3, <2>4, <2>5 DEF LaidOut
<1>10. PassesLeft' /\ Checked' /\ ResultReady'
  BY <1>1 DEF PassesLeft, Checked, ResultReady
<1>11. UndefinedStay'
  BY <1>1, <1>2, <1>4, SectionStays DEF LayPiece, UndefinedStay, Defined, NumTypes
<1> QED  BY <1>7, <1>8, <1>9, <1>10, <1>11 DEF SafeInv

LEMMA EndLaySafe == ASSUME SafeInv, EndLay PROVE SafeInv'
<1>1. /\ UNCHANGED <<input, long, sizing, labels>>
      /\ phase = "lay" /\ phase' = "widen" /\ i' = 1 /\ at' = 0 /\ ~changed'
      /\ offsets' = [offsets EXCEPT ![i] = at]
  BY DEF EndLay, Restart
<1>2. NumTypes /\ BoolTypes /\ LaidOut /\ UndefinedStay
  BY DEF SafeInv
<1>3. Len(code) \in Nat /\ Pieces = 1..Len(code) /\ i = Len(code) + 1
  BY <1>2, SectionShape DEF EndLay, NumTypes
<1>4. code' = code /\ Pieces' = Pieces /\ LabelPieces' = LabelPieces /\ Branches' = Branches /\ long' = long
  BY <1>1, SectionStays
<1>5. BoolTypes'
  BY <1>1, <1>2 DEF EndLay, BoolTypes, Pieces, input, sizing
<1>6. NumTypes'
  <2>1. offsets' \in [1..Len(code) + 1 -> Nat]
    BY <1>1, <1>2 DEF NumTypes
  <2> QED  BY <1>1, <1>2, <1>3, <2>1 DEF NumTypes, input, sizing
<1>7. Contiguous'
  <2>1. offsets'[1] = 0
    BY <1>1, <1>2, <1>3 DEF LaidOut, NumTypes
  <2>2. ASSUME NEW p \in Pieces
        PROVE  offsets'[p + 1] = offsets'[p] + Size(code[p], long[p])
    <3>1. CASE p + 1 < i
      BY <1>1, <1>2, <1>3, <3>1 DEF LaidOut, NumTypes
    <3>2. CASE p + 1 = i
      BY <1>1, <1>2, <1>3, <3>2 DEF LaidOut, NumTypes
    <3> QED  BY <1>3, <3>1, <3>2
  <2> QED  BY <1>4, <2>1, <2>2 DEF Contiguous
<1>8. ASSUME NEW p \in LabelPieces PROVE labels'[code[p].label] = offsets'[p]
  <2>1. p \in Pieces
    BY DEF LabelPieces
  <2> QED  BY <1>1, <1>2, <1>3, <2>1 DEF LaidOut, NumTypes
<1>9. Checked'
  <2>1. \A p \in Branches : ~(p < i')
    BY <1>1, <1>3 DEF Branches
  <2> QED  BY <1>1, <1>4, <1>7, <1>8, <2>1 DEF Checked
<1>10. PassesLeft' /\ LaidOut' /\ ResultReady'
  BY <1>1 DEF PassesLeft, LaidOut, ResultReady
<1>11. UndefinedStay'
  BY <1>1, <1>2, SectionStays DEF UndefinedStay
<1> QED  BY <1>5, <1>6, <1>7, <1>9, <1>10, <1>11 DEF SafeInv

LEMMA WidenBranchSafe == ASSUME SafeInv, WidenBranch PROVE SafeInv'
<1> DEFINE grow == ~Undefined(i) /\ TooFar(i)
<1>1. UNCHANGED <<input, at, sizing, layout>> /\ phase = "widen"
  BY DEF WidenBranch
<1>2. NumTypes /\ BoolTypes /\ Checked /\ UndefinedStay
  BY DEF SafeInv
<1>3. Len(code) \in Nat /\ Pieces = 1..Len(code) /\ i \in Pieces /\ i \in Branches /\ ~long[i]
  BY <1>2, SectionShape DEF WidenBranch, NumTypes, Branches
<1>4. grow \in BOOLEAN
  OBVIOUS
<1>5. /\ long' = [long EXCEPT ![i] = grow]
      /\ changed' = (changed \/ grow)
      /\ i' = i + 1
      /\ phase' = IF Undefined(i) THEN "failed" ELSE "widen"
  BY <1>1 DEF WidenBranch
<1>6. code' = code /\ Pieces' = Pieces /\ LabelPieces' = LabelPieces /\ Branches' = Branches /\ Defined' = Defined
  BY <1>1, SectionStays
<1>7. labels' = labels /\ offsets' = offsets
  BY <1>1 DEF layout
<1>8. BoolTypes'
  <2> HIDE DEF grow
  <2>1. long' \in [Pieces -> BOOLEAN]
    BY <1>2, <1>4, <1>5 DEF BoolTypes
  <2>2. changed' \in BOOLEAN
    BY <1>5
  <2> QED  BY <1>1, <1>2, <1>6, <2>1, <2>2 DEF BoolTypes, sizing
<1>9. NumTypes'
  <2>1. i' \in 1..Len(code) + 1 /\ phase' \in {"widen", "failed"}
    BY <1>3, <1>5
  <2> QED  BY <1>1, <1>2, <2>1 DEF NumTypes, input, sizing, layout
<1>10. UndefinedStay'
  <2>1. Undefined(i) => code[i].target \notin Defined
    <3> SUFFICES ASSUME Undefined(i), NEW p \in LabelPieces, code[p].label = code[i].target
                 PROVE  FALSE
      BY DEF Defined
    <3>1. labels[code[p].label] = offsets[p] /\ offsets[p] \in Nat
      BY <1>1, <1>2, SectionShape DEF Checked, NumTypes, LabelPieces
    <3> QED  BY <3>1 DEF Undefined, Unknown
  <2> QED  BY <1>1, <1>2, <1>3, <1>5, <1>6, <1>7, <2>1 DEF UndefinedStay
<1>11. Checked'
  <2>1. CASE changed'
    BY <1>1, <1>2, <1>5, <1>6, <1>7, <2>1 DEF Checked
  <2>2. CASE ~changed'
    <3>1. ~grow /\ ~changed
      BY <1>5, <2>2
    <3>2. long' = long
      <4> HIDE DEF grow
      <4>1. long[i] \in BOOLEAN
        BY <1>2, <1>3 DEF BoolTypes
      <4>2. grow = long[i]
        BY <1>3, <1>4, <3>1, <4>1
      <4>3. long' = [long EXCEPT ![i] = long[i]]
        BY <1>5, <4>2
      <4> QED  BY <1>2, <4>3 DEF BoolTypes
    <3>3. ~Undefined(i) => ShortReaches(i)
      BY <3>1 DEF ShortReaches, Undefined, TooFar
    <3>4. \A p \in Branches : p < i' => p < i \/ p = i
      BY <1>3, <1>5 DEF Branches
    <3>5. ASSUME phase' = "widen", NEW p \in Branches, p < i'
          PROVE  ShortReaches(p)'
      <4>1. ~Undefined(i)
        BY <1>5, <3>5
      <4>2. ShortReaches(p)
        BY <1>1, <1>2, <3>1, <3>3, <3>4, <3>5, <4>1 DEF Checked
      <4> QED  BY <1>6, <1>7, <3>2, <4>2 DEF ShortReaches
    <3>6. Contiguous'
      BY <1>1, <1>2, <1>6, <1>7, <3>1, <3>2 DEF Checked, Contiguous
    <3>7. phase' \in {"widen", "failed"}
      BY <1>5
    <3> QED  BY <1>1, <1>2, <1>6, <1>7, <3>5, <3>6, <3>7 DEF Checked
  <2> QED  BY <2>1, <2>2
<1>12. PassesLeft' /\ LaidOut' /\ ResultReady'
  BY <1>5 DEF PassesLeft, LaidOut, ResultReady
<1> QED  BY <1>8, <1>9, <1>10, <1>11, <1>12 DEF SafeInv

LEMMA WidenSkipSafe == ASSUME SafeInv, WidenSkip PROVE SafeInv'
<1>1. /\ UNCHANGED <<input, long, phase, at, sizing, layout, changed>>
      /\ phase = "widen" /\ i' = i + 1
  BY DEF WidenSkip
<1>2. NumTypes /\ BoolTypes /\ Checked /\ UndefinedStay
  BY DEF SafeInv
<1>3. Len(code) \in Nat /\ Pieces = 1..Len(code) /\ i \in Pieces
  BY <1>2, SectionShape DEF WidenSkip, NumTypes
<1>4. code' = code /\ Pieces' = Pieces /\ LabelPieces' = LabelPieces /\ Branches' = Branches
  BY <1>1, SectionStays
<1>5. labels' = labels /\ offsets' = offsets /\ long' = long /\ changed' = changed
  BY <1>1 DEF layout
<1>6. BoolTypes'
  BY <1>1, <1>2, <1>4 DEF BoolTypes, sizing
<1>7. NumTypes'
  <2>1. i' \in 1..Len(code) + 1
    BY <1>1, <1>3
  <2> QED  BY <1>1, <1>2, <2>1 DEF NumTypes, input, sizing, layout
<1>8. ASSUME NEW p \in Branches, p < i', ~changed
      PROVE  ShortReaches(p)'
  <2>1. p < i \/ long[p]
    BY <1>1, <1>3, <1>8 DEF WidenSkip, Branches
  <2>2. ShortReaches(p)
    BY <1>1, <1>2, <1>8, <2>1 DEF Checked, ShortReaches
  <2> QED  BY <1>4, <1>5, <2>2 DEF ShortReaches
<1>9. Checked'
  <2>1. Contiguous' <=> Contiguous
    BY <1>4, <1>5 DEF Contiguous
  <2> QED  BY <1>1, <1>2, <1>4, <1>5, <1>8, <2>1 DEF Checked
<1>10. PassesLeft' /\ LaidOut' /\ ResultReady'
  BY <1>1 DEF PassesLeft, LaidOut, ResultReady
<1>11. UndefinedStay'
  BY <1>1, <1>2, <1>5, SectionStays DEF UndefinedStay
<1> QED  BY <1>6, <1>7, <1>9, <1>10, <1>11 DEF SafeInv

LEMMA EndWidenSafe == ASSUME SafeInv, EndWiden PROVE SafeInv'
<1>1. /\ UNCHANGED <<input, long, sizing, layout, changed>>
      /\ phase = "widen" /\ i' = 1 /\ at' = 0
  BY DEF EndWiden, Restart
<1>2. NumTypes /\ BoolTypes /\ Checked /\ UndefinedStay
  BY DEF SafeInv
<1>3. Len(code) \in Nat /\ Pieces = 1..Len(code) /\ i = Len(code) + 1
  BY <1>2, SectionShape DEF EndWiden, NumTypes
<1>4. code' = code /\ Pieces' = Pieces /\ LabelPieces' = LabelPieces /\ Branches' = Branches /\ Defined' = Defined
  BY <1>1, SectionStays
<1>5. labels' = labels /\ offsets' = offsets /\ long' = long /\ changed' = changed
  BY <1>1 DEF layout
<1>6. phase' \in {"lay", "failed", "done"} /\ (phase' = "done" => ~changed)
  BY DEF EndWiden
<1>7. BoolTypes'
  BY <1>1, <1>2, <1>4 DEF BoolTypes, sizing
<1>8. NumTypes'
  BY <1>1, <1>2, <1>3, <1>6 DEF NumTypes, input, sizing, layout
<1>9. ASSUME NEW p \in Branches
      PROVE  Undefined(p) <=> code[p].target \notin Defined
  <2>1. code[p].target \in Labels
    BY <1>2, SectionShape DEF NumTypes
  <2>2. code[p].target \notin Defined => Undefined(p)
    BY <1>2, <2>1 DEF UndefinedStay, Undefined
  <2>3. ASSUME NEW q \in LabelPieces, code[q].label = code[p].target
        PROVE  ~Undefined(p)
    <3>1. labels[code[q].label] = offsets[q] /\ offsets[q] \in Nat
      BY <1>1, <1>2, SectionShape DEF Checked, NumTypes, LabelPieces
    <3> QED  BY <2>3, <3>1 DEF Undefined, Unknown
  <2> QED  BY <2>2, <2>3 DEF Defined
<1>10. UndefinedStay'
  <2>1. phase' = "failed" => \E p \in Branches : code[p].target \notin Defined
    BY <1>9 DEF EndWiden
  <2>2. phase' = "done" => \A p \in Branches : code[p].target \in Defined
    BY <1>9 DEF EndWiden
  <2> QED  BY <1>2, <1>4, <1>5, <2>1, <2>2 DEF UndefinedStay
<1>11. Checked'
  <2>1. CASE phase' = "done"
    <3>1. \A p \in Branches : p < i
      BY <1>3 DEF Branches
    <3>2. Contiguous /\ (\A p \in Branches : ShortReaches(p))
      BY <1>1, <1>2, <1>6, <2>1, <3>1 DEF Checked
    <3>3. Contiguous' /\ (\A p \in Branches : ShortReaches(p)')
      BY <1>4, <1>5, <3>2 DEF Contiguous, ShortReaches
    <3> QED  BY <1>1, <1>2, <1>4, <1>5, <3>3 DEF Checked
  <2>2. CASE phase' # "done"
    BY <1>6, <2>2 DEF Checked
  <2> QED  BY <2>1, <2>2
<1>12. PassesLeft' /\ ResultReady'
  BY <1>5, <1>6 DEF PassesLeft, ResultReady
<1>13. LaidOut'
  <2>1. \A p \in Pieces : ~(p + 1 < i') /\ ~(p < i')
    BY <1>1, <1>3
  <2>2. \A p \in LabelPieces : ~(p < i')
    BY <2>1 DEF LabelPieces
  <2> QED  BY <1>1, <1>4, <2>1, <2>2 DEF LaidOut
<1> QED  BY <1>7, <1>8, <1>10, <1>11, <1>12, <1>13 DEF SafeInv

-----------------------------------------------------------------------------
(* What a section and a limit are turned into.                             *)

LEMMA SafeStep == SafeInv /\ [Next]_vars => SafeInv'
<1> SUFFICES ASSUME SafeInv, [Next]_vars PROVE SafeInv'
  OBVIOUS
<1>1. CASE PassLabel  BY <1>1, PassLabelSafe
<1>2. CASE PassBranch  BY <1>2, PassBranchSafe
<1>3. CASE EndPass  BY <1>3, EndPassSafe
<1>4. CASE LayPiece  BY <1>4, LayPieceSafe
<1>5. CASE EndLay  BY <1>5, EndLaySafe
<1>6. CASE WidenBranch  BY <1>6, WidenBranchSafe
<1>7. CASE WidenSkip  BY <1>7, WidenSkipSafe
<1>8. CASE EndWiden  BY <1>8, EndWidenSafe
<1>9. CASE UNCHANGED vars
  <2>1. /\ UNCHANGED <<code, limit, long, phase, i, at, seen, previous>>
        /\ UNCHANGED <<resized, settled, passes, offsets, labels, changed>>
    BY <1>9 DEF vars, input, sizing, layout
  <2>2. Pieces' = Pieces /\ Branches' = Branches /\ LabelPieces' = LabelPieces /\ Defined' = Defined
    BY <2>1, SectionStays DEF input
  <2>3. NumTypes' /\ BoolTypes' /\ PassesLeft'
    BY <2>1, <2>2 DEF SafeInv, NumTypes, BoolTypes, PassesLeft
  <2>4. LaidOut'
    BY <2>1, <2>2 DEF SafeInv, LaidOut
  <2>5. Checked' /\ ResultReady' /\ UndefinedStay'
    BY <2>1, <2>2 DEF SafeInv, Checked, Contiguous, ShortReaches, ResultReady, UndefinedStay
  <2> QED  BY <2>3, <2>4, <2>5 DEF SafeInv
<1> QED
  BY <1>1, <1>2, <1>3, <1>4, <1>5, <1>6, <1>7, <1>8, <1>9 DEF Next, Relaxing, Returned

\* What the relaxation has established at every turn of its loops (encode.rs:249-329).
THEOREM RelaxSafe == Spec => []SafeInv
<1> QED  BY InitSafe, SafeStep, PTL DEF Spec

\* The variables of Relax keep their types: the walks stay inside the section, and the
\* sizing passes stay within their limit.
THEOREM RelaxTypes == Spec => []TypeOK
<1>1. SafeInv => TypeOK
  BY DEF SafeInv, NumTypes, BoolTypes, TypeOK
<1> QED  BY <1>1, RelaxSafe, PTL

\* The layout that relax returns is real for every section, reach and limit: whether the
\* sizing passes settled or were cut off, every label is where it is defined and every
\* short branch reaches.
THEOREM LayoutHolds == Spec => []ResultHolds
<1>1. SafeInv => ResultHolds
  <2> SUFFICES ASSUME SafeInv, phase = "done" PROVE ResultHolds
    BY DEF ResultHolds
  <2>1. Contiguous /\ (\A p \in Branches : ShortReaches(p))
    BY DEF SafeInv, Checked, ResultReady
  <2>2. \A p \in Pieces : code[p].tag = "Label" => labels[code[p].label] = offsets[p]
    BY DEF SafeInv, Checked, LabelPieces
  <2> QED  BY <2>1, <2>2 DEF ResultHolds, Contiguous, ShortReaches
<1> QED  BY <1>1, RelaxSafe, PTL

\* relax reports an error for the sections in which a branch names a label that nothing
\* defines, and for no other.
THEOREM FailsExactly == Spec => []FailsOnUndefined
<1>1. SafeInv => FailsOnUndefined
  BY DEF SafeInv, UndefinedStay, FailsOnUndefined, Defined, LabelPieces
<1> QED  BY <1>1, RelaxSafe, PTL

-----------------------------------------------------------------------------
(* Settled passes.  No variable holds the offsets a pass gave the pieces: a *)
(* function o that says them is carried along.                             *)

ShortFor(dest, a) == dest = Unknown \/ Reaches(dest, a)

\* o gives each piece before n the place its predecessors' sizes leave it.
FollowsTo(o, n) ==
    /\ o \in [1..Len(code) + 1 -> Nat]
    /\ o[1] = 0
    /\ \A p \in Pieces : p < n => o[p + 1] = o[p] + Size(code[p], long[p])

\* What a pass has done so far: a branch has the form that the last offset heard of its
\* target asked for, this pass's or the previous one's.
PassedSoFar(o) ==
    /\ FollowsTo(o, i)
    /\ at = o[i]
    /\ \A p \in LabelPieces : p < i => seen[code[p].label] = o[p]
    /\ \A l \in Labels : (\A p \in LabelPieces : p < i => code[p].label # l) => seen[l] = previous[l]
    /\ \A p \in Branches : p < i =>
         \E v \in {seen[code[p].target], previous[code[p].target]} :
           long[p] <=> ~ShortFor(v, o[p])

\* What passes that settled leave: forms and offsets that agree.
Agreed(o) ==
    /\ FollowsTo(o, Len(code) + 1)
    /\ \A p \in LabelPieces : previous[code[p].label] = o[p]
    /\ \A p \in Branches : long[p] <=> ~ShortFor(previous[code[p].target], o[p])

\* The loop after the passes finds the same offsets, and grows nothing.
FoundAgain(o) ==
    /\ phase = "lay" => at = o[i]
    /\ \A p \in 1..Len(code) + 1 : p < i \/ phase # "lay" => offsets[p] = o[p]
    /\ \A p \in LabelPieces : p < i \/ phase # "lay" => labels[code[p].label] = o[p]
    /\ phase # "lay" => ~changed

SettleInv ==
    /\ SafeInv
    /\ \A l \in Labels \ Defined : seen[l] = Unknown /\ previous[l] = Unknown
    /\ phase = "pass" => ~settled /\ \E o : PassedSoFar(o)
    /\ settled => \E o : Agreed(o) /\ FoundAgain(o)

LEMMA InitSettle == Init => SettleInv
<1> SUFFICES ASSUME Init PROVE SettleInv  OBVIOUS
<1>1. Len(code) \in Nat /\ Pieces = 1..Len(code)
  BY SectionShape DEF Init
<1> DEFINE o == [p \in 1..Len(code) + 1 |-> 0]
<1>2. PassedSoFar(o)
  <2>1. \A p \in Pieces : ~(p < i)
    BY <1>1 DEF Init
  <2>2. FollowsTo(o, i)
    BY <1>1, <2>1 DEF FollowsTo
  <2>3. at = o[i] /\ seen = previous
    BY <1>1 DEF Init
  <2> QED  BY <2>1, <2>2, <2>3 DEF PassedSoFar, LabelPieces, Branches
<1>3. \E x : PassedSoFar(x)
  BY <1>2
<1> QED  BY <1>1, <1>3, InitSafe DEF Init, SettleInv

\* Steps that only move along a pass.
LEMMA PassLabelSettle == ASSUME SettleInv, PassLabel PROVE SettleInv'
<1>1. /\ UNCHANGED <<input, long, phase, previous, resized, settled, passes, layout, changed>>
      /\ phase = "pass" /\ i' = i + 1 /\ at' = at + Size(code[i], long[i])
      /\ seen' = IF code[i].tag = "Label" THEN [seen EXCEPT ![code[i].label] = at] ELSE seen
      /\ i \in Pieces \ Branches
  BY DEF PassLabel
<1>2. SafeInv /\ SafeInv' /\ NumTypes /\ BoolTypes /\ ~settled
  BY <1>1, PassLabelSafe DEF SettleInv, SafeInv
<1>3. PICK o : PassedSoFar(o)
  BY <1>1 DEF SettleInv
<1>4. /\ Len(code) \in Nat /\ Pieces = 1..Len(code) /\ Size(code[i], long[i]) \in Nat
      /\ code[i].tag = "Label" => i \in LabelPieces /\ code[i].label \in Labels
  BY <1>1, <1>2, SectionShape DEF NumTypes, BoolTypes, LabelPieces
<1>5. o \in [1..Len(code) + 1 -> Nat]
  BY <1>3 DEF PassedSoFar, FollowsTo
<1>17. PICK u : u = [o EXCEPT ![i + 1] = o[i] + Size(code[i], long[i])]
  OBVIOUS
<1>6. u \in [1..Len(code) + 1 -> Nat] /\ (\A p \in 1..Len(code) + 1 : p # i + 1 => u[p] = o[p])
  BY <1>1, <1>4, <1>5, <1>17
<1>7. u[i + 1] = o[i] + Size(code[i], long[i])
  BY <1>1, <1>4, <1>5, <1>17
<1>8. ASSUME NEW p \in Pieces, p < i + 1
      PROVE  u[p + 1] = u[p] + Size(code[p], long[p])
  <2>1. CASE p = i
    BY <1>1, <1>4, <1>6, <1>7, <2>1
  <2>2. CASE p < i
    <3>1. o[p + 1] = o[p] + Size(code[p], long[p])
      BY <1>3, <2>2 DEF PassedSoFar, FollowsTo
    <3> QED  BY <1>1, <1>4, <1>6, <2>2, <3>1
  <2> QED  BY <1>1, <1>4, <1>8, <2>1, <2>2
<1>9. ASSUME NEW p \in LabelPieces, p < i + 1
      PROVE  seen'[code[p].label] = u[p]
  <2>1. p \in Pieces /\ code[p].label \in Labels
    BY <1>2, SectionShape DEF NumTypes, LabelPieces
  <2>2. CASE p = i
    <3>1. seen'[code[p].label] = at /\ at = o[i]
      BY <1>1, <1>2, <1>3, <2>1, <2>2 DEF LabelPieces, NumTypes, PassedSoFar
    <3> QED  BY <1>4, <1>6, <2>1, <2>2, <3>1
  <2>3. CASE p # i
    <3>1. seen'[code[p].label] = seen[code[p].label]
      BY <1>1, <1>2, <1>4, <2>1, <2>3, SectionShape DEF NumTypes
    <3>2. seen[code[p].label] = o[p]
      BY <1>1, <1>3, <1>4, <1>9, <2>1, <2>3 DEF PassedSoFar
    <3> QED  BY <1>1, <1>4, <1>6, <1>9, <2>1, <2>3, <3>1, <3>2
  <2> QED  BY <2>2, <2>3
<1>10. ASSUME NEW l \in Labels, \A p \in LabelPieces : p < i + 1 => code[p].label # l
       PROVE  seen'[l] = previous[l]
  <2>1. seen'[l] = seen[l]
    BY <1>1, <1>2, <1>4, <1>10 DEF NumTypes
  <2>2. \A p \in LabelPieces : p < i => code[p].label # l
    BY <1>1, <1>4, <1>10 DEF LabelPieces
  <2> QED  BY <1>3, <2>1, <2>2 DEF PassedSoFar
<1>11. ASSUME NEW p \in Branches, p < i + 1
       PROVE  \E v \in {seen'[code[p].target], previous[code[p].target]} : long[p] <=> ~ShortFor(v, u[p])
  <2>1. p \in Pieces /\ p < i /\ code[p].target \in Labels
    BY <1>1, <1>2, <1>4, <1>11, SectionShape DEF NumTypes, Branches
  <2>2. PICK v \in {seen[code[p].target], previous[code[p].target]} : long[p] <=> ~ShortFor(v, o[p])
    BY <1>3, <2>1 DEF PassedSoFar
  <2>3. u[p] = o[p]
    BY <1>1, <1>4, <1>6, <2>1
  <2>4. v \in {seen'[code[p].target], previous[code[p].target]}
    <3>1. CASE seen'[code[p].target] = seen[code[p].target]
      BY <2>2, <3>1
    <3>2. CASE seen'[code[p].target] # seen[code[p].target]
      <4>1. code[i].tag = "Label" /\ code[i].label = code[p].target
        BY <1>1, <1>2, <1>4, <2>1, <3>2 DEF NumTypes
      <4>2. \A q \in LabelPieces : q < i => code[q].label # code[p].target
        BY <1>1, <1>2, <1>4, <4>1, SectionShape DEF NumTypes
      <4>3. seen[code[p].target] = previous[code[p].target]
        BY <1>3, <2>1, <4>2 DEF PassedSoFar
      <4> QED  BY <2>2, <4>3
    <3> QED  BY <3>1, <3>2
  <2> QED  BY <2>2, <2>3, <2>4
<1>12. /\ code' = code /\ Pieces' = Pieces /\ Branches' = Branches /\ LabelPieces' = LabelPieces
       /\ Defined' = Defined /\ long' = long /\ previous' = previous
  BY <1>1, SectionStays
<1>13. PassedSoFar(u)'
  <2>1. FollowsTo(u, i)'
    <3>1. u[1] = 0
      BY <1>1, <1>3, <1>4, <1>6 DEF FollowsTo, PassedSoFar
    <3> QED  BY <1>1, <1>6, <1>8, <1>12, <3>1 DEF FollowsTo
  <2>2. at' = u[i']
    BY <1>1, <1>3, <1>7 DEF PassedSoFar
  <2> QED  BY <1>1, <1>9, <1>10, <1>11, <1>12, <2>1, <2>2 DEF PassedSoFar
<1>14. \A l \in Labels \ Defined : seen'[l] = Unknown /\ previous[l] = Unknown
  BY <1>1, <1>2, <1>4 DEF SettleInv, Defined, NumTypes
<1>15. phase' = "pass" /\ ~settled'
  BY <1>1, <1>2
<1>16. \E x : PassedSoFar(x)'
  BY <1>13
<1> QED  BY <1>2, <1>12, <1>14, <1>15, <1>16 DEF SettleInv

LEMMA PassBranchSettle == ASSUME SettleInv, PassBranch PROVE SettleInv'
<1> DEFINE isLong == ~Short(seen[code[i].target])
<1>1. /\ UNCHANGED <<input, phase, seen, previous, settled, passes, layout, changed>>
      /\ phase = "pass" /\ i' = i + 1 /\ at' = at + Size(code[i], isLong)
      /\ long' = [long EXCEPT ![i] = isLong]
      /\ i \in Branches
  BY DEF PassBranch
<1>2. SafeInv /\ SafeInv' /\ NumTypes /\ BoolTypes /\ ~settled
  BY <1>1, PassBranchSafe DEF SettleInv, SafeInv
<1>3. PICK o : PassedSoFar(o)
  BY <1>1 DEF SettleInv
<1>4. /\ Len(code) \in Nat /\ Pieces = 1..Len(code) /\ i \in Pieces
      /\ isLong \in BOOLEAN /\ code[i].target \in Labels
  BY <1>1, <1>2, SectionShape DEF NumTypes, Branches
<1>5. isLong <=> ~ShortFor(seen[code[i].target], o[i])
  BY <1>3 DEF Short, ShortFor, PassedSoFar
<1> HIDE DEF isLong
<1>6. Size(code[i], isLong) \in Nat
  BY <1>2, <1>4, SectionShape DEF NumTypes
<1>7. o \in [1..Len(code) + 1 -> Nat]
  BY <1>3 DEF PassedSoFar, FollowsTo
<1>8. PICK u : u = [o EXCEPT ![i + 1] = o[i] + Size(code[i], isLong)]
  OBVIOUS
<1>9. /\ u \in [1..Len(code) + 1 -> Nat]
      /\ \A p \in 1..Len(code) + 1 : p # i + 1 => u[p] = o[p]
      /\ u[i + 1] = o[i] + Size(code[i], isLong)
  BY <1>4, <1>6, <1>7, <1>8
<1>10. long'[i] = isLong /\ (\A p \in Pieces : p # i => long'[p] = long[p])
  BY <1>1, <1>2, <1>4 DEF BoolTypes
<1>11. ASSUME NEW p \in Pieces, p < i + 1
       PROVE  u[p + 1] = u[p] + Size(code[p], long'[p])
  <2>1. CASE p = i
    BY <1>4, <1>9, <1>10, <2>1
  <2>2. CASE p < i
    <3>1. o[p + 1] = o[p] + Size(code[p], long[p])
      BY <1>3, <2>2 DEF PassedSoFar, FollowsTo
    <3>2. long'[p] = long[p]
      BY <1>4, <1>10, <2>2
    <3> QED  BY <1>4, <1>9, <2>2, <3>1, <3>2
  <2> QED  BY <1>4, <1>11, <2>1, <2>2
<1>12. ASSUME NEW p \in LabelPieces, p < i + 1
       PROVE  p < i /\ seen[code[p].label] = u[p]
  <2>1. p \in Pieces /\ p # i
    BY <1>1, <1>4 DEF LabelPieces, Branches
  <2> QED  BY <1>3, <1>4, <1>9, <1>12, <2>1 DEF PassedSoFar
<1>13. ASSUME NEW l \in Labels, \A p \in LabelPieces : p < i + 1 => code[p].label # l
       PROVE  seen[l] = previous[l]
  <2>1. \A p \in LabelPieces : p < i => code[p].label # l
    BY <1>4, <1>13 DEF LabelPieces
  <2> QED  BY <1>3, <2>1 DEF PassedSoFar
<1>14. ASSUME NEW p \in Branches, p < i + 1
       PROVE  \E v \in {seen[code[p].target], previous[code[p].target]} : long'[p] <=> ~ShortFor(v, u[p])
  <2>1. p \in Pieces
    BY DEF Branches
  <2>2. u[p] = o[p]
    BY <1>4, <1>9, <1>14, <2>1
  <2>3. CASE p = i
    BY <1>5, <1>10, <2>2, <2>3
  <2>4. CASE p # i
    <3>1. p < i
      BY <1>4, <1>14, <2>1, <2>4
    <3>2. long'[p] = long[p]
      BY <1>10, <2>1, <2>4
    <3>3. PICK v \in {seen[code[p].target], previous[code[p].target]} : long[p] <=> ~ShortFor(v, o[p])
      BY <1>3, <3>1 DEF PassedSoFar
    <3> QED  BY <2>2, <3>2, <3>3
  <2> QED  BY <2>3, <2>4
<1>15. /\ code' = code /\ Pieces' = Pieces /\ Branches' = Branches /\ LabelPieces' = LabelPieces
       /\ Defined' = Defined /\ seen' = seen /\ previous' = previous
  BY <1>1, SectionStays
<1>16. PassedSoFar(u)'
  <2>1. FollowsTo(u, i)'
    <3>1. u[1] = 0
      BY <1>3, <1>4, <1>9 DEF FollowsTo, PassedSoFar
    <3> QED  BY <1>1, <1>9, <1>11, <1>15, <3>1 DEF FollowsTo
  <2>2. at' = u[i']
    BY <1>1, <1>3, <1>9 DEF PassedSoFar
  <2> QED  BY <1>1, <1>12, <1>13, <1>14, <1>15, <2>1, <2>2 DEF PassedSoFar
<1>17. \A l \in Labels \ Defined : seen[l] = Unknown /\ previous[l] = Unknown
  BY DEF SettleInv
<1>18. phase' = "pass" /\ ~settled'
  BY <1>1, <1>2
<1>19. \E x : PassedSoFar(x)'
  BY <1>16
<1> QED  BY <1>2, <1>15, <1>17, <1>18, <1>19 DEF SettleInv

\* The pass ends: the next one starts at the front, or what the settled one saw is kept.
LEMMA EndPassSettle == ASSUME SettleInv, EndPass PROVE SettleInv'
<1>1. /\ UNCHANGED <<input, long, layout, changed>>
      /\ phase = "pass" /\ i \notin Pieces /\ i' = 1 /\ at' = 0
      /\ seen' = seen /\ previous' = seen /\ settled' = Stable
      /\ phase' = IF Stable \/ LastPass THEN "lay" ELSE "pass"
  BY DEF EndPass, Restart, Carried
<1>2. SafeInv /\ SafeInv' /\ NumTypes /\ BoolTypes
  BY EndPassSafe DEF SettleInv, SafeInv
<1>3. PICK o : PassedSoFar(o)
  BY <1>1 DEF SettleInv
<1>4. /\ Len(code) \in Nat /\ Pieces = 1..Len(code) /\ i = Len(code) + 1
      /\ \A p \in Branches : code[p].target \in Labels
  BY <1>1, <1>2, SectionShape DEF NumTypes
<1>5. /\ code' = code /\ Pieces' = Pieces /\ Branches' = Branches /\ LabelPieces' = LabelPieces
      /\ Defined' = Defined /\ long' = long
  BY <1>1, SectionStays
<1>6. phase' = "pass" => ~settled' /\ \E x : PassedSoFar(x)'
  <2> DEFINE z == [p \in 1..Len(code) + 1 |-> 0]
  <2>1. \A p \in Pieces : ~(p < i')
    BY <1>1, <1>4
  <2>2. PICK x : x = z
    OBVIOUS
  <2>3. FollowsTo(x, i)'
    BY <1>4, <1>5, <2>1, <2>2 DEF FollowsTo
  <2>4. at' = x[i'] /\ seen' = previous'
    BY <1>1, <1>4, <2>2
  <2>5. PassedSoFar(x)'
    BY <1>5, <2>1, <2>3, <2>4 DEF PassedSoFar, LabelPieces, Branches
  <2>6. phase' = "pass" => ~settled'
    BY <1>1
  <2> QED  BY <2>5, <2>6
<1>7. settled' => \E x : Agreed(x)' /\ FoundAgain(x)'
  <2> SUFFICES ASSUME settled' PROVE Agreed(o)' /\ FoundAgain(o)'
    OBVIOUS
  <2>1. seen = previous /\ phase' = "lay"
    BY <1>1 DEF Stable
  <2>2. \A p \in Pieces : p < i
    BY <1>4
  <2>3. FollowsTo(o, Len(code) + 1)'
    BY <1>3, <1>4, <1>5, <2>2 DEF PassedSoFar, FollowsTo
  <2>4. \A p \in LabelPieces : seen[code[p].label] = o[p]
    BY <1>3, <2>2 DEF PassedSoFar, LabelPieces
  <2>5. \A p \in Branches : long[p] <=> ~ShortFor(seen[code[p].target], o[p])
    BY <1>3, <2>1, <2>2 DEF PassedSoFar, Branches
  <2>6. Agreed(o)'
    BY <1>1, <1>5, <2>3, <2>4, <2>5 DEF Agreed
  <2>7. \A p \in 1..Len(code) + 1 : ~(p < i')
    BY <1>1, <1>4
  <2>8. at' = o[i']
    BY <1>1, <1>3 DEF PassedSoFar, FollowsTo
  <2>9. FoundAgain(o)'
    BY <1>4, <1>5, <2>1, <2>7, <2>8 DEF FoundAgain, LabelPieces
  <2> QED  BY <2>6, <2>9
<1>8. \A l \in Labels \ Defined' : seen'[l] = Unknown /\ previous'[l] = Unknown
  BY <1>1, <1>5 DEF SettleInv
<1> QED  BY <1>2, <1>6, <1>7, <1>8 DEF SettleInv

\* The loop after the passes: nothing about the passes changes any more.
LEMMA LayPieceSettle == ASSUME SettleInv, LayPiece PROVE SettleInv'
<1>1. /\ UNCHANGED <<input, long, phase, sizing, changed>> /\ phase = "lay"
      /\ at' = at + Size(code[i], long[i]) /\ i' = i + 1 /\ offsets' = [offsets EXCEPT ![i] = at]
      /\ labels' = IF code[i].tag = "Label" THEN [labels EXCEPT ![code[i].label] = at] ELSE labels
      /\ i \in Pieces
  BY DEF LayPiece
<1>2. SafeInv /\ SafeInv' /\ NumTypes /\ BoolTypes
  BY LayPieceSafe DEF SettleInv, SafeInv
<1>3. Len(code) \in Nat /\ Pieces = 1..Len(code)
  BY <1>2, SectionShape DEF NumTypes
<1>4. /\ code' = code /\ Pieces' = Pieces /\ Branches' = Branches /\ LabelPieces' = LabelPieces
      /\ Defined' = Defined /\ long' = long
  BY <1>1, SectionStays
<1>5. seen' = seen /\ previous' = previous /\ settled' = settled
  BY <1>1 DEF sizing
<1>6. settled' => \E x : Agreed(x)' /\ FoundAgain(x)'
  <2> SUFFICES ASSUME settled PROVE \E x : Agreed(x)' /\ FoundAgain(x)'
    BY <1>5
  <2>1. PICK o : Agreed(o) /\ FoundAgain(o)
    BY DEF SettleInv
  <2>2. Agreed(o)'
    BY <1>4, <1>5, <2>1 DEF Agreed, FollowsTo
  <2>3. at = o[i] /\ at' = o[i']
    BY <1>1, <1>3, <2>1 DEF FoundAgain, Agreed, FollowsTo
  <2>4. ASSUME NEW p \in 1..Len(code) + 1, p < i' PROVE offsets'[p] = o[p]
    BY <1>1, <1>2, <1>3, <2>1, <2>3, <2>4 DEF FoundAgain, NumTypes
  <2>5. ASSUME NEW p \in LabelPieces, p < i' PROVE labels'[code[p].label] = o[p]
    <3>1. p \in Pieces /\ code[p].label \in Labels
      BY <1>2, SectionShape DEF NumTypes, LabelPieces
    <3>2. CASE p = i
      BY <1>1, <1>2, <2>3, <3>1, <3>2 DEF NumTypes, LabelPieces
    <3>3. CASE p # i
      <4>1. labels'[code[p].label] = labels[code[p].label]
        BY <1>1, <1>2, <3>1, <3>3, SectionShape DEF NumTypes, LabelPieces
      <4> QED  BY <1>1, <1>3, <2>1, <2>5, <3>1, <3>3, <4>1 DEF FoundAgain
    <3> QED  BY <3>2, <3>3
  <2>6. FoundAgain(o)'
    BY <1>1, <1>4, <2>3, <2>4, <2>5 DEF FoundAgain
  <2> QED  BY <2>2, <2>6
<1> QED  BY <1>1, <1>2, <1>4, <1>5, <1>6 DEF SettleInv

LEMMA EndLaySettle == ASSUME SettleInv, EndLay PROVE SettleInv'
<1>1. /\ UNCHANGED <<input, long, sizing, labels>>
      /\ phase = "lay" /\ phase' = "widen" /\ i' = 1 /\ ~changed'
      /\ offsets' = [offsets EXCEPT ![i] = at] /\ i \notin Pieces
  BY DEF EndLay, Restart
<1>2. SafeInv /\ SafeInv' /\ NumTypes /\ BoolTypes
  BY EndLaySafe DEF SettleInv, SafeInv
<1>3. Len(code) \in Nat /\ Pieces = 1..Len(code) /\ i = Len(code) + 1
  BY <1>1, <1>2, SectionShape DEF NumTypes
<1>4. /\ code' = code /\ Pieces' = Pieces /\ Branches' = Branches /\ LabelPieces' = LabelPieces
      /\ Defined' = Defined /\ long' = long /\ labels' = labels
  BY <1>1, SectionStays
<1>5. seen' = seen /\ previous' = previous /\ settled' = settled
  BY <1>1 DEF sizing
<1>6. settled' => \E x : Agreed(x)' /\ FoundAgain(x)'
  <2> SUFFICES ASSUME settled PROVE \E x : Agreed(x)' /\ FoundAgain(x)'
    BY <1>5
  <2>1. PICK o : Agreed(o) /\ FoundAgain(o)
    BY DEF SettleInv
  <2>2. Agreed(o)'
    BY <1>4, <1>5, <2>1 DEF Agreed, FollowsTo
  <2>3. \A p \in 1..Len(code) + 1 : offsets'[p] = o[p]
    BY <1>1, <1>2, <1>3, <2>1 DEF FoundAgain, NumTypes
  <2>4. \A p \in LabelPieces : labels[code[p].label] = o[p]
    BY <1>1, <1>3, <2>1 DEF FoundAgain, LabelPieces
  <2>5. FoundAgain(o)'
    BY <1>1, <1>4, <2>3, <2>4 DEF FoundAgain
  <2> QED  BY <2>2, <2>5
<1>7. phase' # "pass"
  BY <1>1
<1> QED  BY <1>2, <1>4, <1>5, <1>6, <1>7 DEF SettleInv

LEMMA WidenBranchSettle == ASSUME SettleInv, WidenBranch PROVE SettleInv'
<1> DEFINE grow == ~Undefined(i) /\ TooFar(i)
<1>1. /\ UNCHANGED <<input, at, sizing, layout>> /\ phase = "widen"
      /\ long' = [long EXCEPT ![i] = grow] /\ changed' = (changed \/ grow)
      /\ phase' = IF Undefined(i) THEN "failed" ELSE phase
      /\ i \in Branches /\ ~long[i]
  BY DEF WidenBranch
<1>2. SafeInv /\ SafeInv' /\ NumTypes /\ BoolTypes
  BY WidenBranchSafe DEF SettleInv, SafeInv
<1>3. Len(code) \in Nat /\ Pieces = 1..Len(code) /\ i \in Pieces /\ code[i].target \in Labels
  BY <1>1, <1>2, SectionShape DEF NumTypes, Branches
<1>4. /\ code' = code /\ Pieces' = Pieces /\ Branches' = Branches /\ LabelPieces' = LabelPieces
      /\ Defined' = Defined /\ labels' = labels /\ offsets' = offsets
  BY <1>1, SectionStays DEF layout
<1>5. seen' = seen /\ previous' = previous /\ settled' = settled
  BY <1>1 DEF sizing
<1>6. settled' => \E x : Agreed(x)' /\ FoundAgain(x)'
  <2> SUFFICES ASSUME settled PROVE \E x : Agreed(x)' /\ FoundAgain(x)'
    BY <1>5
  <2>1. PICK o : Agreed(o) /\ FoundAgain(o)
    BY DEF SettleInv
  <2>2. offsets[i] = o[i]
    BY <1>1, <1>3, <2>1 DEF FoundAgain
  <2>3. ~grow
    <3> SUFFICES ASSUME ~Undefined(i) PROVE Reaches(labels[code[i].target], offsets[i])
      BY DEF TooFar
    <3>1. code[i].target \in Defined
      BY <1>2, <1>3 DEF SafeInv, UndefinedStay, Undefined
    <3>2. labels[code[i].target] = previous[code[i].target]
      BY <1>1, <2>1, <3>1 DEF Defined, FoundAgain, Agreed
    <3>3. ShortFor(previous[code[i].target], o[i])
      BY <1>1, <2>1 DEF Agreed
    <3> QED  BY <2>2, <3>2, <3>3 DEF ShortFor, Undefined
  <2>4. long' = long
    <3> HIDE DEF grow
    <3>1. long[i] \in BOOLEAN
      BY <1>2, <1>3 DEF BoolTypes
    <3>2. grow \in BOOLEAN
      BY DEF grow
    <3>3. grow = long[i]
      BY <1>1, <2>3, <3>1, <3>2
    <3>4. long' = [long EXCEPT ![i] = long[i]]
      BY <1>1, <3>3
    <3> QED  BY <1>2, <3>4 DEF BoolTypes
  <2>5. ~changed'
    BY <1>1, <2>1, <2>3 DEF FoundAgain
  <2>6. Agreed(o)'
    BY <1>4, <1>5, <2>1, <2>4 DEF Agreed, FollowsTo
  <2>7. phase' # "lay"
    BY <1>1
  <2>8. FoundAgain(o)'
    BY <1>1, <1>4, <2>1, <2>5, <2>7 DEF FoundAgain
  <2> QED  BY <2>6, <2>8
<1>7. phase' # "pass"
  BY <1>1
<1> QED  BY <1>2, <1>4, <1>5, <1>6, <1>7 DEF SettleInv

LEMMA LaterSettle ==
    ASSUME SettleInv, WidenSkip \/ EndWiden, SafeInv'
    PROVE  SettleInv'
<1>1. /\ UNCHANGED <<input, long, sizing, layout, changed>> /\ phase = "widen"
      /\ phase' \in {"widen", "failed", "done", "lay"}
      /\ phase' = "lay" => changed
  BY DEF WidenSkip, EndWiden
<1>2. /\ code' = code /\ Pieces' = Pieces /\ Branches' = Branches /\ LabelPieces' = LabelPieces
      /\ Defined' = Defined /\ labels' = labels /\ offsets' = offsets
      /\ long' = long /\ changed' = changed
  BY <1>1, SectionStays DEF layout
<1>3. seen' = seen /\ previous' = previous /\ settled' = settled
  BY <1>1 DEF sizing
<1>4. settled' => \E x : Agreed(x)' /\ FoundAgain(x)'
  <2> SUFFICES ASSUME settled PROVE \E x : Agreed(x)' /\ FoundAgain(x)'
    BY <1>3
  <2>1. PICK o : Agreed(o) /\ FoundAgain(o)
    BY DEF SettleInv
  <2>2. phase' # "lay"
    BY <1>1, <2>1 DEF FoundAgain
  <2>3. Agreed(o)'
    BY <1>2, <1>3, <2>1 DEF Agreed, FollowsTo
  <2>4. FoundAgain(o)'
    BY <1>1, <1>2, <2>1, <2>2 DEF FoundAgain
  <2> QED  BY <2>3, <2>4
<1>5. phase' # "pass"
  BY <1>1
<1> QED  BY <1>2, <1>3, <1>4, <1>5 DEF SettleInv

LEMMA SettleStep == SettleInv /\ [Next]_vars => SettleInv'
<1> SUFFICES ASSUME SettleInv, [Next]_vars PROVE SettleInv'
  OBVIOUS
<1>1. CASE PassLabel  BY <1>1, PassLabelSettle
<1>2. CASE PassBranch  BY <1>2, PassBranchSettle
<1>3. CASE EndPass  BY <1>3, EndPassSettle
<1>4. CASE LayPiece  BY <1>4, LayPieceSettle
<1>5. CASE EndLay  BY <1>5, EndLaySettle
<1>6. CASE WidenBranch  BY <1>6, WidenBranchSettle
<1>7. CASE WidenSkip  BY <1>7, WidenSkipSafe, LaterSettle DEF SettleInv
<1>8. CASE EndWiden  BY <1>8, EndWidenSafe, LaterSettle DEF SettleInv
<1>9. CASE UNCHANGED vars
  <2>1. /\ UNCHANGED <<code, limit, long, phase, i, at, seen, previous>>
        /\ UNCHANGED <<resized, settled, passes, offsets, labels, changed>>
    BY <1>9 DEF vars, input, sizing, layout
  <2>2. Pieces' = Pieces /\ Branches' = Branches /\ LabelPieces' = LabelPieces /\ Defined' = Defined
    BY <2>1, SectionStays DEF input
  <2>3. SafeInv'
    BY <1>9, SafeStep DEF SettleInv
  <2>4. \A o : FollowsTo(o, i)' <=> FollowsTo(o, i)
    BY <2>1, <2>2 DEF FollowsTo
  <2>5. \A o : PassedSoFar(o)' <=> PassedSoFar(o)
    BY <2>1, <2>2, <2>4 DEF PassedSoFar
  <2>6. \A o : Agreed(o)' <=> Agreed(o)
    BY <2>1, <2>2 DEF Agreed, FollowsTo
  <2>7. \A o : FoundAgain(o)' <=> FoundAgain(o)
    BY <2>1, <2>2 DEF FoundAgain
  <2> QED  BY <2>1, <2>2, <2>3, <2>5, <2>6, <2>7 DEF SettleInv
<1> QED
  BY <1>1, <1>2, <1>3, <1>4, <1>5, <1>6, <1>7, <1>8, <1>9 DEF Next, Relaxing, Returned

\* When the sizing passes settle, the loop after them changes nothing: the layout it
\* returns is the one they saw, and a branch is long exactly if a short one would not
\* reach.
THEOREM SettledLayout == Spec => []SettledIsFinal
<1>1. SettleInv => SettledIsFinal
  <2> SUFFICES ASSUME SettleInv, phase = "done", settled PROVE SettledIsFinal
    BY DEF SettledIsFinal
  <2>1. PICK o : Agreed(o) /\ FoundAgain(o)
    BY DEF SettleInv
  <2>2. SafeInv /\ NumTypes
    BY DEF SettleInv, SafeInv
  <2>3. \A l \in Labels : labels[l] = previous[l]
    <3> SUFFICES ASSUME NEW l \in Labels PROVE labels[l] = previous[l]
      OBVIOUS
    <3>1. CASE l \in Defined
      BY <2>1, <3>1 DEF Defined, Agreed, FoundAgain
    <3>2. CASE l \notin Defined
      BY <2>2, <3>2 DEF SettleInv, SafeInv, UndefinedStay
    <3> QED  BY <3>1, <3>2
  <2>4. labels = previous
    BY <2>2, <2>3 DEF NumTypes
  <2>5. ASSUME NEW p \in Branches
        PROVE  long[p] <=> ~Reaches(labels[code[p].target], offsets[p])
    <3>1. p \in Pieces /\ Len(code) \in Nat /\ Pieces = 1..Len(code)
      BY <2>2, SectionShape DEF NumTypes, Branches
    <3>2. offsets[p] = o[p]
      BY <2>1, <3>1 DEF FoundAgain
    <3>3. PICK q \in LabelPieces : code[q].label = code[p].target
      BY <2>2 DEF SafeInv, UndefinedStay, Defined
    <3>4. labels[code[p].target] = offsets[q] /\ offsets[q] \in Nat
      BY <2>2, <3>1, <3>3 DEF SafeInv, Checked, NumTypes, LabelPieces
    <3>5. labels[code[p].target] # Unknown
      BY <3>4 DEF Unknown
    <3> QED  BY <2>1, <2>4, <3>2, <3>5 DEF Agreed, ShortFor
  <2> QED  BY <2>4, <2>5 DEF SettledIsFinal
<1> QED  BY <1>1, InitSettle, SettleStep, PTL DEF Spec
=============================================================================
