---------------------------- MODULE MCDominators ----------------------------
(* Dominators on every graph of four blocks, and on every graph of three    *)
(* whose terminators may also name a block that is not there.               *)
EXTENDS Dominators, SequencesExt

CONSTANTS b0, b1, b2, b3, ghost

Order == <<b0, b1, b2, b3>>
Four == ToSet(Order)
FourAndGhost == Four \cup {ghost}

\* Blocks other than the entry are numbered in the order they are mentioned (the code
\* compares reverse post-order numbers and never ids, so that another numbering would
\* only rename them).
Plausible(g) ==
    LET mentions == g[b0] \o g[b1] \o g[b2] \o g[b3]
    IN  \A i \in 3..4, p \in DOMAIN mentions :
          mentions[p] = Order[i] => \E q \in 1..p - 1 : mentions[q] = Order[i - 1]

Naming(blocks) == {s \in SuccLists : ToSet(s) \subseteq blocks}

FourBlocks == [Four -> Naming(Four)]
ThreeBlocks ==
    {g \in [Four -> Naming(FourAndGhost \ {b3})] : g[b3] = <<>>}

Every == {g \in FourBlocks \cup ThreeBlocks : Plausible(g)}
=============================================================================
