------------------------------- MODULE MCRelax -------------------------------
(* Relax on all sections of a few pieces.  The reach of a short branch is    *)
(* scaled down so that a few bytes are far; branch sizes are the real ones.  *)
EXTENDS Relax, FiniteSets

CONSTANTS Lens, Longest

Back == -8

Alphabet ==
    [tag : {"Bytes"}, len : Lens] \cup [tag : {"Label"}, label : Labels]
      \cup [tag : {"Branch"}, cond : BOOLEAN, target : Labels]

\* A label is defined at most once, bytes come in one piece, and labels are numbered in
\* the order of their definitions (relax never compares two numbers, so that another
\* numbering would only rename them).
Plausible(s) ==
    \A p, q \in DOMAIN s :
      /\ p # q /\ s[p].tag = "Label" => s[p] # s[q]
      /\ q = p + 1 => ~(s[p].tag = "Bytes" /\ s[q].tag = "Bytes")
      /\ s[q].tag = "Label" /\ s[q].label > 1 =>
           \E r \in 1..q - 1 : s[r] = [tag |-> "Label", label |-> s[q].label - 1]

Sections == {s \in [1..Longest -> Alphabet] : Plausible(s)}
=============================================================================
