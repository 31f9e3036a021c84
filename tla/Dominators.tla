----------------------------- MODULE Dominators -----------------------------
(***************************************************************************)
(* The control-flow analysis behind the verifier's dominance check:        *)
(* CfgInfo::compute, CfgInfo::dominates and intersect of                   *)
(* src/src/verify/cfg.rs.  One step of the model is one turn of one of the *)
(* code's loops.                                                           *)
(*                                                                         *)
(*   dfs    the iterative depth-first search that records post-order       *)
(*   pass   the `for b in rpo.skip(1)' loop inside `while changed'         *)
(*   fold   the loop over the predecessors of one block                    *)
(*   meet   intersect: two fingers climb the tree built so far             *)
(*   done   compute() has returned                                         *)
(*                                                                         *)
(* A terminator names at most two blocks; it may name a block id that does *)
(* not exist (a member of Targets outside Blocks), which the code skips.   *)
(***************************************************************************)
EXTENDS Integers, Sequences, FiniteSets

CONSTANTS Blocks,    \* the blocks of the function, f.blocks
          Entry,     \* block 0
          Targets,   \* the block ids a terminator may name
          Graphs,    \* the control-flow graphs to analyse
          None       \* Option::None

SuccLists == {<<>>} \cup {<<t>> : t \in Targets} \cup {<<t, u>> : t, u \in Targets}

ASSUME BlocksAssumption ==
    /\ Entry \in Blocks
    /\ Blocks \subseteq Targets
    /\ Graphs \subseteq [Blocks -> SuccLists]
    /\ None \notin Targets

VARIABLES succ,       \* successor list of each block, never changes
          pc,
          reachable,  \* the blocks marked so far
          stack,      \* DFS stack of [block, next], the top is the last element
          post,       \* blocks in the order the search retires them
          rpoNum,     \* reverse post-order number of each reachable block
          idom,       \* immediate dominator found so far, or None
          changed,
          pos,        \* rpo number of the block the pass is at
          last,       \* rpo number of the last predecessor folded, -1 before the first
          newIdom,
          fa, fb      \* the two fingers of intersect

graph == <<succ, reachable, stack, post, rpoNum>>
fingers == <<fa, fb>>
vars == <<succ, pc, reachable, stack, post, rpoNum, idom, changed, pos, last, newIdom, fa, fb>>

-----------------------------------------------------------------------------
(* Reference definitions, independent of the algorithm.                    *)

Succs(b) == {succ[b][i] : i \in DOMAIN succ[b]} \cap Blocks

\* S holds the entry, unless d is the entry, and every successor but d of its members.
ClosedAvoiding(S, d) ==
    /\ Entry \in S \cup {d}
    /\ \A b \in S : Succs(b) \ {d} \subseteq S

\* b can be reached from the entry: it is in every closed set.
IsReachable(b) == \A S \in SUBSET Blocks : ClosedAvoiding(S, None) => b \in S

\* Every path from the entry to b goes through d: without d, b is out of reach.
IsDominator(d, b) ==
    \/ d = b
    \/ \E S \in SUBSET (Blocks \ {d}) : ClosedAvoiding(S, d) /\ b \notin S

-----------------------------------------------------------------------------
Init ==
    /\ succ \in Graphs
    /\ pc = "dfs"
    /\ reachable = {Entry}
    /\ stack = <<[block |-> Entry, next |-> 0]>>
    /\ post = <<>>
    /\ rpoNum = <<>>
    /\ idom = [b \in Blocks |-> None]
    /\ changed = TRUE
    /\ pos = 0
    /\ last = -1
    /\ newIdom = None
    /\ fa = None
    /\ fb = None

Top == stack[Len(stack)]

Pop(s) == SubSeq(s, 1, Len(s) - 1)

\* A definition named ...Bug makes one plausible mistake in the definition that
\* follows it.  No specification uses it; it shows that a property would notice.

UnvisitedBug(t) == t \notin reachable        \* no `s.index() < n'
Unvisited(t) == t \in Blocks \ reachable

AdvancedBug == Append(Pop(stack), [Top EXCEPT !.next = Len(succ[Top.block])])
Advanced == Append(Pop(stack), [Top EXCEPT !.next = @ + 1])

Descend(b) == Append(Advanced, [block |-> b, next |-> 0])

\* Look at the next successor of the block on top, last successor first.
DfsVisit ==
    /\ pc = "dfs" /\ stack # <<>>
    /\ Top.next < Len(succ[Top.block])
    /\ LET t == succ[Top.block][Len(succ[Top.block]) - Top.next]
       IN  IF Unvisited(t)
           THEN reachable' = reachable \cup {t} /\ stack' = Descend(t)
           ELSE stack' = Advanced /\ UNCHANGED reachable
    /\ UNCHANGED <<succ, pc, post, rpoNum, idom, changed, pos, last, newIdom, fingers>>

\* All successors seen: the block on top is retired.
DfsRetire ==
    /\ pc = "dfs" /\ stack # <<>>
    /\ Top.next = Len(succ[Top.block])
    /\ post' = Append(post, Top.block)
    /\ stack' = Pop(stack)
    /\ UNCHANGED <<succ, pc, reachable, rpoNum, idom, changed, pos, last, newIdom, fingers>>

RpoNumberBug(b) == (CHOOSE n \in DOMAIN post : post[n] = b) - 1   \* no `.rev()'
RpoNumber(b) == Len(post) - (CHOOSE n \in DOMAIN post : post[n] = b)

\* Number the blocks in reverse post-order and enter the fixpoint loop.
Number ==
    /\ pc = "dfs" /\ stack = <<>>
    /\ rpoNum' = [b \in reachable |-> RpoNumber(b)]
    /\ idom' = [idom EXCEPT ![Entry] = Entry]
    /\ pc' = "pass"
    /\ changed' = FALSE
    /\ pos' = 1
    /\ UNCHANGED <<succ, reachable, stack, post, last, newIdom, fingers>>

-----------------------------------------------------------------------------
\* Reachable predecessors of b.
Preds(b) == {p \in reachable : b \in Succs(p)}

\* p is the predecessor of b that follows rpo number n: the code's predecessor
\* lists are filled in reverse post-order.
NextPred(p, b, n) ==
    /\ p \in Preds(b) /\ rpoNum[p] > n
    /\ \A q \in Preds(b) : rpoNum[q] > n => rpoNum[p] <= rpoNum[q]

Current == CHOOSE b \in reachable : rpoNum[b] = pos

StartBlock ==
    /\ pc = "pass" /\ pos < Len(post)
    /\ pc' = "fold"
    /\ last' = -1
    /\ newIdom' = None
    /\ UNCHANGED <<graph, idom, changed, pos, fingers>>

\* The for loop is over: run another pass if this one changed something.
EndPass ==
    /\ pc = "pass" /\ pos >= Len(post)
    /\ IF changed THEN pc' = "pass" /\ pos' = 1
                  ELSE pc' = "done" /\ UNCHANGED pos
    /\ changed' = FALSE
    /\ UNCHANGED <<graph, idom, last, newIdom, fingers>>

InTreeBug(p) == TRUE                        \* no `idom[p].is_some()'
InTree(p) == idom[p] # None

FirstCandidateBug == TRUE                   \* every predecessor replaces the candidate
FirstCandidate == newIdom = None

\* Take the next predecessor: skip it, adopt it, or intersect it with the candidate.
FoldPred ==
    /\ pc = "fold"
    /\ \E p \in Preds(Current) :
         /\ NextPred(p, Current, last)
         /\ last' = rpoNum[p]
         /\ \/ /\ ~InTree(p)
               /\ UNCHANGED <<pc, newIdom, fingers>>
            \/ /\ InTree(p) /\ FirstCandidate
               /\ newIdom' = p
               /\ UNCHANGED <<pc, fingers>>
            \/ /\ InTree(p) /\ ~FirstCandidate
               /\ pc' = "meet"
               /\ fa' = p /\ fb' = newIdom
               /\ UNCHANGED newIdom
    /\ UNCHANGED <<graph, idom, changed, pos>>

\* No predecessor is left: record the candidate if it differs.
SetIdom ==
    /\ pc = "fold"
    /\ ~\E p \in Preds(Current) : NextPred(p, Current, last)
    /\ IF newIdom # None /\ idom[Current] # newIdom
       THEN /\ idom' = [idom EXCEPT ![Current] = newIdom]
            /\ changed' = TRUE
       ELSE UNCHANGED <<idom, changed>>
    /\ pos' = pos + 1
    /\ pc' = "pass"
    /\ UNCHANGED <<graph, last, newIdom, fingers>>

Climb(b) == IF idom[b] = None THEN b ELSE idom[b]

\* One turn of intersect: the finger with the larger number climbs.
MeetClimb ==
    /\ pc = "meet" /\ fa # fb
    /\ \/ rpoNum[fa] > rpoNum[fb] /\ fa' = Climb(fa) /\ UNCHANGED fb
       \/ rpoNum[fb] > rpoNum[fa] /\ fb' = Climb(fb) /\ UNCHANGED fa
    /\ UNCHANGED <<graph, pc, idom, changed, pos, last, newIdom>>

MeetResultBug == newIdom                    \* keeps the first candidate
MeetResult == fa

MeetDone ==
    /\ pc = "meet" /\ fa = fb
    /\ newIdom' = MeetResult
    /\ pc' = "fold"
    /\ UNCHANGED <<graph, idom, changed, pos, last, fingers>>

Compute ==
    \/ DfsVisit \/ DfsRetire \/ Number
    \/ StartBlock \/ EndPass \/ FoldPred \/ SetIdom
    \/ MeetClimb \/ MeetDone

\* compute() has returned; nothing more happens.
Returned == pc = "done" /\ UNCHANGED vars

Next == Compute \/ Returned

Spec == Init /\ [][Next]_vars

\* Sequential code keeps running until it returns.
FairSpec == Spec /\ WF_vars(Compute)

-----------------------------------------------------------------------------
\* CfgInfo::dominates: climb from b until a or the root is met.
DominatesWalk(a, b) ==
    LET meets[x \in Blocks] ==
          \/ x = a
          \/ idom[x] \notin {None, x} /\ meets[idom[x]]
    IN  meets[b]

-----------------------------------------------------------------------------
(* Properties                                                              *)

\* Types of the variables; the sequences hold blocks of the function only.
TypeOK ==
    /\ succ \in Graphs
    /\ pc \in {"dfs", "pass", "fold", "meet", "done"}
    /\ reachable \in SUBSET Blocks
    /\ stack \in Seq([block : Blocks, next : Nat])
    /\ post \in Seq(Blocks)
    /\ rpoNum = <<>> \/ rpoNum \in [reachable -> Int]
    /\ idom \in [Blocks -> Blocks \cup {None}]
    /\ changed \in BOOLEAN
    /\ pos \in Nat /\ last \in Int
    /\ {newIdom, fa, fb} \subseteq Blocks \cup {None}

\* When compute() returns, the blocks the search marked and retired are exactly those a
\* path from the entry leads to (cfg.rs:45-73); edges to missing blocks lead nowhere.
ReachableExact ==
    pc = "done" =>
      /\ \A b \in Blocks : b \in reachable <=> IsReachable(b)
      /\ {post[n] : n \in DOMAIN post} = reachable

\* The tree under construction always climbs: an immediate dominator has a smaller
\* reverse post-order number than its block.  This is what keeps both inner loops of
\* intersect (cfg.rs:132) from spinning on `unwrap_or'.
IdomClimbs ==
    pc # "dfs" =>
      \A b \in Blocks \ {Entry} :
        idom[b] # None => /\ {b, idom[b]} \subseteq reachable
                          /\ rpoNum[idom[b]] < rpoNum[b]

\* What the verifier asks of the finished analysis (cfg.rs:112-129): among reachable
\* blocks, `dominates' answers yes exactly when every path from the entry to b goes
\* through a; and a block without a path from the entry has no immediate dominator.
DominanceExact ==
    pc = "done" =>
      /\ \A a, b \in reachable : DominatesWalk(a, b) <=> IsDominator(a, b)
      /\ \A b \in Blocks \ reachable : idom[b] = None

\* The fixpoint loop only ever moves an immediate dominator up the tree, never to a
\* later block and never back to None: the reason `while changed' ends.
IdomOnlyRises ==
    [][\A b \in Blocks :
         idom[b] # None => /\ idom'[b] # None
                           /\ rpoNum'[idom'[b]] <= rpoNum'[idom[b]]]_vars

\* compute() returns on every control-flow graph, irreducible ones included.
Terminates == <>(pc = "done")
=============================================================================
