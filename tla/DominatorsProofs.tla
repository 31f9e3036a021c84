------------------------- MODULE DominatorsProofs --------------------------
(***************************************************************************)
(* For every control-flow graph: the search marks the blocks that can be   *)
(* reached, and the tree the fixpoint loop ends with is the dominator tree.*)
(* DfsInv follows the search; what it leaves to the loop is GraphInv, which*)
(* no later step touches.  TreeInv holds of every tree the loop builds:    *)
(* it never climbs past a dominator, and what it has recorded is never     *)
(* further away than the common ancestors of the predecessors.  The other  *)
(* parts of LoopInv are about the pass and the block at hand.              *)
(*                                                                         *)
(* Where the argument is an induction, over the path to a block or down    *)
(* the tree, the proof takes the block with the least number among those   *)
(* that would be counterexamples.                                          *)
(***************************************************************************)
EXTENDS Dominators, SequenceTheorems, WellFoundedInduction, TLAPS

-----------------------------------------------------------------------------
(* The depth-first search.                                                   *)

OnStack == {stack[k].block : k \in DOMAIN stack}
Retired == {post[n] : n \in DOMAIN post}

\* Every block marked is on the stack or retired, once.
MarkedOnce ==
    /\ reachable = OnStack \cup Retired
    /\ OnStack \cap Retired = {}
    /\ \A j, k \in DOMAIN stack : stack[j].block = stack[k].block => j = k
    /\ \A m, n \in DOMAIN post : post[m] = post[n] => m = n

\* The successors the search has looked at are marked, the last successor first.
LookedAt ==
    /\ \A k \in DOMAIN stack :
         LET b == stack[k].block
         IN  /\ stack[k].next <= Len(succ[b])
             /\ \A j \in DOMAIN succ[b] :
                  j > Len(succ[b]) - stack[k].next /\ succ[b][j] \in Blocks
                    => succ[b][j] \in reachable
    /\ \A b \in Retired : Succs(b) \subseteq reachable

\* The stack is a path from the entry, which is the last block to be retired.
EntryFirst ==
    /\ stack # <<>> => stack[1].block = Entry
    /\ stack = <<>> => post # <<>> /\ post[Len(post)] = Entry

\* A marked block other than the entry has a predecessor that is retired later.
ParentLater ==
    /\ \A k \in DOMAIN stack : k > 1 => stack[k].block \in Succs(stack[k - 1].block)
    /\ \A n \in DOMAIN post : post[n] # Entry =>
         \E q \in OnStack \cup {post[m] : m \in {m \in DOMAIN post : m > n}} : post[n] \in Succs(q)

\* A path from the entry leads to every marked block.
MarkedSound == \A S \in SUBSET Blocks : ClosedAvoiding(S, None) => reachable \subseteq S

NothingYet == idom = [b \in Blocks |-> None] /\ rpoNum = <<>>

DfsInv ==
    pc = "dfs" =>
      MarkedOnce /\ LookedAt /\ EntryFirst /\ ParentLater /\ MarkedSound /\ NothingYet

-----------------------------------------------------------------------------
(* What the search leaves behind.                                            *)

Numbered ==
    /\ rpoNum \in [reachable -> Nat]
    /\ \A b, c \in reachable : rpoNum[b] = rpoNum[c] => b = c
    /\ \A b \in reachable : rpoNum[b] < Len(post)
    /\ \A n \in 0..Len(post) - 1 : \E b \in reachable : rpoNum[b] = n

GraphInv ==
    /\ reachable \subseteq Blocks
    /\ Numbered
    /\ Entry \in reachable /\ rpoNum[Entry] = 0
    /\ \A b \in reachable : Succs(b) \subseteq reachable
    /\ \A b \in reachable \ {Entry} :
         \E q \in reachable : b \in Succs(q) /\ rpoNum[q] < rpoNum[b]
    /\ MarkedSound
    /\ Retired = reachable

-----------------------------------------------------------------------------
(* The tree.                                                                 *)

Climbing(C) == \A x \in C : idom[x] # None => idom[x] \in C

\* a is b or above it in the tree: climbing from b one cannot avoid it.
Above(a, b) == \A C \in SUBSET Blocks : b \in C /\ Climbing(C) => a \in C

\* b can be reached from a by edges that lead to larger numbers.
Forward(C) == \A x \in C : \A y \in Succs(x) : rpoNum[x] < rpoNum[y] => y \in C
FlowsTo(a, b) == \A C \in SUBSET reachable : a \in C /\ Forward(C) => b \in C

InTreeBlocks == {b \in reachable \ {Entry} : idom[b] # None}
TreePreds(b) == {p \in Preds(b) : idom[p] # None}

\* c is above every predecessor of b that is in the tree.
CommonAbove(c, b) == \A p \in TreePreds(b) : Above(c, p)

RootIsEntry ==
    /\ idom \in [Blocks -> Blocks \cup {None}]
    /\ idom[Entry] = Entry
    /\ \A b \in Blocks \ {Entry} :
         idom[b] # None => /\ b \in reachable /\ idom[b] \in reachable
                           /\ rpoNum[idom[b]] < rpoNum[b]
                           /\ idom[idom[b]] # None

\* A dominator of a block, but the block itself, dominates the block above it: no
\* dominator is ever climbed past.
KeepsDominators ==
    \A b \in InTreeBlocks : \A d \in Blocks : d # b /\ IsDominator(d, b) => IsDominator(d, idom[b])

FlowsDown == \A b \in InTreeBlocks : FlowsTo(idom[b], b)

\* No common ancestor of the predecessors is nearer than what the loop has chosen.
NeverNearer ==
    \A b \in InTreeBlocks : \A c \in reachable : CommonAbove(c, b) => rpoNum[c] <= rpoNum[idom[b]]

TreeInv == RootIsEntry /\ KeepsDominators /\ FlowsDown /\ NeverNearer

-----------------------------------------------------------------------------
(* The pass.                                                                 *)

Before(n) == {b \in reachable \ {Entry} : rpoNum[b] < n}

\* The blocks before the one at hand are in the tree, below the common ancestors of
\* their earlier predecessors.
PassedBlocks ==
    /\ pos >= 1
    /\ \A b \in Before(pos) :
         /\ idom[b] # None
         /\ \A p \in Preds(b) : rpoNum[p] < rpoNum[b] => Above(idom[b], p)

\* If the pass has changed nothing, what it has seen is above all the predecessors.
SettledBlocks == ~changed => \A b \in Before(pos) : CommonAbove(idom[b], b)

\* c is above the predecessors of the block at hand that were folded before number n.
AboveFolded(c, n) == \A p \in TreePreds(Current) : rpoNum[p] < n => Above(c, p)

Candidate(c) ==
    /\ c \in reachable /\ idom[c] # None
    /\ \A d \in Blocks : d # Current /\ IsDominator(d, Current) => IsDominator(d, c)

\* The candidate is the nearest common ancestor of the predecessors folded so far.
FoldInv ==
    pc \in {"fold", "meet"} =>
      /\ pos < Len(post) /\ last \in Int
      /\ newIdom = None => \A p \in TreePreds(Current) : rpoNum[p] > last
      /\ pc = "fold" /\ newIdom # None =>
           /\ Candidate(newIdom) /\ rpoNum[newIdom] < pos
           /\ AboveFolded(newIdom, last + 1)
           /\ \A c \in reachable : AboveFolded(c, last + 1) => Above(c, newIdom)

\* The fingers climb from the candidate and from the predecessor folded last.
MeetInv ==
    pc = "meet" =>
      /\ Candidate(fa) /\ Candidate(fb) /\ rpoNum[fb] < pos
      /\ AboveFolded(fb, last)
      /\ \A p \in TreePreds(Current) : rpoNum[p] = last => Above(fa, p)
      /\ \A c \in reachable : AboveFolded(c, last + 1) => Above(c, fa) /\ Above(c, fb)

DoneInv == pc = "done" => ~changed /\ pos >= Len(post)

LoopInv ==
    pc # "dfs" => GraphInv /\ TreeInv /\ PassedBlocks /\ SettledBlocks /\ FoldInv /\ MeetInv /\ DoneInv

Inv == TypeOK /\ DfsInv /\ LoopInv

-----------------------------------------------------------------------------
(* Facts about numbers and sequences.                                        *)

\* A set of numbers that is not empty has a least element: what the proofs below have in
\* place of induction.
LEMMA Least ==
    ASSUME NEW T, T \subseteq Nat, T # {}
    PROVE  \E m \in T : \A k \in T : m <= k
<1>1. PICK m \in T : \A k \in T : ~(<<k, m>> \in OpToRel(<, Nat))
  BY NatLessThanWellFounded, WFMin
<1>2. \A k \in T : ~(k < m)
  BY <1>1 DEF OpToRel
<1> QED  BY <1>2

\* A set of blocks that carry numbers has a member with the least number.
LEMMA LeastNumbered ==
    ASSUME NEW T, NEW f, T # {}, \A b \in T : f[b] \in Nat
    PROVE  \E b \in T : \A c \in T : f[b] <= f[c]
<1>1. {f[b] : b \in T} \subseteq Nat /\ {f[b] : b \in T} # {}
  OBVIOUS
<1>2. PICK m \in {f[b] : b \in T} : \A k \in {f[b] : b \in T} : m <= k
  BY <1>1, Least
<1> QED  BY <1>2

\* Successor lists are sequences of ids a terminator may name.
LEMMA SuccShape ==
    ASSUME succ \in Graphs
    PROVE  \A b \in Blocks :
             /\ Len(succ[b]) \in Nat
             /\ DOMAIN succ[b] = 1..Len(succ[b])
             /\ \A j \in DOMAIN succ[b] : succ[b][j] \in Targets
<1> SUFFICES ASSUME NEW b \in Blocks
             PROVE  /\ Len(succ[b]) \in Nat
                    /\ DOMAIN succ[b] = 1..Len(succ[b])
                    /\ \A j \in DOMAIN succ[b] : succ[b][j] \in Targets
  OBVIOUS
<1>1. succ[b] \in SuccLists
  BY BlocksAssumption
<1>2. succ[b] \in Seq(Targets)
  <2>1. CASE succ[b] = <<>>
    BY <2>1
  <2>2. CASE \E t \in Targets : succ[b] = <<t>>
    BY <2>2
  <2>3. CASE \E t, u \in Targets : succ[b] = <<t, u>>
    BY <2>3
  <2> QED  BY <1>1, <2>1, <2>2, <2>3 DEF SuccLists
<1> QED  BY <1>2

Entries == [block : Blocks, next : Nat]

\* What popping the search stack leaves.
LEMMA PopShape ==
    ASSUME TypeOK, stack # <<>>
    PROVE  /\ Len(stack) \in Nat \ {0}
           /\ Top \in Entries
           /\ Pop(stack) \in Seq(Entries) /\ Len(Pop(stack)) = Len(stack) - 1
           /\ \A k \in 1..Len(stack) - 1 : Pop(stack)[k] = stack[k]
<1>1. stack \in Seq(Entries)
  BY DEF TypeOK, Entries
<1>2. Len(stack) \in Nat \ {0}
  BY <1>1, EmptySeq, LenProperties
<1>3. \A i \in 1..Len(stack) - 1 : stack[i] \in Entries
  BY <1>1, <1>2, ElementOfSeq
<1>4. Pop(stack) \in Seq(Entries) /\ Len(Pop(stack)) = Len(stack) - 1
      /\ \A k \in 1..Len(stack) - 1 : Pop(stack)[k] = stack[k]
  <2>0. PICK n : n = Len(stack) - 1
    OBVIOUS
  <2> DEFINE p == SubSeq(stack, 1, n)
  <2>1. /\ p \in Seq(Entries)
        /\ Len(p) = IF 1 <= n THEN n - 1 + 1 ELSE 0
        /\ \A i \in 1..n - 1 + 1 : p[i] = stack[1 + i - 1]
    <3>1. 1 \in Int /\ n \in Int /\ \A i \in 1..n : stack[i] \in Entries
      BY <1>2, <1>3, <2>0
    <3> QED  BY <3>1, SubSeqProperties
  <2> HIDE DEF p
  <2>2. Len(p) = Len(stack) - 1
    BY <2>0, <2>1, <1>2
  <2>3. \A k \in 1..Len(stack) - 1 : p[k] = stack[k]
    BY <2>0, <2>1, <1>2
  <2>4. Pop(stack) = p
    BY <2>0 DEF Pop, p
  <2> QED  BY <2>1, <2>2, <2>3, <2>4
<1> QED  BY <1>1, <1>2, <1>4, ElementOfSeq DEF Top

\* The stack with its top moved on to the next successor.
LEMMA AdvancedShape ==
    ASSUME TypeOK, stack # <<>>
    PROVE  /\ Advanced \in Seq(Entries) /\ Len(Advanced) = Len(stack)
           /\ \A k \in 1..Len(stack) : Advanced[k].block = stack[k].block
           /\ \A k \in 1..Len(stack) - 1 : Advanced[k] = stack[k]
           /\ Advanced[Len(stack)].next = Top.next + 1
<1> DEFINE e == [Top EXCEPT !.next = @ + 1]
<1>1. e \in Entries /\ e.block = Top.block /\ e.next = Top.next + 1
  BY PopShape DEF Entries
<1> HIDE DEF e
<1>2. Advanced = Append(Pop(stack), e)
  BY DEF Advanced, e
<1>3. Append(Pop(stack), e) \in Seq(Entries)
      /\ Len(Append(Pop(stack), e)) = Len(stack)
      /\ (\A k \in 1..Len(stack) - 1 : Append(Pop(stack), e)[k] = Pop(stack)[k])
      /\ Append(Pop(stack), e)[Len(stack)] = e
  BY <1>1, PopShape, AppendProperties
<1> QED  BY <1>1, <1>2, <1>3, PopShape DEF Top

\* The stack with a block found on top of it.
LEMMA DescendShape ==
    ASSUME TypeOK, stack # <<>>, NEW b \in Blocks
    PROVE  /\ Descend(b) \in Seq(Entries) /\ Len(Descend(b)) = Len(stack) + 1
           /\ \A k \in 1..Len(stack) : Descend(b)[k] = Advanced[k]
           /\ Descend(b)[Len(stack) + 1] = [block |-> b, next |-> 0]
<1>1. [block |-> b, next |-> 0] \in Entries
  BY DEF Entries
<1> QED  BY <1>1, AdvancedShape, PopShape, AppendProperties DEF Descend

-----------------------------------------------------------------------------
(* The search keeps DfsInv.                                                  *)

\* What the search leaves alone.
Elsewhere == <<succ, idom, rpoNum, changed, pos, last, newIdom, fa, fb>>

\* What the definitions say of the graph stays true as long as the graph does.
LEMMA SameGraph ==
    ASSUME succ' = succ
    PROVE  /\ \A b : Succs(b)' = Succs(b)
           /\ \A S, d : ClosedAvoiding(S, d)' <=> ClosedAvoiding(S, d)
           /\ \A d, b : IsDominator(d, b)' <=> IsDominator(d, b)
<1>1. \A b : Succs(b)' = Succs(b)
  BY DEF Succs
<1>2. \A S, d : ClosedAvoiding(S, d)' <=> ClosedAvoiding(S, d)
  BY <1>1 DEF ClosedAvoiding
<1> QED  BY <1>1, <1>2 DEF IsDominator

\* The successor the search looks at, if it is a block, is a successor of the top.
LEMMA LookedAtBlock ==
    ASSUME TypeOK, stack # <<>>, Top.next < Len(succ[Top.block])
    PROVE  LET j == Len(succ[Top.block]) - Top.next
           IN  /\ j \in DOMAIN succ[Top.block]
               /\ succ[Top.block][j] \in Targets
               /\ succ[Top.block][j] \in Blocks => succ[Top.block][j] \in Succs(Top.block)
<1>1. Top.block \in Blocks /\ Top.next \in Nat
  BY PopShape DEF Entries
<1>2. succ \in Graphs
  BY DEF TypeOK
<1>3. Len(succ[Top.block]) \in Nat /\ DOMAIN succ[Top.block] = 1..Len(succ[Top.block])
      /\ \A j \in DOMAIN succ[Top.block] : succ[Top.block][j] \in Targets
  BY <1>1, <1>2, SuccShape
<1>4. Len(succ[Top.block]) - Top.next \in 1..Len(succ[Top.block])
  BY <1>1, <1>3
<1> QED  BY <1>3, <1>4 DEF Succs

\* Looking at a successor that is missing or already marked.
LEMMA SkipKeepsSearch ==
    ASSUME TypeOK, pc = "dfs", DfsInv, stack # <<>>, Top.next < Len(succ[Top.block]),
           ~Unvisited(succ[Top.block][Len(succ[Top.block]) - Top.next]),
           stack' = Advanced, reachable' = reachable, post' = post,
           Elsewhere' = Elsewhere
    PROVE  DfsInv'
<1> DEFINE n == Len(stack)
           t == succ[Top.block][Len(succ[Top.block]) - Top.next]
<1>0. MarkedOnce /\ LookedAt /\ EntryFirst /\ ParentLater /\ MarkedSound /\ NothingYet
  BY DEF DfsInv
<1>1. n \in Nat \ {0} /\ Len(stack') = n /\ DOMAIN stack = 1..n /\ DOMAIN stack' = 1..n
  <2>1. stack \in Seq(Entries) /\ stack' \in Seq(Entries) /\ Len(stack') = n
    BY AdvancedShape DEF TypeOK, Entries
  <2> QED  BY <2>1, PopShape
<1>2. \A k \in 1..n : stack'[k].block = stack[k].block
  BY AdvancedShape
<1>3. OnStack' = OnStack /\ Retired' = Retired
  BY <1>1, <1>2 DEF OnStack, Retired
<1>4. succ' = succ /\ idom' = idom /\ rpoNum' = rpoNum
  BY DEF Elsewhere
<1>5. MarkedOnce'
  BY <1>0, <1>1, <1>2, <1>3 DEF MarkedOnce
<1>6. LookedAt'
  <2>1. \A b \in Retired' : Succs(b)' \subseteq reachable'
    BY <1>0, <1>3, <1>4 DEF LookedAt, Succs
  <2>2. ASSUME NEW k \in DOMAIN stack'
        PROVE  LET b == stack'[k].block
               IN  /\ stack'[k].next <= Len(succ[b])
                   /\ \A j \in DOMAIN succ[b] :
                        j > Len(succ[b]) - stack'[k].next /\ succ[b][j] \in Blocks
                          => succ[b][j] \in reachable
    <3>1. CASE k # n
      <4>1. k \in 1..n - 1
        BY <1>1, <2>2, <3>1
      <4>2. stack'[k] = stack[k] /\ k \in DOMAIN stack
        BY <4>1, <1>1, AdvancedShape
      <4> QED  BY <4>2, <1>0 DEF LookedAt
    <3>2. CASE k = n
      <4> DEFINE b == Top.block
      <4>1. stack'[k].block = b /\ stack'[k].next = Top.next + 1
        BY <1>1, <1>2, <3>2, AdvancedShape DEF Top
      <4>2. b \in Blocks /\ Top.next \in Nat
        BY PopShape DEF Entries
      <4>3. Len(succ[b]) \in Nat /\ DOMAIN succ[b] = 1..Len(succ[b])
        BY <4>2, SuccShape DEF TypeOK
      <4>4. t \in Blocks => t \in reachable
        BY DEF Unvisited
      <4>5. ASSUME NEW j \in DOMAIN succ[b], j > Len(succ[b]) - (Top.next + 1),
                   succ[b][j] \in Blocks
            PROVE  succ[b][j] \in reachable
        <5>1. CASE j = Len(succ[b]) - Top.next
          BY <5>1, <4>4, <4>5
        <5>2. CASE j > Len(succ[b]) - Top.next
          BY <5>2, <4>5, <1>0, <1>1 DEF LookedAt, Top
        <5> QED  BY <5>1, <5>2, <4>2, <4>3, <4>5
      <4>6. Top.next + 1 <= Len(succ[b])
        BY <4>2, <4>3
      <4> QED  BY <4>1, <4>5, <4>6
    <3> QED  BY <3>1, <3>2
  <2> QED  BY <2>1, <2>2, <1>4 DEF LookedAt
<1>7. EntryFirst'
  <2>1. stack' # <<>> /\ stack'[1].block = stack[1].block
    BY <1>1, <1>2
  <2> QED  BY <1>0, <2>1 DEF EntryFirst
<1>8. ParentLater'
  <2>1. ASSUME NEW k \in DOMAIN stack', k > 1
        PROVE  stack'[k].block \in Succs(stack'[k - 1].block)
    <3>1. k \in 1..n /\ k - 1 \in 1..n
      BY <1>1, <2>1
    <3> QED  BY <3>1, <1>0, <1>1, <1>2, <2>1 DEF ParentLater
  <2>2. \A b : Succs(b)' = Succs(b)
    BY <1>4 DEF Succs
  <2> QED  BY <1>0, <1>3, <2>1, <2>2 DEF ParentLater
<1>9. MarkedSound' /\ NothingYet'
  BY <1>0, <1>4, SameGraph DEF MarkedSound, NothingYet
<1> QED  BY <1>5, <1>6, <1>7, <1>8, <1>9 DEF DfsInv

\* Marking a successor and putting it on the stack.
LEMMA DescendKeepsSearch ==
    ASSUME TypeOK, pc = "dfs", DfsInv, stack # <<>>, Top.next < Len(succ[Top.block]),
           NEW t, t = succ[Top.block][Len(succ[Top.block]) - Top.next],
           Unvisited(t),
           stack' = Descend(t), reachable' = reachable \cup {t}, post' = post,
           Elsewhere' = Elsewhere
    PROVE  DfsInv'
<1> DEFINE n == Len(stack)
<1>0. MarkedOnce /\ LookedAt /\ EntryFirst /\ ParentLater /\ MarkedSound /\ NothingYet
  BY DEF DfsInv
<1>t. t \in Blocks /\ t \notin reachable /\ t \in Succs(Top.block)
  BY LookedAtBlock DEF Unvisited
<1>1. n \in Nat \ {0} /\ Len(stack') = n + 1 /\ DOMAIN stack = 1..n /\ DOMAIN stack' = 1..n + 1
  <2>1. stack \in Seq(Entries) /\ stack' \in Seq(Entries) /\ Len(stack') = n + 1
    BY <1>t, DescendShape DEF TypeOK, Entries
  <2> QED  BY <2>1, PopShape
<1>2. /\ \A k \in 1..n : stack'[k].block = stack[k].block
      /\ stack'[n + 1].block = t /\ stack'[n + 1].next = 0
  <2>1. Descend(t)[n + 1] = [block |-> t, next |-> 0] /\ \A k \in 1..n : Descend(t)[k] = Advanced[k]
    BY <1>t, DescendShape
  <2> QED  BY <2>1, AdvancedShape
<1>3. OnStack' = OnStack \cup {t} /\ Retired' = Retired
  <2>1. OnStack' \subseteq OnStack \cup {t}
    <3> SUFFICES ASSUME NEW k \in DOMAIN stack'
                 PROVE  stack'[k].block \in OnStack \cup {t}
      BY DEF OnStack
    <3>1. k \in 1..n \/ k = n + 1
      BY <1>1
    <3> QED  BY <3>1, <1>1, <1>2 DEF OnStack
  <2>2. OnStack \subseteq OnStack'
    <3> SUFFICES ASSUME NEW k \in DOMAIN stack
                 PROVE  stack[k].block \in OnStack'
      BY DEF OnStack
    <3>1. k \in DOMAIN stack' /\ stack'[k].block = stack[k].block
      BY <1>1, <1>2
    <3> QED  BY <3>1 DEF OnStack
  <2>3. t \in OnStack'
    <3>1. n + 1 \in DOMAIN stack'
      BY <1>1
    <3> QED  BY <3>1, <1>2 DEF OnStack
  <2> QED  BY <2>1, <2>2, <2>3 DEF Retired
<1>4. succ' = succ /\ idom' = idom /\ rpoNum' = rpoNum
  BY DEF Elsewhere
<1>5. MarkedOnce'
  <2>1. t \notin OnStack /\ t \notin Retired
    BY <1>0, <1>t DEF MarkedOnce
  <2>2. reachable' = OnStack' \cup Retired' /\ OnStack' \cap Retired' = {}
    BY <1>0, <1>3, <2>1 DEF MarkedOnce
  <2>3. \A k \in 1..n : stack[k].block # t
    BY <2>1, <1>1 DEF OnStack
  <2>4. \A j, k \in 1..n + 1 : stack'[j].block = stack'[k].block => j = k
    <3> SUFFICES ASSUME NEW j \in 1..n + 1, NEW k \in 1..n + 1,
                        stack'[j].block = stack'[k].block
                 PROVE  j = k
      OBVIOUS
    <3>1. (j \in 1..n \/ j = n + 1) /\ (k \in 1..n \/ k = n + 1)
      BY <1>1
    <3>2. CASE j \in 1..n /\ k \in 1..n
      BY <3>2, <1>0, <1>1, <1>2 DEF MarkedOnce
    <3>3. CASE j = n + 1 \/ k = n + 1
      BY <3>1, <3>3, <2>3, <1>2
    <3> QED  BY <3>1, <3>2, <3>3
  <2> QED  BY <2>2, <2>4, <1>0, <1>1 DEF MarkedOnce
<1>6. LookedAt'
  <2>1. \A b \in Retired' : Succs(b)' \subseteq reachable'
    BY <1>0, <1>3, <1>4 DEF LookedAt, Succs
  <2>2. ASSUME NEW k \in DOMAIN stack'
        PROVE  LET b == stack'[k].block
               IN  /\ stack'[k].next <= Len(succ'[b])
                   /\ \A j \in DOMAIN succ'[b] :
                        j > Len(succ'[b]) - stack'[k].next /\ succ'[b][j] \in Blocks
                          => succ'[b][j] \in reachable'
    <3>1. CASE k \in 1..n - 1
      <4>1. stack'[k] = stack[k] /\ k \in DOMAIN stack
        <5>1. k \in 1..n
          BY <3>1, <1>1
        <5>2. Descend(t)[k] = Advanced[k]
          BY <5>1, <1>t, DescendShape
        <5> QED  BY <5>1, <5>2, <3>1, <1>1, AdvancedShape
      <4> QED  BY <4>1, <1>0, <1>4 DEF LookedAt
    <3>2. CASE k = n
      <4> DEFINE b == Top.block
      <4>1. stack'[k].block = b /\ stack'[k].next = Top.next + 1
        <5>1. k \in 1..n
          BY <3>2, <1>1
        <5>2. Descend(t)[k] = Advanced[k]
          BY <5>1, <1>t, DescendShape
        <5>3. Advanced[k].next = Top.next + 1
          BY <3>2, AdvancedShape
        <5> QED  BY <5>1, <5>2, <5>3, <3>2, <1>2 DEF Top
      <4>2. b \in Blocks /\ Top.next \in Nat
        BY PopShape DEF Entries
      <4>3. Len(succ[b]) \in Nat /\ DOMAIN succ[b] = 1..Len(succ[b])
        BY <4>2, SuccShape DEF TypeOK
      <4>5. ASSUME NEW j \in DOMAIN succ[b], j > Len(succ[b]) - (Top.next + 1),
                   succ[b][j] \in Blocks
            PROVE  succ[b][j] \in reachable'
        <5>1. CASE j = Len(succ[b]) - Top.next
          BY <5>1, <4>5
        <5>2. CASE j > Len(succ[b]) - Top.next
          <6>1. n \in DOMAIN stack /\ stack[n].block = b /\ stack[n].next = Top.next
            BY <1>1 DEF Top
          <6>2. succ[b][j] \in reachable
            BY <5>2, <6>1, <4>5, <1>0 DEF LookedAt
          <6> QED  BY <6>2
        <5> QED  BY <5>1, <5>2, <4>2, <4>3, <4>5
      <4>6. Top.next + 1 <= Len(succ[b])
        BY <4>2, <4>3
      <4> QED  BY <4>1, <4>5, <4>6, <1>4
    <3>3. CASE k = n + 1
      <4>1. stack'[k].block = t /\ stack'[k].next = 0
        BY <3>3, <1>2
      <4>2. Len(succ[t]) \in Nat /\ DOMAIN succ[t] = 1..Len(succ[t])
        BY <1>t, SuccShape DEF TypeOK
      <4>3. 0 <= Len(succ[t]) /\ \A j \in DOMAIN succ[t] : ~(j > Len(succ[t]) - 0)
        BY <4>2
      <4> QED  BY <4>1, <4>3, <1>4
    <3>4. k \in 1..n - 1 \/ k = n \/ k = n + 1
      BY <1>1, <2>2
    <3> QED  BY <3>1, <3>2, <3>3, <3>4
  <2> QED  BY <2>1, <2>2 DEF LookedAt
<1>7. EntryFirst'
  <2>1. stack' # <<>> /\ stack'[1].block = stack[1].block
    BY <1>1, <1>2
  <2> QED  BY <1>0, <2>1 DEF EntryFirst
<1>8. ParentLater'
  <2>2. \A b : Succs(b)' = Succs(b)
    BY <1>4 DEF Succs
  <2>1. ASSUME NEW k \in DOMAIN stack', k > 1
        PROVE  stack'[k].block \in Succs(stack'[k - 1].block)
    <3>1. CASE k \in 1..n
      <4>1. k - 1 \in 1..n
        BY <1>1, <2>1, <3>1
      <4> QED  BY <3>1, <4>1, <1>0, <1>1, <1>2, <2>1 DEF ParentLater
    <3>2. CASE k = n + 1
      <4>1. stack'[k].block = t /\ k - 1 = n /\ stack'[n].block = Top.block
        <5>1. n \in 1..n /\ k - 1 = n
          BY <3>2, <1>1
        <5> QED  BY <5>1, <3>2, <1>2 DEF Top
      <4> QED  BY <4>1, <1>t
    <3> QED  BY <3>1, <3>2, <1>1, <2>1
  <2>3. \A m \in DOMAIN post' : post'[m] # Entry =>
          \E q \in OnStack' \cup {post'[i] : i \in {i \in DOMAIN post' : i > m}} :
            post'[m] \in Succs(q)
    BY <1>0, <1>3 DEF ParentLater
  <2> QED  BY <2>1, <2>2, <2>3 DEF ParentLater
<1>9. MarkedSound'
  <2> SUFFICES ASSUME NEW S \in SUBSET Blocks, ClosedAvoiding(S, None)
               PROVE  reachable \cup {t} \subseteq S
    BY <1>4, SameGraph DEF MarkedSound
  <2>1. reachable \subseteq S
    BY <1>0 DEF MarkedSound
  <2>2. Top.block \in reachable
    BY <1>0, <1>1 DEF MarkedOnce, OnStack, Top
  <2>3. t # None
    BY <1>t, BlocksAssumption
  <2> QED  BY <2>1, <2>2, <2>3, <1>t DEF ClosedAvoiding
<1>10. NothingYet'
  BY <1>0, <1>4 DEF NothingYet
<1> QED  BY <1>5, <1>6, <1>7, <1>8, <1>9, <1>10 DEF DfsInv

\* Retiring the block on top of the stack.
LEMMA RetireKeepsSearch ==
    ASSUME TypeOK, DfsInv, DfsRetire
    PROVE  DfsInv'
<1> DEFINE n == Len(stack)
           m == Len(post)
           b == Top.block
<1>0. MarkedOnce /\ LookedAt /\ EntryFirst /\ ParentLater /\ MarkedSound /\ NothingYet
  BY DEF DfsInv, DfsRetire
<1>a. /\ stack # <<>> /\ Top.next = Len(succ[b])
      /\ post' = Append(post, b) /\ stack' = Pop(stack)
      /\ succ' = succ /\ idom' = idom /\ reachable' = reachable /\ rpoNum' = rpoNum
  BY DEF DfsRetire, graph
<1>1. n \in Nat \ {0} /\ DOMAIN stack = 1..n /\ DOMAIN stack' = 1..n - 1 /\ Len(stack') = n - 1
  <2>1. stack \in Seq(Entries) /\ stack' \in Seq(Entries) /\ Len(stack') = n - 1
    BY <1>a, PopShape DEF TypeOK, Entries
  <2> QED  BY <2>1, <1>a, PopShape
<1>2. \A k \in 1..n - 1 : stack'[k] = stack[k]
  BY <1>a, PopShape
<1>3. b \in Blocks /\ b = stack[n].block
  BY <1>a, PopShape DEF Entries, Top
<1>4. m \in Nat /\ DOMAIN post = 1..m /\ DOMAIN post' = 1..m + 1
      /\ post'[m + 1] = b /\ (\A i \in 1..m : post'[i] = post[i])
  <2>1. post \in Seq(Blocks)
    BY DEF TypeOK
  <2>2. /\ post' \in Seq(Blocks) /\ Len(post') = m + 1 /\ post'[m + 1] = b
        /\ \A i \in 1..m : post'[i] = post[i]
    BY <1>3, <1>a, <2>1, AppendProperties
  <2> QED  BY <2>1, <2>2, LenProperties
<1> HIDE DEF n, m, b
<1>5. Retired' = Retired \cup {b}
  BY <1>4 DEF Retired
<1>6. b \in OnStack /\ b \notin Retired
  BY <1>0, <1>1, <1>3 DEF OnStack, MarkedOnce
<1>7. OnStack' = OnStack \ {b}
  <2>1. \A k \in 1..n - 1 : stack'[k].block = stack[k].block /\ stack[k].block # b
    BY <1>0, <1>1, <1>2, <1>3 DEF MarkedOnce
  <2>2. \A c \in OnStack \ {b} : \E k \in 1..n - 1 : stack[k].block = c
    BY <1>1, <1>3 DEF OnStack
  <2>3. OnStack' \subseteq OnStack \ {b}
    BY <2>1, <1>1 DEF OnStack
  <2>4. OnStack \ {b} \subseteq OnStack'
    BY <2>1, <2>2, <1>1 DEF OnStack
  <2> QED  BY <2>3, <2>4
<1>8. MarkedOnce'
  <2>1. reachable' = OnStack' \cup Retired' /\ OnStack' \cap Retired' = {}
    BY <1>0, <1>5, <1>6, <1>7, <1>a DEF MarkedOnce
  <2>2. \A j, k \in DOMAIN stack' : stack'[j].block = stack'[k].block => j = k
    BY <1>0, <1>1, <1>2 DEF MarkedOnce
  <2>3. \A i \in 1..m : post[i] # b
    BY <1>4, <1>6 DEF Retired
  <2>4. \A i, j \in DOMAIN post' : post'[i] = post'[j] => i = j
    BY <1>0, <1>4, <2>3 DEF MarkedOnce
  <2> QED  BY <2>1, <2>2, <2>4 DEF MarkedOnce
<1>9. LookedAt'
  <2>1. Succs(b) \subseteq reachable
    <3>1. n \in DOMAIN stack /\ stack[n].block = b /\ stack[n].next = Len(succ[b])
      BY <1>1, <1>3, <1>a DEF Top, n
    <3>2. Len(succ[b]) \in Nat /\ DOMAIN succ[b] = 1..Len(succ[b])
      BY <1>3, SuccShape DEF TypeOK
    <3>3. \A j \in DOMAIN succ[b] : succ[b][j] \in Blocks => succ[b][j] \in reachable
      BY <3>1, <3>2, <1>0 DEF LookedAt
    <3> QED  BY <3>3 DEF Succs
  <2>2. \A c \in Retired' : Succs(c)' \subseteq reachable'
    BY <2>1, <1>0, <1>5, <1>a, SameGraph DEF LookedAt
  <2>3. ASSUME NEW k \in DOMAIN stack'
        PROVE  stack'[k] = stack[k] /\ k \in DOMAIN stack
    BY <1>1, <1>2
  <2> QED  BY <2>2, <2>3, <1>0, <1>a DEF LookedAt
<1>10. EntryFirst'
  <2>1. ASSUME stack' # <<>>
        PROVE  stack'[1].block = Entry
    <3>1. n - 1 # 0
      <4>1. stack' \in Seq(Entries)
        BY <1>a, PopShape
      <4> QED  BY <4>1, <2>1, <1>1, EmptySeq
    <3> QED  BY <3>1, <1>0, <1>1, <1>2, <1>a DEF EntryFirst
  <2>2. ASSUME stack' = <<>>
        PROVE  post' # <<>> /\ post'[Len(post')] = Entry
    <3>1. n = 1
      BY <2>2, <1>1
    <3>2. b = Entry
      BY <3>1, <1>0, <1>3, <1>a DEF EntryFirst
    <3>3. Len(post') = m + 1
      BY <1>3, <1>a, AppendProperties DEF TypeOK, m
    <3> QED  BY <3>2, <3>3, <1>4
  <2> QED  BY <2>1, <2>2 DEF EntryFirst
<1>11. ParentLater'
  <2>1. \A k \in DOMAIN stack' : k > 1 => stack'[k].block \in Succs(stack'[k - 1].block)
    <3> SUFFICES ASSUME NEW k \in DOMAIN stack', k > 1
                 PROVE  stack'[k].block \in Succs(stack'[k - 1].block)
      OBVIOUS
    <3>1. k \in 1..n - 1 /\ k - 1 \in 1..n - 1 /\ k \in 1..n
      BY <1>1
    <3>2. stack[k].block \in Succs(stack[k - 1].block)
      BY <3>1, <1>0, <1>1 DEF ParentLater
    <3> QED  BY <3>1, <3>2, <1>2
  <2>2. ASSUME NEW i \in DOMAIN post', post'[i] # Entry
        PROVE  \E q \in OnStack' \cup {post'[j] : j \in {j \in DOMAIN post' : j > i}} :
                 post'[i] \in Succs(q)
    <3>1. CASE i \in 1..m
      <4>1. PICK q \in OnStack \cup {post[j] : j \in {j \in DOMAIN post : j > i}} :
               post[i] \in Succs(q)
        BY <3>1, <2>2, <1>0, <1>4 DEF ParentLater
      <4>2. CASE q = b
        <5>1. m + 1 \in {j \in DOMAIN post' : j > i} /\ post'[m + 1] = q
          BY <4>2, <3>1, <1>4
        <5> QED  BY <5>1, <4>1, <3>1, <1>4
      <4>3. CASE q \in OnStack /\ q # b
        BY <4>1, <4>3, <3>1, <1>4, <1>7
      <4>4. CASE q \in {post[j] : j \in {j \in DOMAIN post : j > i}}
        <5>1. PICK j \in DOMAIN post : j > i /\ q = post[j]
          BY <4>4
        <5>2. j \in {k \in DOMAIN post' : k > i} /\ post'[j] = q
          BY <5>1, <1>4
        <5> QED  BY <5>2, <4>1, <3>1, <1>4
      <4> QED  BY <4>1, <4>2, <4>3, <4>4
    <3>2. CASE i = m + 1
      <4>1. b # Entry
        BY <3>2, <2>2, <1>4
      <4>2. n > 1
        BY <4>1, <1>0, <1>1, <1>3, <1>a DEF EntryFirst
      <4>3. n - 1 \in 1..n - 1 /\ n \in DOMAIN stack
        BY <4>2, <1>1
      <4>4. b \in Succs(stack[n - 1].block)
        BY <4>2, <4>3, <1>0, <1>3 DEF ParentLater
      <4>5. stack[n - 1].block \in OnStack'
        BY <4>3, <1>1, <1>2 DEF OnStack
      <4> QED  BY <4>4, <4>5, <3>2, <1>4
    <3> QED  BY <3>1, <3>2, <2>2, <1>4
  <2> QED  BY <2>1, <2>2, <1>a, SameGraph DEF ParentLater
<1>12. MarkedSound' /\ NothingYet'
  BY <1>0, <1>a, SameGraph DEF MarkedSound, NothingYet
<1> QED  BY <1>8, <1>9, <1>10, <1>11, <1>12 DEF DfsInv

\* Looking at the next successor, marked or not.
LEMMA VisitKeepsSearch ==
    ASSUME TypeOK, DfsInv, DfsVisit
    PROVE  DfsInv'
<1>1. PICK t : t = succ[Top.block][Len(succ[Top.block]) - Top.next]
  OBVIOUS
<1>2. pc = "dfs" /\ stack # <<>> /\ Top.next < Len(succ[Top.block])
      /\ post' = post /\ Elsewhere' = Elsewhere
  BY DEF DfsVisit, Elsewhere, fingers
<1>3. CASE Unvisited(t)
  <2>1. reachable' = reachable \cup {t} /\ stack' = Descend(t)
    BY <1>1, <1>3 DEF DfsVisit
  <2> QED  BY <1>1, <1>2, <1>3, <2>1, DescendKeepsSearch
<1>4. CASE ~Unvisited(t)
  <2>1. reachable' = reachable /\ stack' = Advanced
    BY <1>1, <1>4 DEF DfsVisit
  <2> QED  BY <1>1, <1>2, <1>4, <2>1, SkipKeepsSearch
<1> QED  BY <1>3, <1>4

\* Once the stack is empty, numbering the retired blocks from the last yields GraphInv.
LEMMA NumberMakesGraph ==
    ASSUME TypeOK, DfsInv, Number
    PROVE  GraphInv'
<1> DEFINE m == Len(post)
<1>0. MarkedOnce /\ LookedAt /\ EntryFirst /\ ParentLater /\ MarkedSound /\ NothingYet
  BY DEF DfsInv, Number
<1>a. /\ stack = <<>> /\ rpoNum' = [b \in reachable |-> RpoNumber(b)]
      /\ succ' = succ /\ reachable' = reachable /\ post' = post
  BY DEF Number
<1>1. m \in Nat /\ DOMAIN post = 1..m /\ m # 0 /\ post[m] = Entry
  <2>1. post \in Seq(Blocks) /\ post # <<>>
    BY <1>0, <1>a DEF EntryFirst, TypeOK
  <2> QED  BY <2>1, <1>0, <1>a, LenProperties, EmptySeq DEF EntryFirst
<1> HIDE DEF m
<1>2. OnStack = {} /\ reachable = Retired
  BY <1>0, <1>a DEF OnStack, MarkedOnce
<1>3. \A i \in 1..m : post[i] \in reachable /\ rpoNum'[post[i]] = m - i
  <2> SUFFICES ASSUME NEW i \in 1..m
               PROVE  post[i] \in reachable /\ rpoNum'[post[i]] = m - i
    OBVIOUS
  <2>1. post[i] \in reachable
    BY <1>1, <1>2 DEF Retired
  <2>2. \A j \in DOMAIN post : post[j] = post[i] <=> j = i
    BY <1>0, <1>1 DEF MarkedOnce
  <2>3. (CHOOSE j \in DOMAIN post : post[j] = post[i]) = i
    BY <2>2, <1>1
  <2> QED  BY <2>1, <2>3, <1>a DEF RpoNumber, m
<1>4. \A b \in reachable : \E i \in 1..m : post[i] = b
  BY <1>1, <1>2 DEF Retired
<1>5. Numbered'
  <2>1. rpoNum' \in [reachable -> Nat]
    <3>1. \A b \in reachable : rpoNum'[b] \in Nat
      BY <1>1, <1>3, <1>4
    <3> QED  BY <3>1, <1>a
  <2>2. \A b, c \in reachable : rpoNum'[b] = rpoNum'[c] => b = c
    BY <1>1, <1>3, <1>4
  <2>3. \A b \in reachable : rpoNum'[b] < m
    BY <1>1, <1>3, <1>4
  <2>4. \A n \in 0..m - 1 : \E b \in reachable : rpoNum'[b] = n
    <3> SUFFICES ASSUME NEW n \in 0..m - 1
                 PROVE  \E b \in reachable : rpoNum'[b] = n
      OBVIOUS
    <3>1. m - n \in 1..m /\ m - (m - n) = n
      BY <1>1
    <3> QED  BY <3>1, <1>3
  <2> QED  BY <2>1, <2>2, <2>3, <2>4, <1>a DEF Numbered, m
<1>6. Entry \in reachable /\ rpoNum'[Entry] = 0
  BY <1>1, <1>3
<1>7. \A b \in reachable : Succs(b) \subseteq reachable
  BY <1>0, <1>2 DEF LookedAt
<1>8. ASSUME NEW b \in reachable \ {Entry}
      PROVE  \E q \in reachable : b \in Succs(q) /\ rpoNum'[q] < rpoNum'[b]
  <2>1. PICK i \in 1..m : post[i] = b
    BY <1>4
  <2>2. PICK q \in {post[j] : j \in {j \in DOMAIN post : j > i}} : b \in Succs(q)
    BY <2>1, <1>0, <1>1, <1>2 DEF ParentLater
  <2>3. PICK j \in 1..m : j > i /\ q = post[j]
    BY <2>2, <1>1
  <2> QED  BY <2>1, <2>2, <2>3, <1>1, <1>3
<1>9. Retired' = reachable /\ reachable \subseteq Blocks
  BY <1>2, <1>a DEF Retired, TypeOK
<1>10. MarkedSound'
  BY <1>0, <1>a, SameGraph DEF MarkedSound
<1> QED  BY <1>5, <1>6, <1>7, <1>8, <1>9, <1>10, <1>a, SameGraph DEF GraphInv

-----------------------------------------------------------------------------
(* Dominators, ancestors and paths.                                          *)

\* Only the entry dominates the entry.
LEMMA DomEntry ==
    ASSUME NEW d, IsDominator(d, Entry)
    PROVE  d = Entry
BY DEF IsDominator, ClosedAvoiding

\* A dominator of a block, but the block itself, dominates its predecessors.
LEMMA DomPred ==
    ASSUME NEW d, NEW b, NEW p, IsDominator(d, b), d # b, b \in Succs(p)
    PROVE  IsDominator(d, p)
<1>1. PICK S \in SUBSET (Blocks \ {d}) : ClosedAvoiding(S, d) /\ b \notin S
  BY DEF IsDominator
<1>2. p \notin S
  BY <1>1 DEF ClosedAvoiding
<1> QED  BY <1>1, <1>2 DEF IsDominator

\* A dominator of a reachable block is reachable and not numbered later.
LEMMA DomNumber ==
    ASSUME GraphInv, NEW d, NEW b \in reachable, IsDominator(d, b)
    PROVE  d \in reachable /\ rpoNum[d] <= rpoNum[b]
<1>0. \A x \in reachable : rpoNum[x] \in Nat
  BY DEF GraphInv, Numbered
<1>1. CASE d = b
  BY <1>0, <1>1
<1>2. CASE d # b
  <2>1. PICK S \in SUBSET (Blocks \ {d}) : ClosedAvoiding(S, d) /\ b \notin S
    BY <1>2 DEF IsDominator
  <2> DEFINE T == {x \in reachable : x \notin S /\ rpoNum[x] <= rpoNum[b]}
  <2>2. b \in T
    BY <2>1, <1>0
  <2>3. PICK x \in T : \A y \in T : rpoNum[x] <= rpoNum[y]
    <3> HIDE DEF T
    <3>1. \A y \in T : rpoNum[y] \in Nat
      BY <1>0 DEF T
    <3> QED  BY <3>1, <2>2, LeastNumbered
  <2>4. x = d
    <3>1. CASE x = Entry
      BY <3>1, <2>1 DEF ClosedAvoiding
    <3>2. CASE x # Entry
      <4>1. PICK q \in reachable : x \in Succs(q) /\ rpoNum[q] < rpoNum[x]
        BY <3>2 DEF GraphInv
      <4>2. q \in S
        BY <4>1, <2>3, <1>0
      <4> QED  BY <4>1, <4>2, <2>1 DEF ClosedAvoiding
    <3> QED  BY <3>1, <3>2
  <2> QED  BY <2>4
<1> QED  BY <1>1, <1>2

\* Every block is above itself.
LEMMA AboveSelf == \A a : Above(a, a)
BY DEF Above

\* Being above is transitive.
LEMMA AboveTrans ==
    ASSUME NEW a, NEW b, NEW c, Above(a, b), Above(b, c)
    PROVE  Above(a, c)
BY DEF Above

\* An immediate dominator is above its block.
LEMMA AboveParent ==
    ASSUME NEW b, idom[b] # None
    PROVE  Above(idom[b], b)
BY DEF Above, Climbing

\* What is above a block, but the block itself, is above its immediate dominator.
LEMMA AboveStep ==
    ASSUME NEW a, NEW b \in Blocks, Above(a, b), a # b, idom[b] # None
    PROVE  Above(a, idom[b])
<1> SUFFICES ASSUME NEW C \in SUBSET Blocks, idom[b] \in C, Climbing(C)
             PROVE  a \in C
  BY DEF Above
<1>1. Climbing(C \cup {b})
  BY DEF Climbing
<1> QED  BY <1>1 DEF Above

\* Only the entry is above the entry.
LEMMA AboveEntry ==
    ASSUME RootIsEntry, NEW a, Above(a, Entry)
    PROVE  a = Entry
<1>1. Climbing({Entry}) /\ {Entry} \in SUBSET Blocks
  BY BlocksAssumption DEF Climbing, RootIsEntry
<1> QED  BY <1>1 DEF Above

\* The blocks of the tree that are numbered at most n are closed under climbing.
LEMMA TreeClosed ==
    ASSUME GraphInv, RootIsEntry, NEW n \in Nat
    PROVE  LET C == {x \in reachable : idom[x] # None /\ rpoNum[x] <= n}
           IN  C \in SUBSET Blocks /\ Climbing(C)
<1> DEFINE C == {x \in reachable : idom[x] # None /\ rpoNum[x] <= n}
<1>0. reachable \subseteq Blocks /\ \A x \in reachable : rpoNum[x] \in Nat
  BY DEF GraphInv, Numbered
<1>1. ASSUME NEW x \in C
      PROVE  idom[x] \in C
  <2>1. CASE x = Entry
    BY <2>1, <1>1 DEF RootIsEntry
  <2>2. CASE x # Entry
    <3>1. /\ idom[x] \in reachable /\ rpoNum[idom[x]] < rpoNum[x]
          /\ idom[idom[x]] # None
      BY <2>2, <1>0 DEF RootIsEntry
    <3> QED  BY <3>1, <1>0
  <2> QED  BY <2>1, <2>2
<1> QED  BY <1>0, <1>1 DEF Climbing

\* What is above a block of the tree is in the tree and not numbered later.
LEMMA AboveInTree ==
    ASSUME GraphInv, RootIsEntry, NEW a, NEW b \in reachable, idom[b] # None, Above(a, b)
    PROVE  a \in reachable /\ idom[a] # None /\ rpoNum[a] <= rpoNum[b]
<1> DEFINE C == {x \in reachable : idom[x] # None /\ rpoNum[x] <= rpoNum[b]}
<1>0. rpoNum[b] \in Nat
  BY DEF GraphInv, Numbered
<1>1. C \in SUBSET Blocks /\ Climbing(C)
  BY <1>0, TreeClosed
<1>2. b \in C
  BY <1>0
<1> HIDE DEF C
<1>3. a \in C
  BY <1>1, <1>2 DEF Above
<1> QED  BY <1>3 DEF C

\* Forward edges lead from whatever is above a block of the tree to that block.
LEMMA AboveFlows ==
    ASSUME RootIsEntry, FlowsDown, NEW a, NEW b \in Blocks, Above(a, b)
    PROVE  FlowsTo(a, b)
<1> DEFINE C == {y \in Blocks : FlowsTo(y, b)}
<1>1. b \in C
  BY DEF FlowsTo
<1>2. ASSUME NEW y \in C, idom[y] # None
      PROVE  idom[y] \in C
  <2>1. CASE y = Entry
    BY <2>1 DEF RootIsEntry
  <2>2. CASE y # Entry
    <3>1. FlowsTo(idom[y], y) /\ idom[y] \in Blocks
      BY <2>2, <1>2 DEF RootIsEntry, FlowsDown, InTreeBlocks
    <3>2. FlowsTo(idom[y], b)
      BY <3>1 DEF FlowsTo
    <3> QED  BY <3>1, <3>2
  <2> QED  BY <2>1, <2>2
<1> HIDE DEF C
<1>3. Climbing(C) /\ C \in SUBSET Blocks
  BY <1>2 DEF Climbing, C
<1>4. a \in C
  BY <1>1, <1>3 DEF Above
<1> QED  BY <1>4 DEF C

-----------------------------------------------------------------------------
(* The block at hand.                                                        *)

\* The block at hand is the one numbered pos, which is not the entry.
LEMMA CurrentIs ==
    ASSUME GraphInv, pos \in Nat, pos >= 1, pos < Len(post), Len(post) \in Nat
    PROVE  Current \in reachable /\ rpoNum[Current] = pos /\ Current # Entry
<1>1. pos \in 0..Len(post) - 1
  OBVIOUS
<1>2. \E b \in reachable : rpoNum[b] = pos
  BY <1>1 DEF GraphInv, Numbered
<1>3. Current \in reachable /\ rpoNum[Current] = pos
  BY <1>2 DEF Current
<1> QED  BY <1>3 DEF GraphInv

\* A block numbered before the one at hand is in the tree.
LEMMA EarlierInTree ==
    ASSUME GraphInv, RootIsEntry, PassedBlocks, NEW b \in reachable, rpoNum[b] < pos
    PROVE  idom[b] # None
<1>1. CASE b = Entry
  BY <1>1, BlocksAssumption DEF RootIsEntry
<1>2. CASE b # Entry
  BY <1>2 DEF PassedBlocks, Before
<1> QED  BY <1>1, <1>2

\* One predecessor of the block at hand is numbered before it, and so is in the tree.
LEMMA ForwardPred ==
    ASSUME GraphInv, RootIsEntry, PassedBlocks, pos \in Nat, pos < Len(post), Len(post) \in Nat
    PROVE  \E q \in TreePreds(Current) : rpoNum[q] < pos
<1>1. Current \in reachable /\ rpoNum[Current] = pos /\ Current # Entry
  BY CurrentIs DEF PassedBlocks
<1>2. PICK q \in reachable : Current \in Succs(q) /\ rpoNum[q] < pos
  BY <1>1 DEF GraphInv
<1>3. idom[q] # None
  BY <1>2, EarlierInTree
<1> QED  BY <1>2, <1>3 DEF TreePreds, Preds

\* When no predecessor is left to fold, all were folded.
LEMMA AllFolded ==
    ASSUME GraphInv, last \in Int, NEW b, ~\E p \in Preds(b) : NextPred(p, b, last)
    PROVE  \A p \in Preds(b) : rpoNum[p] <= last
<1>0. \A p \in Preds(b) : rpoNum[p] \in Nat
  BY DEF GraphInv, Numbered, Preds
<1> SUFFICES ASSUME NEW q \in Preds(b), rpoNum[q] > last
             PROVE  FALSE
  BY <1>0
<1> DEFINE T == {p \in Preds(b) : rpoNum[p] > last}
<1>1. T # {} /\ \A p \in T : rpoNum[p] \in Nat
  BY <1>0
<1> HIDE DEF T
<1>2. PICK p \in T : \A c \in T : rpoNum[p] <= rpoNum[c]
  BY <1>1, LeastNumbered
<1> QED  BY <1>2 DEF NextPred, T

\* The numbers of the predecessors, as the folding meets them.
LEMMA NextPredOrder ==
    ASSUME GraphInv, last \in Int, NEW b, NEW p, NextPred(p, b, last)
    PROVE  /\ p \in Preds(b) /\ p \in reachable /\ rpoNum[p] \in Nat /\ last < rpoNum[p]
           /\ \A q \in Preds(b) : /\ rpoNum[q] < rpoNum[p] + 1 => rpoNum[q] < last + 1 \/ q = p
                                  /\ rpoNum[q] < last + 1 => rpoNum[q] < rpoNum[p] + 1
                                  /\ rpoNum[q] < last + 1 <=> rpoNum[q] < rpoNum[p]
                                  /\ rpoNum[q] = rpoNum[p] => q = p
<1>1. p \in Preds(b) /\ rpoNum[p] > last /\ \A q \in Preds(b) : rpoNum[q] > last => rpoNum[p] <= rpoNum[q]
  BY DEF NextPred
<1>2. \A q \in Preds(b) : q \in reachable /\ rpoNum[q] \in Nat
  BY DEF GraphInv, Numbered, Preds
<1>3. \A q \in Preds(b) : rpoNum[q] = rpoNum[p] => q = p
  BY <1>1, <1>2 DEF GraphInv, Numbered
<1> QED  BY <1>1, <1>2, <1>3

-----------------------------------------------------------------------------
(* The folding and the meeting keep their invariants.                        *)

\* What the folding works with stays, but for the candidate and the fingers.
LEMMA SameTree ==
    ASSUME graph' = graph, idom' = idom
    PROVE  /\ GraphInv <=> GraphInv'
           /\ TreeInv <=> TreeInv'
           /\ \A a, b : Above(a, b)' <=> Above(a, b)
           /\ \A b : TreePreds(b)' = TreePreds(b)
           /\ \A b : Preds(b)' = Preds(b)
           /\ \A c, b : CommonAbove(c, b)' <=> CommonAbove(c, b)
           /\ rpoNum' = rpoNum /\ post' = post /\ reachable' = reachable /\ succ' = succ
<1>1. rpoNum' = rpoNum /\ post' = post /\ reachable' = reachable /\ succ' = succ
  BY DEF graph
<1>2. \A b : Succs(b)' = Succs(b)
  BY <1>1, SameGraph
<1>3. \A d, b : IsDominator(d, b)' <=> IsDominator(d, b)
  BY <1>1, SameGraph
<1>4. MarkedSound' <=> MarkedSound
  BY <1>1, SameGraph DEF MarkedSound
<1>5. GraphInv <=> GraphInv'
  BY <1>1, <1>2, <1>4 DEF GraphInv, Numbered, Retired
<1>6. \A a, b : Above(a, b)' <=> Above(a, b)
  BY DEF Above, Climbing
<1>7. \A b : Preds(b)' = Preds(b)
  BY <1>1, <1>2 DEF Preds
<1>8. \A b : TreePreds(b)' = TreePreds(b)
  BY <1>7 DEF TreePreds
<1>9. \A c, b : CommonAbove(c, b)' <=> CommonAbove(c, b)
  BY <1>6, <1>8 DEF CommonAbove
<1>10. \A a, b : FlowsTo(a, b)' <=> FlowsTo(a, b)
  <2>1. \A C : Forward(C)' <=> Forward(C)
    BY <1>1, <1>2 DEF Forward
  <2> QED  BY <2>1, <1>1 DEF FlowsTo
<1>11. InTreeBlocks' = InTreeBlocks
  BY <1>1 DEF InTreeBlocks
<1>12. (RootIsEntry' <=> RootIsEntry) /\ (KeepsDominators' <=> KeepsDominators)
  BY <1>1, <1>3, <1>11 DEF RootIsEntry, KeepsDominators
<1>13. (FlowsDown' <=> FlowsDown) /\ (NeverNearer' <=> NeverNearer)
  BY <1>1, <1>9, <1>10, <1>11 DEF FlowsDown, NeverNearer
<1>14. TreeInv <=> TreeInv'
  BY <1>12, <1>13 DEF TreeInv
<1> QED  BY <1>1, <1>5, <1>6, <1>7, <1>8, <1>9, <1>14

\* What the pass has established stays while it folds.
LEMMA SamePass ==
    ASSUME graph' = graph, idom' = idom, pos' = pos, changed' = changed
    PROVE  /\ PassedBlocks <=> PassedBlocks'
           /\ SettledBlocks <=> SettledBlocks'
           /\ Current' = Current
           /\ \A c, n : AboveFolded(c, n)' <=> AboveFolded(c, n)
           /\ \A c : Candidate(c)' <=> Candidate(c)
<1>1. rpoNum' = rpoNum /\ post' = post /\ reachable' = reachable /\ succ' = succ
  BY DEF graph
<1>2. Before(pos)' = Before(pos)
  BY <1>1 DEF Before
<1>3. \A b : Preds(b)' = Preds(b) /\ TreePreds(b)' = TreePreds(b)
  BY SameTree
<1>4. \A a, b : Above(a, b)' <=> Above(a, b)
  BY SameTree
<1>5. PassedBlocks <=> PassedBlocks'
  BY <1>1, <1>2, <1>3, <1>4 DEF PassedBlocks
<1>6. SettledBlocks <=> SettledBlocks'
  BY <1>2, SameTree DEF SettledBlocks
<1>7. Current' = Current
  BY <1>1 DEF Current
<1>8. \A c, n : AboveFolded(c, n)' <=> AboveFolded(c, n)
  BY <1>1, <1>3, <1>4, <1>7 DEF AboveFolded
<1>9. \A c : Candidate(c)' <=> Candidate(c)
  BY <1>1, <1>7, SameGraph DEF Candidate
<1> QED  BY <1>5, <1>6, <1>7, <1>8, <1>9

\* What the loop has and every step of it may use.
LEMMA LoopFacts ==
    ASSUME TypeOK, LoopInv, pc # "dfs"
    PROVE  /\ GraphInv /\ TreeInv /\ RootIsEntry /\ PassedBlocks /\ SettledBlocks
           /\ FoldInv /\ MeetInv /\ DoneInv
           /\ pos \in Nat /\ pos >= 1 /\ last \in Int /\ Len(post) \in Nat
           /\ \A b \in reachable : rpoNum[b] \in Nat /\ b \in Blocks /\ b # None
           /\ Entry \in reachable /\ rpoNum[Entry] = 0
<1>1. GraphInv /\ TreeInv /\ PassedBlocks /\ SettledBlocks /\ FoldInv /\ MeetInv /\ DoneInv
  BY DEF LoopInv
<1>2. RootIsEntry /\ pos >= 1
  BY <1>1 DEF TreeInv, PassedBlocks
<1>3. pos \in Nat /\ last \in Int /\ Len(post) \in Nat
  BY LenProperties DEF TypeOK
<1>4. \A b \in reachable : rpoNum[b] \in Nat /\ b \in Blocks /\ b # None
  BY <1>1, BlocksAssumption DEF GraphInv, Numbered
<1>5. Entry \in reachable /\ rpoNum[Entry] = 0
  BY <1>1 DEF GraphInv
<1> QED  BY <1>1, <1>2, <1>3, <1>4, <1>5

\* A predecessor in the tree is a candidate for the block at hand.
LEMMA PredIsCandidate ==
    ASSUME NEW p \in TreePreds(Current)
    PROVE  Candidate(p)
<1>1. p \in reachable /\ idom[p] # None /\ Current \in Succs(p)
  BY DEF TreePreds, Preds
<1>2. \A d \in Blocks : d # Current /\ IsDominator(d, Current) => IsDominator(d, p)
  BY <1>1, DomPred
<1> QED  BY <1>1, <1>2 DEF Candidate

\* The folding skips the predecessor p.
LEMMA SkipPred ==
    ASSUME TypeOK, LoopInv, pc = "fold", NEW p, NextPred(p, Current, last), ~InTree(p)
    PROVE  /\ newIdom = None => \A q \in TreePreds(Current) : rpoNum[q] > rpoNum[p]
           /\ newIdom # None =>
                /\ Candidate(newIdom) /\ rpoNum[newIdom] < pos
                /\ AboveFolded(newIdom, rpoNum[p] + 1)
                /\ \A c \in reachable : AboveFolded(c, rpoNum[p] + 1) => Above(c, newIdom)
<1>0. pc # "dfs"
  OBVIOUS
<1>1. GraphInv /\ FoldInv /\ last \in Int
  BY <1>0, LoopFacts
<1>2. \A q \in TreePreds(Current) : q \in Preds(Current) /\ q # p
  BY DEF TreePreds, InTree
<1>3. \A q \in Preds(Current) : rpoNum[q] \in Nat
  BY <1>1 DEF GraphInv, Numbered, Preds
<1>4. ASSUME newIdom = None
      PROVE  \A q \in TreePreds(Current) : rpoNum[q] > rpoNum[p]
  <2>1. \A q \in TreePreds(Current) : rpoNum[q] > last
    BY <1>1, <1>4 DEF FoldInv
  <2> QED  BY <1>1, <1>2, <1>3, <2>1, NextPredOrder
<1>5. \A q \in TreePreds(Current) : rpoNum[q] < rpoNum[p] + 1 <=> rpoNum[q] < last + 1
  BY <1>1, <1>2, NextPredOrder
<1>6. \A c : AboveFolded(c, rpoNum[p] + 1) <=> AboveFolded(c, last + 1)
  BY <1>5 DEF AboveFolded
<1>7. newIdom # None =>
        /\ Candidate(newIdom) /\ rpoNum[newIdom] < pos
        /\ AboveFolded(newIdom, last + 1)
        /\ \A c \in reachable : AboveFolded(c, last + 1) => Above(c, newIdom)
  BY <1>1 DEF FoldInv
<1> QED  BY <1>4, <1>6, <1>7

\* The folding adopts the predecessor p as its first candidate.
LEMMA AdoptPred ==
    ASSUME TypeOK, LoopInv, pc = "fold", NEW p, NextPred(p, Current, last), InTree(p),
           newIdom = None
    PROVE  /\ p # None
           /\ Candidate(p) /\ rpoNum[p] < pos
           /\ AboveFolded(p, rpoNum[p] + 1)
           /\ \A c \in reachable : AboveFolded(c, rpoNum[p] + 1) => Above(c, p)
<1>0. pc # "dfs"
  OBVIOUS
<1>1. /\ GraphInv /\ FoldInv /\ last \in Int /\ RootIsEntry /\ PassedBlocks
      /\ pos \in Nat /\ Len(post) \in Nat /\ pos < Len(post)
      /\ \A b \in reachable : rpoNum[b] \in Nat /\ b # None
  BY <1>0, LoopFacts DEF FoldInv
<1>2. \A q \in TreePreds(Current) : q \in Preds(Current) /\ rpoNum[q] > last /\ rpoNum[q] \in Nat
  BY <1>1 DEF FoldInv, TreePreds, Preds
<1>3. p \in TreePreds(Current) /\ p # None
  BY <1>1 DEF NextPred, InTree, TreePreds, Preds
<1>4. \A q \in TreePreds(Current) : rpoNum[p] <= rpoNum[q]
  BY <1>2 DEF NextPred
<1>5. rpoNum[p] < pos
  <2>1. PICK q \in TreePreds(Current) : rpoNum[q] < pos
    BY <1>1, ForwardPred
  <2> QED  BY <2>1, <1>1, <1>2, <1>3, <1>4
<1>6. \A q \in TreePreds(Current) : rpoNum[q] < rpoNum[p] + 1 => q = p
  BY <1>1, <1>2, NextPredOrder
<1>7. AboveFolded(p, rpoNum[p] + 1)
  BY <1>6, AboveSelf DEF AboveFolded
<1>8. \A c \in reachable : AboveFolded(c, rpoNum[p] + 1) => Above(c, p)
  BY <1>1, <1>2, <1>3 DEF AboveFolded
<1> QED  BY <1>3, <1>5, <1>7, <1>8, PredIsCandidate

\* The folding starts the meeting of the candidate and the predecessor p.
LEMMA MeetPred ==
    ASSUME TypeOK, LoopInv, pc = "fold", NEW p, NextPred(p, Current, last), InTree(p),
           newIdom # None
    PROVE  /\ Candidate(p) /\ Candidate(newIdom) /\ rpoNum[newIdom] < pos
           /\ AboveFolded(newIdom, rpoNum[p])
           /\ \A q \in TreePreds(Current) : rpoNum[q] = rpoNum[p] => Above(p, q)
           /\ \A c \in reachable : AboveFolded(c, rpoNum[p] + 1) => Above(c, p) /\ Above(c, newIdom)
<1>0. pc # "dfs"
  OBVIOUS
<1>1. /\ GraphInv /\ last \in Int
      /\ Candidate(newIdom) /\ rpoNum[newIdom] < pos
      /\ AboveFolded(newIdom, last + 1)
      /\ \A c \in reachable : AboveFolded(c, last + 1) => Above(c, newIdom)
      /\ \A b \in reachable : rpoNum[b] \in Nat
  BY <1>0, LoopFacts DEF FoldInv
<1>2. \A q \in TreePreds(Current) : q \in Preds(Current) /\ rpoNum[q] \in Nat
  BY <1>1 DEF TreePreds, Preds
<1>3. p \in TreePreds(Current)
  BY DEF NextPred, InTree, TreePreds
<1>4. \A q \in TreePreds(Current) :
         /\ rpoNum[q] < last + 1 => rpoNum[q] < rpoNum[p] + 1
         /\ rpoNum[q] < rpoNum[p] => rpoNum[q] < last + 1
         /\ rpoNum[q] = rpoNum[p] => q = p
  BY <1>1, <1>2, NextPredOrder
<1>5. AboveFolded(newIdom, rpoNum[p])
  BY <1>1, <1>4 DEF AboveFolded
<1>6. \A q \in TreePreds(Current) : rpoNum[q] = rpoNum[p] => Above(p, q)
  BY <1>4, AboveSelf
<1>7. ASSUME NEW c \in reachable, AboveFolded(c, rpoNum[p] + 1)
      PROVE  Above(c, p) /\ Above(c, newIdom)
  <2>1. AboveFolded(c, last + 1)
    BY <1>4, <1>7 DEF AboveFolded
  <2>2. Above(c, p)
    BY <1>2, <1>3, <1>7 DEF AboveFolded
  <2> QED  BY <2>1, <2>2, <1>1
<1> QED  BY <1>1, <1>3, <1>5, <1>6, <1>7, PredIsCandidate

\* Folding one predecessor: skipped, adopted, or met with the candidate.
LEMMA FoldKeepsLoop ==
    ASSUME TypeOK, LoopInv, FoldPred
    PROVE  LoopInv'
<1>0. pc = "fold" /\ pc # "dfs"
  BY DEF FoldPred
<1>1. graph' = graph /\ idom' = idom /\ changed' = changed /\ pos' = pos /\ succ' = succ
  BY DEF FoldPred, graph
<1>2. /\ GraphInv /\ TreeInv /\ PassedBlocks /\ SettledBlocks /\ FoldInv
      /\ \A b \in reachable : rpoNum[b] \in Nat
  BY <1>0, LoopFacts
<1>3. /\ GraphInv' /\ TreeInv' /\ PassedBlocks' /\ SettledBlocks'
      /\ rpoNum' = rpoNum /\ post' = post /\ reachable' = reachable
  BY <1>1, <1>2, SameTree, SamePass
<1>4. PICK p \in Preds(Current) :
        /\ NextPred(p, Current, last)
        /\ last' = rpoNum[p]
        /\ \/ ~InTree(p) /\ pc' = pc /\ newIdom' = newIdom
           \/ InTree(p) /\ newIdom = None /\ newIdom' = p /\ pc' = pc
           \/ /\ InTree(p) /\ newIdom # None /\ pc' = "meet" /\ newIdom' = newIdom
              /\ fa' = p /\ fb' = newIdom
  BY DEF FoldPred, fingers, FirstCandidate
<1>5. pos < Len(post) /\ rpoNum[p] \in Nat
  BY <1>0, <1>2 DEF FoldInv, Preds
<1>6. DoneInv' /\ pc' \in {"fold", "meet"} /\ pc' # "dfs"
  BY <1>0, <1>4 DEF DoneInv
<1> DEFINE Skips == ~InTree(p) /\ pc' = pc /\ newIdom' = newIdom
           Adopts == InTree(p) /\ newIdom = None /\ newIdom' = p /\ pc' = pc
<1>7. CASE Skips \/ Adopts
  <2>1. pc' = "fold"
    BY <1>0, <1>7
  <2>2. newIdom' = None => \A q \in TreePreds(Current) : rpoNum[q] > rpoNum[p]
    BY <1>0, <1>4, <1>7, SkipPred, AdoptPred
  <2>3. newIdom' # None =>
          /\ Candidate(newIdom') /\ rpoNum[newIdom'] < pos
          /\ AboveFolded(newIdom', rpoNum[p] + 1)
          /\ \A c \in reachable : AboveFolded(c, rpoNum[p] + 1) => Above(c, newIdom')
    <3>1. CASE Skips
      BY <1>0, <1>4, <3>1, SkipPred
    <3>2. CASE Adopts
      BY <1>0, <1>4, <3>2, AdoptPred
    <3> QED  BY <1>7, <3>1, <3>2
  <2>4. FoldInv'
    <3>1. PICK n : n = newIdom'
      OBVIOUS
    <3>2. PICK l : l = last'
      OBVIOUS
    <3>3. Current' = Current /\ TreePreds(Current)' = TreePreds(Current)
      BY <1>1, SameTree, SamePass
    <3>4. newIdom' = None => \A q \in TreePreds(Current)' : rpoNum'[q] > last'
      BY <2>2, <3>3, <1>3, <1>4
    <3>5. n # None =>
            /\ Candidate(n) /\ rpoNum[n] < pos
            /\ AboveFolded(n, l + 1)
            /\ \A c \in reachable : AboveFolded(c, l + 1) => Above(c, n)
      BY <2>3, <3>1, <3>2, <1>4
    <3>6. n # None =>
            /\ Candidate(n)' /\ rpoNum'[n] < pos'
            /\ AboveFolded(n, l + 1)'
            /\ \A c \in reachable' : AboveFolded(c, l + 1)' => Above(c, n)'
      BY <3>5, <1>1, <1>3, SamePass, SameTree
    <3>7. newIdom' # None =>
            /\ Candidate(newIdom)' /\ rpoNum'[newIdom'] < pos'
            /\ AboveFolded(newIdom, last + 1)'
            /\ \A c \in reachable' : AboveFolded(c, last + 1)' => Above(c, newIdom)'
      BY <3>1, <3>2, <3>6
    <3>8. pos' < Len(post') /\ last' \in Int
      BY <1>1, <1>3, <1>4, <1>5
    <3> QED  BY <3>4, <3>7, <3>8 DEF FoldInv
  <2>5. MeetInv'
    BY <2>1 DEF MeetInv
  <2> QED  BY <1>3, <1>6, <2>4, <2>5 DEF LoopInv
<1>8. CASE InTree(p) /\ newIdom # None /\ pc' = "meet" /\ newIdom' = newIdom
           /\ fa' = p /\ fb' = newIdom
  <2>1. PICK n : n = newIdom
    OBVIOUS
  <2>2. PICK l : l = rpoNum[p]
    OBVIOUS
  <2>3. /\ Candidate(p) /\ Candidate(n) /\ rpoNum[n] < pos
        /\ AboveFolded(n, l)
        /\ \A q \in TreePreds(Current) : rpoNum[q] = l => Above(p, q)
        /\ \A c \in reachable : AboveFolded(c, l + 1) => Above(c, p) /\ Above(c, n)
    BY <1>0, <1>4, <1>8, <2>1, <2>2, MeetPred
  <2>4. Current' = Current /\ TreePreds(Current)' = TreePreds(Current)
    BY <1>1, SameTree, SamePass
  <2>5. /\ Candidate(p)' /\ Candidate(n)' /\ rpoNum'[n] < pos'
        /\ AboveFolded(n, l)'
        /\ \A q \in TreePreds(Current)' : rpoNum'[q] = l => Above(p, q)'
        /\ \A c \in reachable' : AboveFolded(c, l + 1)' => Above(c, p)' /\ Above(c, n)'
    BY <2>3, <2>4, <1>1, <1>3, SamePass, SameTree
  <2>6. fa' = p /\ fb' = n /\ last' = l
    BY <1>4, <1>8, <2>1, <2>2
  <2>7. MeetInv'
    BY <2>5, <2>6 DEF MeetInv
  <2>8. newIdom' # None /\ pc' # "fold" /\ pos' < Len(post') /\ last' \in Int
    BY <1>1, <1>3, <1>4, <1>5, <1>8
  <2>9. FoldInv'
    BY <2>8 DEF FoldInv
  <2> QED  BY <1>3, <1>6, <2>7, <2>9 DEF LoopInv
<1> QED  BY <1>4, <1>7, <1>8

\* The finger with the larger number can climb: what it climbs to is still a candidate,
\* and below whatever is above both fingers.
LEMMA ClimbOne ==
    ASSUME TypeOK, LoopInv, pc = "meet",
           NEW f, NEW g, Candidate(f), Candidate(g), rpoNum[f] > rpoNum[g]
    PROVE  /\ Climb(f) = idom[f] /\ Candidate(idom[f]) /\ rpoNum[idom[f]] < rpoNum[f]
           /\ rpoNum[idom[f]] \in Nat
           /\ \A p : Above(f, p) => Above(idom[f], p)
           /\ \A c : Above(c, f) /\ Above(c, g) => Above(c, idom[f])
<1>0. pc # "dfs"
  OBVIOUS
<1>1. /\ GraphInv /\ TreeInv /\ RootIsEntry /\ rpoNum[Entry] = 0
      /\ \A b \in reachable : rpoNum[b] \in Nat /\ b \in Blocks /\ b # None
  BY <1>0, LoopFacts
<1>2. f \in reachable /\ g \in reachable /\ idom[f] # None /\ idom[g] # None
  BY DEF Candidate
<1>3. rpoNum[f] \in Nat /\ rpoNum[g] \in Nat /\ f \in Blocks
  BY <1>1, <1>2
<1>4. f # Entry
  BY <1>1, <1>3
<1>5. /\ idom[f] \in reachable /\ rpoNum[idom[f]] < rpoNum[f] /\ idom[idom[f]] # None
  BY <1>2, <1>3, <1>4, <1>1 DEF RootIsEntry
<1>6. Candidate(idom[f])
  <2>1. ASSUME NEW d \in Blocks, d # Current, IsDominator(d, Current)
        PROVE  IsDominator(d, idom[f])
    <3>1. IsDominator(d, f) /\ IsDominator(d, g)
      BY <2>1 DEF Candidate
    <3>2. rpoNum[d] <= rpoNum[g]
      BY <3>1, <1>1, <1>2, DomNumber
    <3>3. d # f
      BY <3>2, <1>3
    <3>4. f \in InTreeBlocks
      BY <1>2, <1>4 DEF InTreeBlocks
    <3> QED  BY <3>1, <3>3, <3>4, <1>1 DEF TreeInv, KeepsDominators
  <2> QED  BY <2>1, <1>5 DEF Candidate
<1>7. \A p : Above(f, p) => Above(idom[f], p)
  BY <1>2, AboveParent, AboveTrans
<1>8. ASSUME NEW c, Above(c, f), Above(c, g)
      PROVE  Above(c, idom[f])
  <2>1. rpoNum[c] <= rpoNum[g]
    BY <1>8, <1>1, <1>2, AboveInTree
  <2>2. c # f
    BY <2>1, <1>3
  <2> QED  BY <2>2, <1>8, <1>2, <1>3, AboveStep
<1>9. Climb(f) = idom[f] /\ rpoNum[idom[f]] \in Nat
  BY <1>1, <1>2, <1>5 DEF Climb
<1> QED  BY <1>5, <1>6, <1>7, <1>8, <1>9

\* One turn of intersect; the finger that climbs stays on the blocks.
LEMMA ClimbKeepsLoop ==
    ASSUME TypeOK, LoopInv, MeetClimb
    PROVE  LoopInv' /\ {fa', fb'} \subseteq Blocks
<1>0. pc = "meet" /\ pc # "dfs" /\ pc' = pc
  BY DEF MeetClimb
<1>1. /\ graph' = graph /\ idom' = idom /\ changed' = changed /\ pos' = pos /\ succ' = succ
      /\ last' = last /\ newIdom' = newIdom
  BY DEF MeetClimb, graph
<1>2. /\ GraphInv /\ TreeInv /\ PassedBlocks /\ SettledBlocks /\ FoldInv /\ MeetInv
      /\ pos \in Nat /\ last \in Int
      /\ \A b \in reachable : rpoNum[b] \in Nat /\ b \in Blocks
  BY <1>0, LoopFacts
<1>3. /\ GraphInv' /\ TreeInv' /\ PassedBlocks' /\ SettledBlocks'
      /\ rpoNum' = rpoNum /\ post' = post /\ reachable' = reachable
  BY <1>1, <1>2, SameTree, SamePass
<1>4. /\ Candidate(fa) /\ Candidate(fb) /\ rpoNum[fb] < pos
      /\ AboveFolded(fb, last)
      /\ \A p \in TreePreds(Current) : rpoNum[p] = last => Above(fa, p)
      /\ \A c \in reachable : AboveFolded(c, last + 1) => Above(c, fa) /\ Above(c, fb)
  BY <1>0, <1>2 DEF MeetInv
<1>5. rpoNum[fa] \in Nat /\ rpoNum[fb] \in Nat /\ fa \in Blocks /\ fb \in Blocks
  BY <1>2, <1>4 DEF Candidate
<1>6. PICK f : f = fa'
  OBVIOUS
<1>7. PICK g : g = fb'
  OBVIOUS
<1>8. /\ Candidate(f) /\ Candidate(g) /\ rpoNum[g] < pos
      /\ AboveFolded(g, last)
      /\ \A p \in TreePreds(Current) : rpoNum[p] = last => Above(f, p)
      /\ \A c \in reachable : AboveFolded(c, last + 1) => Above(c, f) /\ Above(c, g)
  <2>1. CASE rpoNum[fa] > rpoNum[fb] /\ fa' = Climb(fa) /\ fb' = fb
    <3>1. f = idom[fa] /\ g = fb
      BY <2>1, <1>0, <1>4, <1>6, <1>7, ClimbOne
    <3>2. /\ Candidate(f)
          /\ \A p : Above(fa, p) => Above(f, p)
          /\ \A c : Above(c, fa) /\ Above(c, fb) => Above(c, f)
      BY <2>1, <3>1, <1>0, <1>4, ClimbOne
    <3> QED  BY <3>1, <3>2, <1>4
  <2>2. CASE rpoNum[fb] > rpoNum[fa] /\ fb' = Climb(fb) /\ fa' = fa
    <3>1. g = idom[fb] /\ f = fa
      BY <2>2, <1>0, <1>4, <1>6, <1>7, ClimbOne
    <3>2. /\ Candidate(g) /\ rpoNum[g] < rpoNum[fb] /\ rpoNum[g] \in Nat
          /\ \A p : Above(fb, p) => Above(g, p)
          /\ \A c : Above(c, fb) /\ Above(c, fa) => Above(c, g)
      BY <2>2, <3>1, <1>0, <1>4, ClimbOne
    <3>3. AboveFolded(g, last)
      BY <3>2, <1>4 DEF AboveFolded
    <3>4. rpoNum[g] < pos
      BY <3>2, <1>2, <1>4, <1>5
    <3> QED  BY <3>1, <3>2, <3>3, <3>4, <1>4
  <2> QED  BY <2>1, <2>2 DEF MeetClimb
<1>9. Current' = Current /\ TreePreds(Current)' = TreePreds(Current)
  BY <1>1, SameTree, SamePass
<1>10. PICK l : l = last
  OBVIOUS
<1>11. /\ Candidate(f)' /\ Candidate(g)' /\ rpoNum'[g] < pos'
       /\ AboveFolded(g, l)'
       /\ \A p \in TreePreds(Current)' : rpoNum'[p] = l => Above(f, p)'
       /\ \A c \in reachable' : AboveFolded(c, l + 1)' => Above(c, f)' /\ Above(c, g)'
  BY <1>8, <1>9, <1>10, <1>1, <1>3, SamePass, SameTree
<1>12. last' = l
  BY <1>1, <1>10
<1>13. MeetInv'
  BY <1>6, <1>7, <1>11, <1>12 DEF MeetInv
<1>14. pos' < Len(post') /\ last' \in Int
  BY <1>0, <1>1, <1>2, <1>3 DEF FoldInv
<1>15. FoldInv'
  <2>1. newIdom' = None => \A p \in TreePreds(Current)' : rpoNum'[p] > last'
    BY <1>0, <1>1, <1>2, <1>3, <1>9 DEF FoldInv
  <2>2. pc' # "fold"
    BY <1>0
  <2> QED  BY <1>14, <2>1, <2>2 DEF FoldInv
<1>16. DoneInv'
  BY <1>0 DEF DoneInv
<1>17. f \in Blocks /\ g \in Blocks
  BY <1>2, <1>8 DEF Candidate
<1> QED  BY <1>0, <1>3, <1>6, <1>7, <1>13, <1>15, <1>16, <1>17 DEF LoopInv

\* Where the fingers meet is the new candidate.
LEMMA MeetDoneKeepsLoop ==
    ASSUME TypeOK, LoopInv, MeetDone
    PROVE  LoopInv'
<1>0. pc = "meet" /\ pc # "dfs" /\ pc' = "fold" /\ fa = fb
  BY DEF MeetDone
<1>1. /\ graph' = graph /\ idom' = idom /\ changed' = changed /\ pos' = pos /\ succ' = succ
      /\ last' = last /\ newIdom' = fa
  BY DEF MeetDone, graph, MeetResult
<1>2. /\ GraphInv /\ TreeInv /\ PassedBlocks /\ SettledBlocks /\ FoldInv /\ MeetInv
      /\ last \in Int
      /\ \A b \in reachable : rpoNum[b] \in Nat /\ b # None
  BY <1>0, LoopFacts
<1>3. /\ GraphInv' /\ TreeInv' /\ PassedBlocks' /\ SettledBlocks'
      /\ rpoNum' = rpoNum /\ post' = post /\ reachable' = reachable
  BY <1>1, <1>2, SameTree, SamePass
<1>4. /\ Candidate(fa) /\ rpoNum[fa] < pos
      /\ AboveFolded(fa, last)
      /\ \A p \in TreePreds(Current) : rpoNum[p] = last => Above(fa, p)
      /\ \A c \in reachable : AboveFolded(c, last + 1) => Above(c, fa)
  BY <1>0, <1>2 DEF MeetInv
<1>5. AboveFolded(fa, last + 1)
  <2>1. \A p \in TreePreds(Current) : rpoNum[p] \in Nat
    BY <1>2 DEF TreePreds, Preds
  <2>2. \A p \in TreePreds(Current) : rpoNum[p] < last + 1 => rpoNum[p] < last \/ rpoNum[p] = last
    BY <2>1, <1>2
  <2> QED  BY <2>2, <1>4 DEF AboveFolded
<1>6. PICK n : n = fa
  OBVIOUS
<1>7. PICK l : l = last
  OBVIOUS
<1>8. /\ Candidate(n)' /\ rpoNum'[n] < pos'
      /\ AboveFolded(n, l + 1)'
      /\ \A c \in reachable' : AboveFolded(c, l + 1)' => Above(c, n)'
  BY <1>4, <1>5, <1>6, <1>7, <1>1, <1>3, SamePass, SameTree
<1>9. newIdom' = n /\ last' = l /\ newIdom' # None
  BY <1>1, <1>2, <1>4, <1>6, <1>7 DEF Candidate
<1>10. pos' < Len(post') /\ last' \in Int
  BY <1>0, <1>1, <1>2, <1>3 DEF FoldInv
<1>11. FoldInv'
  BY <1>8, <1>9, <1>10 DEF FoldInv
<1>12. MeetInv' /\ DoneInv'
  BY <1>0 DEF MeetInv, DoneInv
<1> QED  BY <1>3, <1>11, <1>12 DEF LoopInv

\* Turning to the next block of the pass.
LEMMA StartKeepsLoop ==
    ASSUME TypeOK, LoopInv, StartBlock
    PROVE  LoopInv'
<1>0. pc = "pass" /\ pc # "dfs" /\ pc' = "fold" /\ pos < Len(post)
  BY DEF StartBlock
<1>1. /\ graph' = graph /\ idom' = idom /\ changed' = changed /\ pos' = pos /\ succ' = succ
      /\ last' = -1 /\ newIdom' = None
  BY DEF StartBlock, graph
<1>2. /\ GraphInv /\ TreeInv /\ PassedBlocks /\ SettledBlocks
      /\ \A b \in reachable : rpoNum[b] \in Nat
  BY <1>0, LoopFacts
<1>3. /\ GraphInv' /\ TreeInv' /\ PassedBlocks' /\ SettledBlocks'
      /\ rpoNum' = rpoNum /\ post' = post /\ reachable' = reachable
  BY <1>1, <1>2, SameTree, SamePass
<1>4. \A p \in TreePreds(Current)' : rpoNum'[p] > last'
  <2>1. \A p \in TreePreds(Current)' : p \in reachable'
    BY DEF TreePreds, Preds
  <2> QED  BY <2>1, <1>1, <1>2, <1>3
<1>5. FoldInv'
  BY <1>0, <1>1, <1>3, <1>4 DEF FoldInv
<1>6. MeetInv' /\ DoneInv'
  BY <1>0 DEF MeetInv, DoneInv
<1> QED  BY <1>3, <1>5, <1>6 DEF LoopInv

\* The end of a pass: another one, or the analysis is done.
LEMMA EndPassKeepsLoop ==
    ASSUME TypeOK, LoopInv, EndPass
    PROVE  LoopInv'
<1>0. pc = "pass" /\ pc # "dfs" /\ pos >= Len(post) /\ changed' = FALSE
  BY DEF EndPass
<1>1. graph' = graph /\ idom' = idom /\ succ' = succ
  BY DEF EndPass, graph
<1>2. /\ GraphInv /\ TreeInv /\ PassedBlocks /\ SettledBlocks
      /\ \A b \in reachable : rpoNum[b] \in Nat
      /\ Entry \in reachable /\ rpoNum[Entry] = 0
  BY <1>0, LoopFacts
<1>3. /\ GraphInv' /\ TreeInv'
      /\ rpoNum' = rpoNum /\ post' = post /\ reachable' = reachable
  BY <1>1, <1>2, SameTree
<1>4. pc' # "fold" /\ pc' # "meet"
  BY <1>0 DEF EndPass
<1>5. FoldInv' /\ MeetInv'
  BY <1>4 DEF FoldInv, MeetInv
<1>6. CASE changed
  <2>1. pc' = "pass" /\ pos' = 1
    BY <1>6 DEF EndPass
  <2>2. Before(pos)' = {}
    <3>1. \A b \in reachable : rpoNum[b] < 1 => b = Entry
      <4>1. \A b \in reachable : rpoNum[b] < 1 => rpoNum[b] = rpoNum[Entry]
        BY <1>2
      <4> QED  BY <4>1, <1>2 DEF GraphInv, Numbered
    <3> QED  BY <3>1, <2>1, <1>3 DEF Before
  <2>3. PassedBlocks' /\ SettledBlocks'
    BY <2>1, <2>2 DEF PassedBlocks, SettledBlocks
  <2>4. DoneInv'
    BY <2>1 DEF DoneInv
  <2> QED  BY <2>3, <2>4, <1>3, <1>5 DEF LoopInv
<1>7. CASE ~changed
  <2>1. pc' = "done" /\ pos' = pos /\ changed' = changed
    BY <1>0, <1>7 DEF EndPass, TypeOK
  <2>2. PassedBlocks' /\ SettledBlocks'
    BY <2>1, <1>1, <1>2, SamePass
  <2>3. DoneInv'
    BY <2>1, <1>0, <1>3, <1>7 DEF DoneInv
  <2> QED  BY <2>2, <2>3, <1>3, <1>5 DEF LoopInv
<1> QED  BY <1>6, <1>7

-----------------------------------------------------------------------------
(* Recording the candidate.                                                  *)

\* What the folding has chosen when no predecessor is left: the nearest common ancestor
\* of the predecessors that are in the tree.
LEMMA Chosen ==
    ASSUME TypeOK, LoopInv, pc = "fold",
           ~\E p \in Preds(Current) : NextPred(p, Current, last)
    PROVE  /\ Current \in reachable /\ rpoNum[Current] = pos /\ Current # Entry
           /\ newIdom # None /\ Candidate(newIdom) /\ rpoNum[newIdom] < pos
           /\ CommonAbove(newIdom, Current)
           /\ \A c \in reachable : CommonAbove(c, Current) => Above(c, newIdom)
<1>0. pc # "dfs"
  OBVIOUS
<1>1. /\ GraphInv /\ RootIsEntry /\ PassedBlocks /\ FoldInv /\ last \in Int
      /\ pos \in Nat /\ pos >= 1 /\ Len(post) \in Nat
      /\ \A b \in reachable : rpoNum[b] \in Nat
  BY <1>0, LoopFacts
<1>2. pos < Len(post)
  BY <1>1 DEF FoldInv
<1>3. \A p \in TreePreds(Current) : rpoNum[p] \in Nat /\ rpoNum[p] <= last
  BY <1>1, AllFolded DEF TreePreds, Preds
<1>4. newIdom # None
  <2>1. PICK q \in TreePreds(Current) : rpoNum[q] < pos
    BY <1>1, <1>2, ForwardPred
  <2>2. newIdom = None => rpoNum[q] > last
    BY <1>1 DEF FoldInv
  <2> QED  BY <2>1, <2>2, <1>1, <1>3
<1>5. /\ Candidate(newIdom) /\ rpoNum[newIdom] < pos
      /\ AboveFolded(newIdom, last + 1)
      /\ \A c \in reachable : AboveFolded(c, last + 1) => Above(c, newIdom)
  BY <1>1, <1>4 DEF FoldInv
<1>6. \A c : AboveFolded(c, last + 1) <=> CommonAbove(c, Current)
  <2>1. \A p \in TreePreds(Current) : rpoNum[p] < last + 1
    BY <1>1, <1>3
  <2> QED  BY <2>1 DEF AboveFolded, CommonAbove
<1> QED  BY <1>1, <1>2, <1>4, <1>5, <1>6, CurrentIs

\* What is chosen lies above what was recorded before, if anything was.
LEMMA ChosenRises ==
    ASSUME TypeOK, LoopInv, pc = "fold",
           ~\E p \in Preds(Current) : NextPred(p, Current, last),
           idom[Current] # None
    PROVE  rpoNum[newIdom] <= rpoNum[idom[Current]] /\ Above(newIdom, idom[Current])
<1>1. PICK x : x = Current
  OBVIOUS
<1>2. PICK n : n = newIdom
  OBVIOUS
<1>3. PICK m : m = idom[x]
  OBVIOUS
<1>0. pc # "dfs"
  OBVIOUS
<1>4. /\ GraphInv /\ RootIsEntry /\ PassedBlocks /\ KeepsDominators /\ FlowsDown /\ NeverNearer
      /\ pos \in Nat
      /\ \A b \in reachable : rpoNum[b] \in Nat /\ b \in Blocks
      /\ rpoNum[Entry] = 0
  BY <1>0, LoopFacts DEF TreeInv
<1>5. /\ x \in reachable /\ rpoNum[x] = pos /\ x # Entry
      /\ n \in reachable /\ CommonAbove(n, x)
  BY <1>1, <1>2, Chosen DEF Candidate
<1>6. m # None /\ x \in InTreeBlocks /\ m \in reachable /\ rpoNum[m] < pos
  BY <1>1, <1>3, <1>4, <1>5 DEF InTreeBlocks, RootIsEntry
<1>7. rpoNum[n] <= rpoNum[m]
  BY <1>3, <1>4, <1>5, <1>6 DEF NeverNearer
<1>8. Above(n, m)
  <2> SUFFICES ASSUME ~Above(n, m)
               PROVE  FALSE
    OBVIOUS
  <2> DEFINE S == {y \in reachable : /\ rpoNum[m] <= rpoNum[y] /\ y # x
                                     /\ rpoNum[y] < pos => ~Above(n, y)}
  <2>1. m \in S
    BY <1>4, <1>5, <1>6
  <2>2. ASSUME NEW y \in S, NEW z \in Succs(y), rpoNum[y] < rpoNum[z]
        PROVE  z \in S
    <3>0. y \in reachable /\ rpoNum[m] <= rpoNum[y] /\ (rpoNum[y] < pos => ~Above(n, y))
      OBVIOUS
    <3>1. z \in reachable /\ y \in Preds(z)
      BY <3>0, <1>4 DEF GraphInv, Preds
    <3>2. /\ rpoNum[y] \in Nat /\ rpoNum[z] \in Nat /\ rpoNum[m] \in Nat /\ rpoNum[n] \in Nat
      BY <3>0, <3>1, <1>4, <1>5, <1>6
    <3>3. z # x
      <4> SUFFICES ASSUME z = x
                   PROVE  FALSE
        OBVIOUS
      <4>1. rpoNum[y] < pos
        BY <2>2, <1>5
      <4>2. idom[y] # None
        BY <4>1, <3>0, <1>4, EarlierInTree
      <4>3. Above(n, y)
        BY <4>2, <3>1, <1>5 DEF CommonAbove, TreePreds
      <4> QED  BY <4>1, <4>3, <3>0
    <3>4. ASSUME rpoNum[z] < pos, Above(n, z)
          PROVE  FALSE
      <4>1. z # Entry /\ z # n
        BY <2>2, <3>0, <3>2, <1>4, <1>7
      <4>2. z \in Before(pos)
        BY <4>1, <3>1, <3>4 DEF Before
      <4>3. idom[z] # None /\ Above(idom[z], y)
        BY <4>2, <3>1, <2>2, <1>4 DEF PassedBlocks
      <4>4. Above(n, idom[z])
        BY <4>1, <4>3, <3>1, <3>4, <1>4, AboveStep
      <4>5. Above(n, y)
        BY <4>3, <4>4, AboveTrans
      <4>6. rpoNum[y] < pos
        BY <2>2, <3>2, <3>4, <1>4
      <4> QED  BY <4>5, <4>6, <3>0
    <3>5. rpoNum[m] <= rpoNum[z]
      BY <2>2, <3>0, <3>2
    <3> QED  BY <3>1, <3>3, <3>4, <3>5
  <2>3. x \notin S
    OBVIOUS
  <2>4. S \in SUBSET reachable
    OBVIOUS
  <2> HIDE DEF S
  <2>5. Forward(S)
    BY <2>2 DEF Forward
  <2>6. FlowsTo(m, x)
    BY <1>3, <1>4, <1>6 DEF FlowsDown
  <2> QED  BY <2>1, <2>3, <2>4, <2>5, <2>6 DEF FlowsTo
<1> QED  BY <1>1, <1>2, <1>3, <1>7, <1>8

\* A block that was before the one at hand, or the one at hand, is before the next.
LEMMA BeforeNext ==
    ASSUME GraphInv, pos \in Nat, NEW x \in reachable, rpoNum[x] = pos, x # Entry
    PROVE  Before(pos + 1) = Before(pos) \cup {x}
<1>0. \A b \in reachable : rpoNum[b] \in Nat
  BY DEF GraphInv, Numbered
<1>1. \A b \in reachable : rpoNum[b] < pos + 1 <=> rpoNum[b] < pos \/ b = x
  <2>1. \A b \in reachable : rpoNum[b] < pos + 1 <=> rpoNum[b] < pos \/ rpoNum[b] = rpoNum[x]
    BY <1>0
  <2> QED  BY <2>1 DEF GraphInv, Numbered
<1> QED  BY <1>1 DEF Before

\* The candidate is what was recorded already: the block joins those that are settled.
LEMMA ConfirmKeepsLoop ==
    ASSUME TypeOK, LoopInv, SetIdom, idom[Current] = newIdom
    PROVE  LoopInv'
<1>0. pc = "fold" /\ pc # "dfs" /\ pc' = "pass" /\ pos' = pos + 1
      /\ ~\E p \in Preds(Current) : NextPred(p, Current, last)
  BY DEF SetIdom
<1>1. graph' = graph /\ idom' = idom /\ succ' = succ /\ changed' = changed
  BY DEF SetIdom, graph
<1>2. /\ GraphInv /\ TreeInv /\ PassedBlocks /\ SettledBlocks /\ RootIsEntry
      /\ pos \in Nat /\ pos >= 1
  BY <1>0, LoopFacts
<1>3. /\ GraphInv' /\ TreeInv'
      /\ rpoNum' = rpoNum /\ post' = post /\ reachable' = reachable
  BY <1>1, <1>2, SameTree
<1>4. PICK x : x = Current
  OBVIOUS
<1>5. /\ x \in reachable /\ rpoNum[x] = pos /\ x # Entry
      /\ idom[x] # None /\ CommonAbove(idom[x], x)
  BY <1>0, <1>4, Chosen
<1>6. Before(pos)' = Before(pos) \cup {x}
  BY <1>0, <1>2, <1>3, <1>5, BeforeNext DEF Before
<1>7. PassedBlocks'
  <2>1. \A p \in Preds(x) : rpoNum[p] < rpoNum[x] => Above(idom[x], p)
    <3> SUFFICES ASSUME NEW p \in Preds(x), rpoNum[p] < pos
                 PROVE  Above(idom[x], p)
      BY <1>5
    <3>1. p \in TreePreds(x)
      BY <1>2, EarlierInTree DEF TreePreds, Preds
    <3> QED  BY <3>1, <1>5 DEF CommonAbove
  <2>2. \A b \in Before(pos) \cup {x} :
          /\ idom[b] # None
          /\ \A p \in Preds(b) : rpoNum[p] < rpoNum[b] => Above(idom[b], p)
    BY <2>1, <1>2, <1>5 DEF PassedBlocks
  <2>3. pos' >= 1
    BY <1>0, <1>2
  <2> QED  BY <2>2, <2>3, <1>1, <1>3, <1>6, SameTree DEF PassedBlocks
<1>8. SettledBlocks'
  <2>1. ~changed => \A b \in Before(pos) \cup {x} : CommonAbove(idom[b], b)
    BY <1>2, <1>5 DEF SettledBlocks
  <2>2. \A b : CommonAbove(idom[b], b)' <=> CommonAbove(idom[b], b)
    BY <1>1, SameTree
  <2> QED  BY <2>1, <2>2, <1>1, <1>6 DEF SettledBlocks
<1>9. FoldInv' /\ MeetInv' /\ DoneInv'
  BY <1>0 DEF FoldInv, MeetInv, DoneInv
<1> QED  BY <1>3, <1>7, <1>8, <1>9 DEF LoopInv

\* The step that moves an immediate dominator, seen apart from the rest of the loop: the
\* block x, numbered pos, gets n, and the tree keeps its invariants.
LEMMA Moves ==
    ASSUME TypeOK, LoopInv, SetIdom, idom[Current] # newIdom
    PROVE  /\ TreeInv'
           /\ idom' = [idom EXCEPT ![Current] = newIdom]
           /\ \A b : idom[b] # None => idom'[b] # None
           /\ \A a, p : /\ p \in reachable /\ rpoNum[p] < pos /\ idom[p] # None /\ Above(a, p)
                        => Above(a, p)'
<1>x. PICK x : x = Current
  OBVIOUS
<1>n. PICK n : n = newIdom
  OBVIOUS
<1>0. pc = "fold" /\ pc # "dfs"
      /\ ~\E p \in Preds(Current) : NextPred(p, Current, last)
  BY DEF SetIdom
<1>1. /\ GraphInv /\ RootIsEntry /\ PassedBlocks /\ KeepsDominators /\ FlowsDown /\ NeverNearer
      /\ pos \in Nat /\ pos < Len(post) /\ Len(post) \in Nat
      /\ \A b \in reachable : rpoNum[b] \in Nat /\ b \in Blocks /\ b # None
      /\ rpoNum[Entry] = 0 /\ Entry \in reachable
  BY <1>0, LoopFacts DEF TreeInv, FoldInv
<1>2. /\ x \in reachable /\ rpoNum[x] = pos /\ x # Entry
      /\ n # None /\ n \in reachable /\ idom[n] # None /\ rpoNum[n] < pos
      /\ (\A d \in Blocks : d # x /\ IsDominator(d, x) => IsDominator(d, n))
      /\ CommonAbove(n, x)
      /\ \A c \in reachable : CommonAbove(c, x) => Above(c, n)
  BY <1>0, <1>x, <1>n, Chosen DEF Candidate
<1>3. idom' = [idom EXCEPT ![x] = n]
  BY <1>2, <1>x, <1>n DEF SetIdom
<1>4. idom \in [Blocks -> Blocks \cup {None}] /\ x \in Blocks
  BY <1>1, <1>2 DEF RootIsEntry
<1>5. idom'[x] = n /\ \A b : b # x => idom'[b] = idom[b]
  BY <1>3, <1>4
<1>6. /\ succ' = succ /\ reachable' = reachable /\ rpoNum' = rpoNum /\ post' = post
  BY DEF SetIdom, graph
<1>7. \A b : idom[b] # None => idom'[b] # None
  BY <1>2, <1>5
<1>8. RootIsEntry'
  <2>1. idom' \in [Blocks -> Blocks \cup {None}]
    BY <1>1, <1>2, <1>3, <1>4
  <2>2. idom'[Entry] = Entry
    BY <1>1, <1>2, <1>5 DEF RootIsEntry
  <2>3. ASSUME NEW b \in Blocks \ {Entry}, idom'[b] # None
        PROVE  /\ b \in reachable /\ idom'[b] \in reachable
               /\ rpoNum[idom'[b]] < rpoNum[b]
               /\ idom'[idom'[b]] # None
    <3>1. CASE b = x
      BY <3>1, <1>2, <1>5, <1>7
    <3>2. CASE b # x
      <4>1. idom'[b] = idom[b]
        BY <3>2, <1>5
      <4> QED  BY <4>1, <2>3, <1>1, <1>7 DEF RootIsEntry
    <3> QED  BY <3>1, <3>2
  <2> QED  BY <2>1, <2>2, <2>3, <1>6 DEF RootIsEntry
<1>9. InTreeBlocks' = InTreeBlocks \cup {x}
  <2>1. \A b \in reachable \ {Entry} : idom'[b] # None <=> idom[b] # None \/ b = x
    BY <1>2, <1>5
  <2> QED  BY <2>1, <1>2, <1>6 DEF InTreeBlocks
<1>10. KeepsDominators'
  <2>1. ASSUME NEW b \in InTreeBlocks \cup {x}, NEW d \in Blocks, d # b, IsDominator(d, b)
        PROVE  IsDominator(d, idom'[b])
    <3>1. CASE b = x
      BY <3>1, <2>1, <1>2, <1>5
    <3>2. CASE b # x
      BY <3>2, <2>1, <1>1, <1>5 DEF KeepsDominators
    <3> QED  BY <3>1, <3>2
  <2> QED  BY <2>1, <1>6, <1>9, SameGraph DEF KeepsDominators
<1>11. FlowsDown'
  <2>1. \A a, b : FlowsTo(a, b)' <=> FlowsTo(a, b)
    <3>1. \A C : Forward(C)' <=> Forward(C)
      BY <1>6, SameGraph DEF Forward
    <3> QED  BY <3>1, <1>6 DEF FlowsTo
  <2>2. FlowsTo(n, x)
    <3>1. PICK q \in TreePreds(Current) : rpoNum[q] < pos
      BY <1>1, ForwardPred
    <3>2. q \in reachable /\ x \in Succs(q) /\ Above(n, q)
      BY <3>1, <1>2, <1>x DEF TreePreds, Preds, CommonAbove
    <3>3. FlowsTo(n, q)
      BY <3>2, <1>1, AboveFlows
    <3>4. FlowsTo(q, x)
      BY <3>1, <3>2, <1>2 DEF FlowsTo, Forward
    <3> QED  BY <3>3, <3>4 DEF FlowsTo
  <2>3. \A b \in InTreeBlocks \cup {x} : FlowsTo(idom'[b], b)
    BY <2>2, <1>1, <1>5 DEF FlowsDown
  <2> QED  BY <2>1, <2>3, <1>9 DEF FlowsDown
<1>12. ASSUME NEW c, NEW p, idom[p] # None, p \in Blocks, Above(c, p)'
       PROVE  Above(c, p)
  <2> SUFFICES ASSUME NEW C \in SUBSET Blocks, p \in C, Climbing(C)
               PROVE  c \in C
    BY DEF Above
  <2>0. PICK D : D = {y \in C : idom[y] # None}
    OBVIOUS
  <2>1. ASSUME NEW y \in D
        PROVE  idom'[y] \in D
    <3>0. y \in C /\ idom[y] # None
      BY <2>0
    <3>1. idom[y] \in C /\ idom[idom[y]] # None
      <4>1. idom[y] \in C
        BY <3>0 DEF Climbing
      <4>2. CASE y = Entry
        BY <4>1, <4>2, <3>0, <1>1 DEF RootIsEntry
      <4>3. CASE y # Entry
        BY <4>1, <4>3, <3>0, <1>1 DEF RootIsEntry
      <4> QED  BY <4>2, <4>3
    <3>2. CASE y # x
      BY <3>1, <3>2, <1>5, <2>0
    <3>3. CASE y = x
      <4>1. Above(n, idom[x])
        BY <3>0, <3>3, <1>0, <1>x, <1>n, ChosenRises
      <4>2. n \in C
        BY <4>1, <3>1, <3>3 DEF Above
      <4> QED  BY <4>2, <3>3, <1>2, <1>5, <2>0
    <3> QED  BY <3>2, <3>3
  <2>2. p \in D /\ D \in SUBSET Blocks
    BY <1>12, <2>0
  <2>3. D \subseteq C
    BY <2>0
  <2>4. Climbing(D)'
    BY <2>1 DEF Climbing
  <2> QED  BY <2>2, <2>3, <2>4, <1>12 DEF Above
<1>13. NeverNearer'
  <2>1. ASSUME NEW b, NEW c, CommonAbove(c, b)'
        PROVE  CommonAbove(c, b)
    <3>1. TreePreds(b) \subseteq TreePreds(b)'
      BY <1>6, <1>7, SameGraph DEF TreePreds, Preds
    <3>2. \A p \in TreePreds(b) : p \in Blocks /\ idom[p] # None /\ Above(c, p)'
      BY <3>1, <2>1, <1>1 DEF CommonAbove, TreePreds, Preds
    <3> QED  BY <3>2, <1>12 DEF CommonAbove
  <2>2. ASSUME NEW b \in InTreeBlocks \cup {x}, NEW c \in reachable, CommonAbove(c, b)
        PROVE  rpoNum[c] <= rpoNum[idom'[b]]
    <3>1. CASE b = x
      <4>1. Above(c, n)
        BY <3>1, <2>2, <1>2
      <4>2. rpoNum[c] <= rpoNum[n]
        BY <4>1, <1>1, <1>2, AboveInTree
      <4> QED  BY <4>2, <3>1, <1>5
    <3>2. CASE b # x
      BY <3>2, <2>2, <1>1, <1>5 DEF NeverNearer
    <3> QED  BY <3>1, <3>2
  <2> QED  BY <2>1, <2>2, <1>6, <1>9 DEF NeverNearer
<1>14. ASSUME NEW a, NEW p, p \in reachable, rpoNum[p] < pos, idom[p] # None, Above(a, p)
       PROVE  Above(a, p)'
  <2> SUFFICES ASSUME NEW C \in SUBSET Blocks, p \in C, Climbing(C)'
               PROVE  a \in C
    BY DEF Above
  <2> DEFINE E == {y \in reachable : idom[y] # None /\ rpoNum[y] <= rpoNum[p]}
             D == C \cap E
  <2>1. E \in SUBSET Blocks /\ Climbing(E)
    BY <1>1, <1>14, TreeClosed
  <2>2. \A y \in E : y # x
    BY <1>1, <1>2, <1>14
  <2>3. p \in E
    BY <1>1, <1>14
  <2> HIDE DEF E
  <2>4. p \in D /\ D \in SUBSET Blocks
    BY <2>1, <2>3
  <2>5. Climbing(D)
    BY <2>1, <2>2, <1>5 DEF Climbing
  <2>6. a \in D
    BY <2>4, <2>5, <1>14 DEF Above
  <2> QED  BY <2>6
<1> QED  BY <1>3, <1>7, <1>8, <1>10, <1>11, <1>13, <1>14, <1>x, <1>n DEF TreeInv

\* The candidate is new: the block moves up, and the pass has changed something.
LEMMA MoveKeepsLoop ==
    ASSUME TypeOK, LoopInv, SetIdom, idom[Current] # newIdom
    PROVE  LoopInv'
<1>0. pc = "fold" /\ pc # "dfs" /\ pc' = "pass" /\ pos' = pos + 1
      /\ ~\E p \in Preds(Current) : NextPred(p, Current, last)
  BY DEF SetIdom
<1>1. /\ GraphInv /\ RootIsEntry /\ PassedBlocks
      /\ pos \in Nat /\ pos >= 1
      /\ \A b \in reachable : rpoNum[b] \in Nat /\ b \in Blocks
  BY <1>0, LoopFacts
<1>2. PICK x : x = Current
  OBVIOUS
<1>3. PICK n : n = newIdom
  OBVIOUS
<1>4. /\ x \in reachable /\ rpoNum[x] = pos /\ x # Entry
      /\ n # None /\ CommonAbove(n, x)
  BY <1>0, <1>2, <1>3, Chosen
<1>5. changed' = TRUE
  BY <1>2, <1>3, <1>4 DEF SetIdom
<1>6. /\ succ' = succ /\ reachable' = reachable /\ rpoNum' = rpoNum /\ post' = post
  BY DEF SetIdom, graph
<1>7. GraphInv'
  <2>1. \A b : Succs(b)' = Succs(b)
    BY <1>6, SameGraph
  <2>2. MarkedSound' <=> MarkedSound
    BY <1>6, SameGraph DEF MarkedSound
  <2> QED  BY <1>1, <1>6, <2>1, <2>2 DEF GraphInv, Numbered, Retired
<1>8. /\ TreeInv'
      /\ \A b : idom[b] # None => idom'[b] # None
      /\ \A a, p : /\ p \in reachable /\ rpoNum[p] < pos /\ idom[p] # None /\ Above(a, p)
                   => Above(a, p)'
  BY Moves
<1>9. idom'[x] = n /\ \A b \in Blocks : b # x => idom'[b] = idom[b]
  <2>1. idom' = [idom EXCEPT ![x] = n]
    BY <1>2, <1>3, Moves
  <2> QED  BY <2>1, <1>1, <1>4 DEF RootIsEntry
<1>10. Before(pos)' = Before(pos) \cup {x}
  BY <1>0, <1>1, <1>4, <1>6, BeforeNext DEF Before
<1>11. PassedBlocks'
  <2>1. ASSUME NEW b \in Before(pos) \cup {x}
        PROVE  /\ idom'[b] # None
               /\ \A p \in Preds(b) : rpoNum[p] < rpoNum[b] => Above(idom[b], p)' \/ b = x
               /\ b = x => \A p \in Preds(b) : rpoNum[p] < rpoNum[b] => Above(n, p)'
    <3>1. CASE b = x
      <4>1. ASSUME NEW p \in Preds(x), rpoNum[p] < pos
            PROVE  Above(n, p)'
        <5>1. p \in reachable /\ idom[p] # None
          BY <4>1, <1>1, EarlierInTree DEF Preds
        <5>2. Above(n, p)
          BY <5>1, <1>4 DEF CommonAbove, TreePreds
        <5> QED  BY <5>1, <5>2, <4>1, <1>8
      <4> QED  BY <4>1, <3>1, <1>4, <1>9
    <3>2. CASE b # x
      <4>1. b \in Before(pos) /\ b \in reachable /\ rpoNum[b] < pos
        BY <2>1, <3>2 DEF Before
      <4>2. idom[b] # None /\ \A p \in Preds(b) : rpoNum[p] < rpoNum[b] => Above(idom[b], p)
        BY <4>1, <1>1 DEF PassedBlocks
      <4>3. ASSUME NEW p \in Preds(b), rpoNum[p] < rpoNum[b]
            PROVE  Above(idom[b], p)'
        <5>1. p \in reachable /\ rpoNum[p] < pos
          <6>1. p \in reachable /\ rpoNum[p] \in Nat /\ rpoNum[b] \in Nat
            BY <4>1, <1>1 DEF Preds
          <6> QED  BY <6>1, <4>1, <4>3, <1>1
        <5>2. idom[p] # None
          BY <5>1, <1>1, EarlierInTree
        <5>3. Above(idom[b], p)
          BY <4>2, <4>3
        <5>4. PICK e : e = idom[b]
          OBVIOUS
        <5>5. Above(e, p)'
          BY <5>1, <5>2, <5>3, <5>4, <1>8
        <5>6. e = idom'[b]
          BY <5>4, <4>1, <3>2, <1>1, <1>9
        <5> QED  BY <5>5, <5>6
      <4> QED  BY <3>2, <4>2, <4>3, <1>8
    <3> QED  BY <3>1, <3>2
  <2>2. ASSUME NEW b \in Before(pos)'
        PROVE  /\ idom'[b] # None
               /\ \A p \in Preds(b)' : rpoNum'[p] < rpoNum'[b] => Above(idom[b], p)'
    <3>0. Preds(b)' = Preds(b)
      BY <1>6, SameGraph DEF Preds
    <3>1. idom'[b] # None
      BY <2>1, <1>10
    <3>2. CASE b = x
      <4>1. \A p \in Preds(x) : rpoNum[p] < rpoNum[x] => Above(n, p)'
        BY <2>1, <1>10
      <4>2. idom'[b] = n
        BY <3>2, <1>9
      <4>3. \A p : Above(n, p)' => Above(idom[b], p)'
        BY <4>2 DEF Above
      <4> QED  BY <3>0, <3>1, <3>2, <4>1, <4>3, <1>6
    <3>3. CASE b # x
      <4>1. \A p \in Preds(b) : rpoNum[p] < rpoNum[b] => Above(idom[b], p)'
        BY <2>1, <3>3, <1>10
      <4> QED  BY <3>0, <3>1, <4>1, <1>6
    <3> QED  BY <3>2, <3>3
  <2>3. pos' >= 1
    BY <1>0, <1>1
  <2> QED  BY <2>2, <2>3 DEF PassedBlocks
<1>12. SettledBlocks'
  BY <1>5 DEF SettledBlocks
<1>13. FoldInv' /\ MeetInv' /\ DoneInv'
  BY <1>0 DEF FoldInv, MeetInv, DoneInv
<1> QED  BY <1>7, <1>8, <1>11, <1>12, <1>13 DEF LoopInv

-----------------------------------------------------------------------------
(* Every step keeps Inv.                                                     *)

\* Numbering the blocks starts the loop.
LEMMA NumberStartsLoop ==
    ASSUME TypeOK, DfsInv, Number
    PROVE  LoopInv'
<1>1. GraphInv'
  BY NumberMakesGraph
<1>2. /\ pc' = "pass" /\ changed' = FALSE /\ pos' = 1
      /\ idom' = [idom EXCEPT ![Entry] = Entry]
      /\ pc = "dfs"
  BY DEF Number
<1>3. idom'[Entry] = Entry /\ (\A b \in Blocks \ {Entry} : idom'[b] = None)
      /\ idom' \in [Blocks -> Blocks \cup {None}]
  BY <1>2, BlocksAssumption DEF DfsInv, NothingYet, TypeOK
<1>4. RootIsEntry'
  BY <1>3 DEF RootIsEntry
<1>5. InTreeBlocks' = {}
  BY <1>1, <1>3 DEF InTreeBlocks, GraphInv
<1>6. TreeInv'
  BY <1>4, <1>5 DEF TreeInv, KeepsDominators, FlowsDown, NeverNearer
<1>7. Before(pos)' = {}
  <2>1. \A b \in reachable' : rpoNum'[b] \in Nat
    BY <1>1 DEF GraphInv, Numbered
  <2>2. \A b \in reachable' : rpoNum'[b] < 1 => rpoNum'[b] = rpoNum'[Entry]
    BY <2>1, <1>1 DEF GraphInv
  <2>3. \A b \in reachable' : rpoNum'[b] < 1 => b = Entry
    BY <2>2, <1>1 DEF GraphInv, Numbered
  <2> QED  BY <2>3, <1>2 DEF Before
<1>8. PassedBlocks' /\ SettledBlocks'
  BY <1>2, <1>7 DEF PassedBlocks, SettledBlocks
<1>9. FoldInv' /\ MeetInv' /\ DoneInv'
  BY <1>2 DEF FoldInv, MeetInv, DoneInv
<1> QED  BY <1>1, <1>6, <1>8, <1>9 DEF LoopInv

\* The search starts at the entry.
LEMMA InitHolds ==
    ASSUME Init
    PROVE  Inv
<1>0. succ \in Graphs /\ Entry \in Blocks /\ None \notin Blocks
  BY BlocksAssumption DEF Init
<1>1. stack \in Seq(Entries) /\ post \in Seq(Blocks)
  BY <1>0 DEF Init, Entries
<1>2. Len(stack) = 1 /\ DOMAIN stack = {1} /\ stack # <<>>
      /\ stack[1].block = Entry /\ stack[1].next = 0
  BY DEF Init
<1>3. post = <<>> /\ DOMAIN post = {}
  BY DEF Init
<1>4. TypeOK
  BY <1>0, <1>1 DEF Init, TypeOK, Entries
<1>5. OnStack = {Entry} /\ Retired = {} /\ reachable = {Entry}
  BY <1>2, <1>3 DEF Init, OnStack, Retired
<1>6. MarkedOnce
  BY <1>2, <1>3, <1>5 DEF MarkedOnce
<1>7. LookedAt
  <2>1. Len(succ[Entry]) \in Nat /\ DOMAIN succ[Entry] = 1..Len(succ[Entry])
    BY <1>0, SuccShape
  <2>2. 0 <= Len(succ[Entry]) /\ \A j \in DOMAIN succ[Entry] : ~(j > Len(succ[Entry]) - 0)
    BY <2>1
  <2> QED  BY <1>2, <1>5, <2>2 DEF LookedAt
<1>8. EntryFirst /\ ParentLater
  <2>1. \A k \in DOMAIN stack : ~(k > 1)
    BY <1>2
  <2> QED  BY <2>1, <1>2, <1>3 DEF EntryFirst, ParentLater
<1>9. MarkedSound
  BY <1>0, <1>5 DEF MarkedSound, ClosedAvoiding
<1>10. DfsInv
  BY <1>6, <1>7, <1>8, <1>9 DEF DfsInv, NothingYet, Init
<1>11. LoopInv
  BY DEF LoopInv, Init
<1> QED  BY <1>4, <1>10, <1>11 DEF Inv

\* Types: the search.
LEMMA SearchTypes ==
    ASSUME Inv, DfsVisit \/ DfsRetire \/ Number
    PROVE  TypeOK'
<1>0. TypeOK /\ DfsInv
  BY DEF Inv
<1>1. CASE DfsVisit
  <2>1. PICK t : t = succ[Top.block][Len(succ[Top.block]) - Top.next]
    OBVIOUS
  <2>2. stack # <<>>
    BY <1>1 DEF DfsVisit
  <2>3. stack' \in Seq(Entries) /\ reachable' \in SUBSET Blocks
    <3>1. CASE Unvisited(t)
      <4>1. reachable' = reachable \cup {t} /\ stack' = Descend(t)
        BY <1>1, <2>1, <3>1 DEF DfsVisit
      <4>2. t \in Blocks
        BY <3>1 DEF Unvisited
      <4> QED  BY <4>1, <4>2, <2>2, <1>0, DescendShape DEF TypeOK
    <3>2. CASE ~Unvisited(t)
      <4>1. reachable' = reachable /\ stack' = Advanced
        BY <1>1, <2>1, <3>2 DEF DfsVisit
      <4> QED  BY <4>1, <2>2, <1>0, AdvancedShape DEF TypeOK
    <3> QED  BY <3>1, <3>2
  <2>4. rpoNum' = <<>>
    BY <1>0, <1>1 DEF DfsVisit, DfsInv, NothingYet
  <2> QED  BY <2>3, <2>4, <1>0, <1>1 DEF TypeOK, DfsVisit, fingers, Entries
<1>2. CASE DfsRetire
  <2>1. stack # <<>> /\ post' = Append(post, Top.block) /\ stack' = Pop(stack)
    BY <1>2 DEF DfsRetire
  <2>2. Top.block \in Blocks /\ stack' \in Seq(Entries)
    BY <2>1, <1>0, PopShape DEF Entries
  <2>3. post' \in Seq(Blocks)
    BY <2>1, <2>2, <1>0, AppendProperties DEF TypeOK
  <2> QED  BY <2>2, <2>3, <1>0, <1>2 DEF TypeOK, DfsRetire, fingers, Entries
<1>3. CASE Number
  <2>1. rpoNum' \in [reachable' -> Int]
    <3>1. rpoNum' \in [reachable' -> Nat]
      BY <1>0, <1>3, NumberMakesGraph DEF GraphInv, Numbered
    <3> QED  BY <3>1
  <2>2. idom' \in [Blocks -> Blocks \cup {None}] /\ changed' \in BOOLEAN /\ pos' \in Nat
    BY <1>0, <1>3, BlocksAssumption DEF TypeOK, Number
  <2> QED  BY <2>1, <2>2, <1>0, <1>3 DEF TypeOK, Number, fingers
<1> QED  BY <1>1, <1>2, <1>3

\* Types: the loop.
LEMMA LoopTypes ==
    ASSUME Inv, StartBlock \/ EndPass \/ FoldPred \/ SetIdom \/ MeetClimb \/ MeetDone
    PROVE  TypeOK'
<1>0. TypeOK /\ LoopInv /\ pc # "dfs"
  BY DEF Inv, StartBlock, EndPass, FoldPred, SetIdom, MeetClimb, MeetDone
<1>1. /\ pos \in Nat /\ \A b \in reachable : rpoNum[b] \in Nat /\ b \in Blocks
  BY <1>0, LoopFacts
<1>2. graph' = graph /\ succ' = succ
  BY DEF StartBlock, EndPass, FoldPred, SetIdom, MeetClimb, MeetDone, graph
<1>3. /\ succ' \in Graphs
      /\ reachable' \in SUBSET Blocks
      /\ stack' \in Seq([block : Blocks, next : Nat])
      /\ post' \in Seq(Blocks)
      /\ rpoNum' = <<>> \/ rpoNum' \in [reachable' -> Int]
  BY <1>0, <1>2 DEF graph, TypeOK
<1>4. pc' \in {"dfs", "pass", "fold", "meet", "done"}
  BY <1>0 DEF StartBlock, EndPass, FoldPred, SetIdom, MeetClimb, MeetDone, TypeOK
<1>5. changed' \in BOOLEAN
  BY <1>0 DEF StartBlock, EndPass, FoldPred, SetIdom, MeetClimb, MeetDone, TypeOK
<1>6. /\ idom' \in [Blocks -> Blocks \cup {None}] /\ pos' \in Nat /\ last' \in Int
      /\ {newIdom', fa', fb'} \subseteq Blocks \cup {None}
  <2>0. /\ idom \in [Blocks -> Blocks \cup {None}] /\ pos \in Nat /\ last \in Int
        /\ {newIdom, fa, fb} \subseteq Blocks \cup {None}
    BY <1>0 DEF TypeOK
  <2>1. CASE StartBlock
    BY <2>0, <2>1 DEF StartBlock, fingers
  <2>2. CASE EndPass
    BY <2>0, <2>2 DEF EndPass, fingers
  <2>3. CASE FoldPred
    <3>1. PICK p \in Preds(Current) :
            /\ last' = rpoNum[p]
            /\ \/ newIdom' = newIdom /\ fa' = fa /\ fb' = fb
               \/ newIdom' = p /\ fa' = fa /\ fb' = fb
               \/ newIdom' = newIdom /\ fa' = p /\ fb' = newIdom
      BY <2>3 DEF FoldPred, fingers
    <3>2. p \in Blocks /\ rpoNum[p] \in Int
      BY <1>1 DEF Preds
    <3>3. idom' = idom /\ pos' = pos
      BY <2>3 DEF FoldPred
    <3> QED  BY <2>0, <3>1, <3>2, <3>3
  <2>4. CASE SetIdom
    <3>1. last' = last /\ newIdom' = newIdom /\ fa' = fa /\ fb' = fb /\ pos' = pos + 1
      BY <2>4 DEF SetIdom, fingers
    <3>2. idom' \in [Blocks -> Blocks \cup {None}]
      <4>1. idom' = [idom EXCEPT ![Current] = newIdom] \/ idom' = idom
        BY <2>4 DEF SetIdom
      <4> QED  BY <4>1, <2>0
    <3> QED  BY <2>0, <3>1, <3>2
  <2>5. CASE MeetClimb
    <3>1. idom' = idom /\ pos' = pos /\ last' = last /\ newIdom' = newIdom
      BY <2>5 DEF MeetClimb
    <3> QED  BY <2>0, <2>5, <3>1, <1>0, ClimbKeepsLoop
  <2>6. CASE MeetDone
    BY <2>0, <2>6 DEF MeetDone, MeetResult, fingers
  <2> QED  BY <2>1, <2>2, <2>3, <2>4, <2>5, <2>6
<1> QED  BY <1>3, <1>4, <1>5, <1>6 DEF TypeOK

\* Every step keeps Inv.
LEMMA StepKeepsInv ==
    ASSUME Inv, [Next]_vars
    PROVE  Inv'
<1>0. TypeOK /\ DfsInv /\ LoopInv
  BY DEF Inv
<1>1. CASE DfsVisit \/ DfsRetire
  <2>1. DfsInv' /\ TypeOK'
    BY <1>0, <1>1, VisitKeepsSearch, RetireKeepsSearch, SearchTypes
  <2>2. pc' = "dfs"
    BY <1>1 DEF DfsVisit, DfsRetire
  <2> QED  BY <2>1, <2>2 DEF Inv, LoopInv
<1>2. CASE Number
  <2>1. LoopInv' /\ TypeOK'
    BY <1>0, <1>2, NumberStartsLoop, SearchTypes
  <2>2. pc' = "pass"
    BY <1>2 DEF Number
  <2> QED  BY <2>1, <2>2 DEF Inv, DfsInv
<1>3. CASE StartBlock \/ EndPass \/ FoldPred \/ SetIdom \/ MeetClimb \/ MeetDone
  <2>1. LoopInv'
    <3>1. CASE StartBlock
      BY <3>1, <1>0, StartKeepsLoop
    <3>2. CASE EndPass
      BY <3>2, <1>0, EndPassKeepsLoop
    <3>3. CASE FoldPred
      BY <3>3, <1>0, FoldKeepsLoop
    <3>4. CASE SetIdom
      BY <3>4, <1>0, ConfirmKeepsLoop, MoveKeepsLoop
    <3>5. CASE MeetClimb
      BY <3>5, <1>0, ClimbKeepsLoop
    <3>6. CASE MeetDone
      BY <3>6, <1>0, MeetDoneKeepsLoop
    <3> QED  BY <1>3, <3>1, <3>2, <3>3, <3>4, <3>5, <3>6
  <2>2. pc' # "dfs"
    BY <1>3 DEF StartBlock, EndPass, FoldPred, SetIdom, MeetClimb, MeetDone
  <2> QED  BY <2>1, <2>2, <1>3, LoopTypes DEF Inv, DfsInv
<1>4. CASE UNCHANGED vars
  <2>1. graph' = graph /\ idom' = idom /\ changed' = changed /\ pos' = pos /\ succ' = succ
        /\ pc' = pc /\ last' = last /\ newIdom' = newIdom /\ fa' = fa /\ fb' = fb
    BY <1>4 DEF vars, graph
  <2>2. TypeOK'
    BY <1>0, <1>4 DEF vars, TypeOK
  <2>3. DfsInv'
    <3>1. succ' = succ /\ reachable' = reachable /\ stack' = stack /\ post' = post
          /\ idom' = idom /\ rpoNum' = rpoNum /\ pc' = pc
      BY <1>4 DEF vars
    <3>2. MarkedSound' <=> MarkedSound
      BY <3>1, SameGraph DEF MarkedSound
    <3>3. \A b : Succs(b)' = Succs(b)
      BY <3>1, SameGraph
    <3>4. OnStack' = OnStack /\ Retired' = Retired
      BY <3>1 DEF OnStack, Retired
    <3>5. (MarkedOnce' <=> MarkedOnce) /\ (EntryFirst' <=> EntryFirst)
          /\ (NothingYet' <=> NothingYet)
      BY <3>1, <3>4 DEF MarkedOnce, EntryFirst, NothingYet
    <3>6. (LookedAt' <=> LookedAt) /\ (ParentLater' <=> ParentLater)
      BY <3>1, <3>3, <3>4 DEF LookedAt, ParentLater
    <3> QED  BY <3>1, <3>2, <3>5, <3>6, <1>0 DEF DfsInv
  <2>4. LoopInv'
    <3>1. PICK n : n = newIdom
      OBVIOUS
    <3>2. PICK f : f = fa
      OBVIOUS
    <3>3. PICK g : g = fb
      OBVIOUS
    <3>4. PICK l : l = last
      OBVIOUS
    <3>5. /\ rpoNum' = rpoNum /\ post' = post /\ reachable' = reachable
          /\ Current' = Current /\ TreePreds(Current)' = TreePreds(Current)
      BY <2>1, SameTree, SamePass
    <3>6. FoldInv' <=> FoldInv
      <4>1. /\ Candidate(n)' <=> Candidate(n)
            /\ AboveFolded(n, l + 1)' <=> AboveFolded(n, l + 1)
            /\ \A c : AboveFolded(c, l + 1)' <=> AboveFolded(c, l + 1)
            /\ \A c : Above(c, n)' <=> Above(c, n)
        BY <2>1, SameTree, SamePass
      <4>2. /\ n = newIdom' /\ l = last'
        BY <2>1, <3>1, <3>4
      <4> QED  BY <2>1, <3>1, <3>4, <3>5, <4>1, <4>2 DEF FoldInv
    <3>7. MeetInv' <=> MeetInv
      <4>1. /\ Candidate(f)' <=> Candidate(f)
            /\ Candidate(g)' <=> Candidate(g)
            /\ AboveFolded(g, l)' <=> AboveFolded(g, l)
            /\ \A c : AboveFolded(c, l + 1)' <=> AboveFolded(c, l + 1)
            /\ \A c : Above(c, f)' <=> Above(c, f)
            /\ \A c : Above(f, c)' <=> Above(f, c)
            /\ \A c : Above(c, g)' <=> Above(c, g)
        BY <2>1, SameTree, SamePass
      <4>2. /\ f = fa' /\ g = fb' /\ l = last'
        BY <2>1, <3>2, <3>3, <3>4
      <4> QED  BY <2>1, <3>2, <3>3, <3>4, <3>5, <4>1, <4>2 DEF MeetInv
    <3>8. DoneInv' <=> DoneInv
      BY <2>1, <3>5 DEF DoneInv
    <3> QED  BY <1>0, <2>1, <3>6, <3>7, <3>8, SameTree, SamePass DEF LoopInv
  <2> QED  BY <2>2, <2>3, <2>4 DEF Inv
<1> QED  BY <1>1, <1>2, <1>3, <1>4 DEF Next, Compute, Returned

-----------------------------------------------------------------------------
(* The finished tree.                                                        *)

\* At the end every reachable block is in the tree, below all its predecessors' common
\* ancestors.
Finished ==
    /\ GraphInv /\ TreeInv
    /\ \A b \in reachable \ {Entry} : idom[b] # None
    /\ \A b \in reachable \ {Entry} : CommonAbove(idom[b], b)

\* When compute() returns, the last pass has changed nothing: the tree is finished.
LEMMA DoneIsFinished ==
    ASSUME TypeOK, LoopInv, pc = "done"
    PROVE  Finished
<1>0. pc # "dfs"
  OBVIOUS
<1>1. /\ GraphInv /\ TreeInv /\ PassedBlocks /\ SettledBlocks /\ ~changed /\ pos >= Len(post)
      /\ pos \in Nat /\ Len(post) \in Nat
  BY <1>0, LoopFacts DEF DoneInv
<1>2. \A b \in reachable : rpoNum[b] < pos
  <2>1. \A b \in reachable : rpoNum[b] \in Nat /\ rpoNum[b] < Len(post)
    BY <1>1 DEF GraphInv, Numbered
  <2> QED  BY <2>1, <1>1
<1>3. Before(pos) = reachable \ {Entry}
  BY <1>2 DEF Before
<1>4. \A b \in Before(pos) : CommonAbove(idom[b], b)
  BY <1>1 DEF SettledBlocks
<1> QED  BY <1>1, <1>3, <1>4 DEF Finished, PassedBlocks

\* What is above a block of the finished tree dominates it.
LEMMA AboveDominates ==
    ASSUME Finished, NEW a \in reachable, NEW b \in reachable, Above(a, b)
    PROVE  IsDominator(a, b)
<1>0. GraphInv /\ RootIsEntry /\ reachable \subseteq Blocks
  BY DEF Finished, TreeInv, GraphInv
<1>1. CASE a = b
  BY <1>1 DEF IsDominator
<1>2. CASE a # b
  <2> DEFINE S == {x \in reachable : ~Above(a, x)}
  <2>1. a \notin S /\ b \notin S /\ S \in SUBSET (Blocks \ {a})
    BY <1>0, AboveSelf
  <2>2. Entry \in S \cup {a}
    BY <1>0, AboveEntry DEF GraphInv
  <2>3. ASSUME NEW x \in S, NEW y \in Succs(x), y # a
        PROVE  y \in S
    <3>1. y \in reachable /\ x \in reachable /\ ~Above(a, x)
      BY <1>0 DEF GraphInv
    <3> SUFFICES ASSUME Above(a, y)
                 PROVE  FALSE
      BY <3>1
    <3>2. y # Entry
      BY <2>3, <1>0, AboveEntry
    <3>3. idom[y] # None /\ CommonAbove(idom[y], y)
      BY <3>1, <3>2 DEF Finished
    <3>4. Above(a, idom[y])
      BY <3>1, <3>3, <2>3, <1>0, AboveStep
    <3>5. x \in TreePreds(y)
      <4>1. idom[x] # None
        BY <3>1, <1>0, BlocksAssumption DEF Finished, RootIsEntry
      <4> QED  BY <4>1, <3>1 DEF TreePreds, Preds
    <3>6. Above(idom[y], x)
      BY <3>3, <3>5 DEF CommonAbove
    <3> QED  BY <3>1, <3>4, <3>6, AboveTrans
  <2> HIDE DEF S
  <2>4. ClosedAvoiding(S, a)
    BY <2>2, <2>3 DEF ClosedAvoiding
  <2> QED  BY <2>1, <2>4 DEF IsDominator
<1> QED  BY <1>1, <1>2

\* What dominates a block is above it in the finished tree.
LEMMA DominatorsAreAbove ==
    ASSUME Finished, NEW a \in reachable, NEW b \in reachable, IsDominator(a, b)
    PROVE  Above(a, b)
<1>0. /\ GraphInv /\ RootIsEntry /\ KeepsDominators /\ reachable \subseteq Blocks
      /\ \A x \in reachable : rpoNum[x] \in Nat
  BY DEF Finished, TreeInv, GraphInv, Numbered
<1> SUFFICES ASSUME NEW C \in SUBSET Blocks, b \in C, Climbing(C)
             PROVE  a \in C
  BY DEF Above
<1> DEFINE T == {x \in C \cap reachable : IsDominator(a, x)}
<1>1. T # {} /\ \A x \in T : rpoNum[x] \in Nat
  BY <1>0
<1>2. PICK x \in T : \A y \in T : rpoNum[x] <= rpoNum[y]
  <2> HIDE DEF T
  <2> QED  BY <1>1, LeastNumbered
<1>3. CASE x = a
  BY <1>3
<1>4. CASE x # a
  <2>1. x \in reachable /\ x \in C /\ IsDominator(a, x)
    OBVIOUS
  <2>2. x # Entry
    BY <2>1, <1>4, DomEntry
  <2>3. idom[x] # None /\ x \in InTreeBlocks
    BY <2>1, <2>2 DEF Finished, InTreeBlocks
  <2>4. IsDominator(a, idom[x])
    BY <2>1, <2>3, <1>0, <1>4 DEF KeepsDominators
  <2>5. idom[x] \in reachable /\ rpoNum[idom[x]] < rpoNum[x] /\ idom[x] \in C
    BY <2>1, <2>2, <2>3, <1>0 DEF RootIsEntry, Climbing
  <2>6. idom[x] \in T
    BY <2>4, <2>5
  <2>7. rpoNum[x] <= rpoNum[idom[x]]
    BY <2>6, <1>2
  <2> QED  BY <2>1, <2>5, <2>7, <1>0
<1> QED  BY <1>3, <1>4

\* One turn of the climb that `dominates' does: being above a is its fixpoint.
LEMMA AboveTurn ==
    ASSUME RootIsEntry, NEW a, NEW x \in Blocks
    PROVE  Above(a, x) <=> x = a \/ (idom[x] \notin {None, x} /\ Above(a, idom[x]))
<1>1. CASE idom[x] = None \/ idom[x] = x
  <2>1. Climbing({x}) /\ {x} \in SUBSET Blocks
    BY <1>1 DEF Climbing
  <2>2. Above(a, x) => a = x
    BY <2>1 DEF Above
  <2> QED  BY <2>2, <1>1, AboveSelf
<1>2. CASE idom[x] # None /\ idom[x] # x
  BY <1>2, AboveStep, AboveParent, AboveTrans, AboveSelf
<1> QED  BY <1>1, <1>2

\* A function that satisfies the recursion of `dominates' agrees with Above.
LEMMA WalkUnique ==
    ASSUME Finished, NEW a, NEW b \in reachable, NEW f,
           \A x \in Blocks : f[x] <=> x = a \/ (idom[x] \notin {None, x} /\ f[idom[x]])
    PROVE  f[b] <=> Above(a, b)
<1>0. /\ RootIsEntry /\ reachable \subseteq Blocks
      /\ \A x \in reachable : rpoNum[x] \in Nat
  BY DEF Finished, TreeInv, GraphInv, Numbered
<1> DEFINE T == {x \in reachable : ~(f[x] <=> Above(a, x))}
<1> SUFFICES ASSUME T # {}
             PROVE  FALSE
  OBVIOUS
<1>1. \A x \in T : rpoNum[x] \in Nat
  BY <1>0
<1>2. PICK x \in T : \A y \in T : rpoNum[x] <= rpoNum[y]
  <2> HIDE DEF T
  <2> QED  BY <1>1, LeastNumbered
<1>3. x \in reachable /\ x \in Blocks /\ ~(f[x] <=> Above(a, x))
  BY <1>0
<1>4. f[x] <=> x = a \/ (idom[x] \notin {None, x} /\ f[idom[x]])
  BY <1>3
<1>5. Above(a, x) <=> x = a \/ (idom[x] \notin {None, x} /\ Above(a, idom[x]))
  BY <1>0, <1>3, AboveTurn
<1>6. idom[x] \notin {None, x} => (f[idom[x]] <=> Above(a, idom[x]))
  <2> SUFFICES ASSUME idom[x] \notin {None, x}
               PROVE  f[idom[x]] <=> Above(a, idom[x])
    OBVIOUS
  <2>1. x # Entry
    BY <1>0 DEF RootIsEntry
  <2>2. idom[x] \in reachable /\ rpoNum[idom[x]] < rpoNum[x]
    BY <2>1, <1>0, <1>3 DEF RootIsEntry
  <2>3. ~(rpoNum[x] <= rpoNum[idom[x]])
    BY <2>2, <1>0, <1>3
  <2>4. idom[x] \notin T
    BY <2>3, <1>2
  <2> QED  BY <2>2, <2>4
<1> QED  BY <1>3, <1>4, <1>5, <1>6

\* The function by which `dominates' climbs.
Turn(a, f) == [x \in Blocks |-> x = a \/ (idom[x] \notin {None, x} /\ f[idom[x]])]
Meets(a) == CHOOSE f : f = Turn(a, f)

\* Climbing from b one meets a exactly when a is above b.
LEMMA WalkMeets ==
    ASSUME Finished, NEW a \in reachable, NEW b \in reachable
    PROVE  DominatesWalk(a, b) <=> Above(a, b)
<1>0. RootIsEntry
  BY DEF Finished, TreeInv
<1>1. DominatesWalk(a, b) <=> Meets(a)[b]
  BY DEF DominatesWalk, Meets, Turn
<1>2. Meets(a) = Turn(a, Meets(a))
  <2>1. PICK g : g = [x \in Blocks |-> Above(a, x)]
    OBVIOUS
  <2>2. ASSUME NEW x \in Blocks
        PROVE  Above(a, x) <=> x = a \/ (idom[x] \notin {None, x} /\ g[idom[x]])
    <3>1. idom[x] \in Blocks \cup {None}
      BY <1>0 DEF RootIsEntry
    <3>2. idom[x] \notin {None, x} => (g[idom[x]] <=> Above(a, idom[x]))
      BY <2>1, <3>1
    <3> QED  BY <3>2, <1>0, AboveTurn
  <2>3. g = Turn(a, g)
    <3>1. [x \in Blocks |-> Above(a, x)]
            = [x \in Blocks |-> x = a \/ (idom[x] \notin {None, x} /\ g[idom[x]])]
      <4>1. \A x \in Blocks :
               Above(a, x) = (x = a \/ (idom[x] \notin {None, x} /\ g[idom[x]]))
        BY <2>2, Zenon DEF Above
      <4> QED  BY <4>1, Zenon
    <3> QED  BY <2>1, <3>1 DEF Turn
  <2> QED  BY <2>3, Zenon DEF Meets
<1>3. \A x \in Blocks :
        Meets(a)[x] <=> x = a \/ (idom[x] \notin {None, x} /\ Meets(a)[idom[x]])
  BY <1>2, Zenon DEF Turn
<1> HIDE DEF Meets
<1>4. Meets(a)[b] <=> Above(a, b)
  BY <1>3, WalkUnique
<1> QED  BY <1>1, <1>4

-----------------------------------------------------------------------------
(* The theorems.                                                             *)

\* The search and the loop keep their invariant on every graph.
THEOREM DominatorsSafe == Spec => []Inv
<1>1. Init => Inv
  BY InitHolds
<1>2. Inv /\ [Next]_vars => Inv'
  BY StepKeepsInv
<1> QED  BY <1>1, <1>2, PTL DEF Spec

\* The variables of the analysis keep their types: the search pushes blocks of the function
\* only, and the fingers of intersect stay on blocks (cfg.rs:45-110).
THEOREM DominatorsTypes == Spec => []TypeOK
<1>1. Inv => TypeOK
  BY DEF Inv
<1> QED  BY <1>1, DominatorsSafe, PTL

\* Whatever the graph, an immediate dominator has a smaller reverse post-order number than
\* its block, so that intersect (cfg.rs:132) climbs towards the entry.
THEOREM TreeClimbs == Spec => []IdomClimbs
<1>1. Inv => IdomClimbs
  BY DEF Inv, LoopInv, TreeInv, RootIsEntry, IdomClimbs
<1> QED  BY <1>1, DominatorsSafe, PTL

\* Whatever the graph, the blocks marked and retired are those a path from the entry leads
\* to (cfg.rs:45-73).
THEOREM MarksReachable == Spec => []ReachableExact
<1>1. Inv => ReachableExact
  <2> SUFFICES ASSUME Inv, pc = "done"
               PROVE  /\ \A b \in Blocks : b \in reachable <=> IsReachable(b)
                      /\ {post[n] : n \in DOMAIN post} = reachable
    BY DEF ReachableExact
  <2>1. GraphInv
    BY DEF Inv, LoopInv
  <2>2. ClosedAvoiding(reachable, None) /\ reachable \in SUBSET Blocks
    BY <2>1 DEF ClosedAvoiding, GraphInv
  <2> QED  BY <2>1, <2>2 DEF IsReachable, GraphInv, MarkedSound, Retired
<1> QED  BY <1>1, DominatorsSafe, PTL

\* Whatever the graph, a step of the loop moves an immediate dominator towards the entry or
\* leaves it (cfg.rs:99-105).
THEOREM IdomsRise == Spec => IdomOnlyRises
<1> DEFINE Rises == \A b \in Blocks :
                      idom[b] # None => /\ idom'[b] # None
                                        /\ rpoNum'[idom'[b]] <= rpoNum'[idom[b]]
<1>1. ASSUME Inv, [Next]_vars
      PROVE  Rises
  <2>0. TypeOK /\ DfsInv /\ LoopInv
    BY <1>1 DEF Inv
  <2>1. CASE pc = "dfs"
    BY <2>0, <2>1 DEF DfsInv, NothingYet
  <2>2. CASE pc # "dfs"
    <3>1. /\ RootIsEntry /\ Entry \in reachable
          /\ \A b \in reachable : rpoNum[b] \in Nat
      BY <2>0, <2>2, LoopFacts
    <3>2. \A b \in Blocks : idom[b] # None => rpoNum[idom[b]] \in Nat
      BY <3>1 DEF RootIsEntry
    <3>3. CASE idom' = idom /\ rpoNum' = rpoNum
      BY <3>2, <3>3
    <3>4. CASE SetIdom /\ idom[Current] # newIdom
      <4>1. /\ idom' = [idom EXCEPT ![Current] = newIdom]
            /\ \A b : idom[b] # None => idom'[b] # None
        BY <2>0, <3>4, Moves
      <4>2. rpoNum' = rpoNum
        BY <3>4 DEF SetIdom, graph
      <4>3. idom[Current] # None => rpoNum[newIdom] <= rpoNum[idom[Current]]
        BY <2>0, <3>4, ChosenRises DEF SetIdom
      <4>4. \A b \in Blocks : idom'[b] = IF b = Current THEN newIdom ELSE idom[b]
        BY <4>1, <3>1 DEF RootIsEntry
      <4> QED  BY <3>2, <4>1, <4>2, <4>3, <4>4
    <3>5. \/ idom' = idom /\ rpoNum' = rpoNum
          \/ SetIdom /\ idom[Current] # newIdom
      BY <1>1, <2>2 DEF Next, Compute, Returned, DfsVisit, DfsRetire, Number, StartBlock,
                        EndPass, FoldPred, SetIdom, MeetClimb, MeetDone, graph, vars
    <3> QED  BY <3>3, <3>4, <3>5
  <2> QED  BY <2>1, <2>2
<1>2. Inv /\ [Next]_vars => [Rises]_vars
  BY <1>1
<1>3. Spec => [][Rises]_vars
  BY <1>2, DominatorsSafe, PTL DEF Spec
<1> QED  BY <1>3 DEF IdomOnlyRises

\* Whatever the graph, when the analysis returns, climbing the tree from b meets a exactly
\* when every path from the entry to b goes through a, and a block out of reach has no
\* immediate dominator (cfg.rs:112-129).
THEOREM DominanceRight == Spec => []DominanceExact
<1>1. Inv => DominanceExact
  <2> SUFFICES ASSUME Inv, pc = "done"
               PROVE  /\ \A a, b \in reachable : DominatesWalk(a, b) <=> IsDominator(a, b)
                      /\ \A b \in Blocks \ reachable : idom[b] = None
    BY DEF DominanceExact
  <2>1. Finished
    BY DoneIsFinished DEF Inv
  <2>2. \A a, b \in reachable : DominatesWalk(a, b) <=> IsDominator(a, b)
    BY <2>1, WalkMeets, AboveDominates, DominatorsAreAbove
  <2>3. \A b \in Blocks \ reachable : idom[b] = None
    BY <2>1 DEF Finished, TreeInv, RootIsEntry, GraphInv
  <2> QED  BY <2>2, <2>3
<1> QED  BY <1>1, DominatorsSafe, PTL
=============================================================================
