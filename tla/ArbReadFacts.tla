---------------------------- MODULE ArbReadFacts ----------------------------
(***************************************************************************)
(* What each read of ArbReader returns: a value s.val is in the set of     *)
(* results of a read exactly when it is legal and its bytes, as the writer *)
(* gives them, lie at the cursor (FixedReads to ValueRead).  The value is  *)
(* the only one (FixedOne to HeadsOne).                                    *)
(*                                                                         *)
(* The list of fields of every entry is walked by a recursive function on  *)
(* the reader's side and flattened by another on the writer's.  Such a     *)
(* function is some function that satisfies the recursion; that there is   *)
(* one, and only one, is shown by the least position for which it fails.   *)
(***************************************************************************)
EXTENDS ArbReader, SequenceTheorems, WellFoundedInduction, TLAPS

-----------------------------------------------------------------------------
(* FlattenSeq of the community modules, one element at a time              *)

LEMMA LeastOf ==
    ASSUME NEW T, T \subseteq Nat, T # {}
    PROVE  \E m \in T : \A k \in T : m <= k
  <1>1. PICK m \in T : \A k \in T : ~(<<k, m>> \in OpToRel(<, Nat))
    BY NatLessThanWellFounded, WFMin
  <1>2. \A k \in T : ~(k < m)
    BY <1>1 DEF OpToRel
  <1> QED BY <1>2

\* f[i] is the first i elements of s, one after the other.
Flattens(f, s, n) == f = [i \in 1..n |-> IF i = 1 THEN s[i] ELSE f[i - 1] \o s[i]]

LEMMA FlattensStep ==
    ASSUME NEW f, NEW s, NEW n \in Nat, Flattens(f, s, n)
    PROVE  /\ DOMAIN f = 1..n
           /\ \A i \in 1..n : f[i] = IF i = 1 THEN s[i] ELSE f[i - 1] \o s[i]
  <1> DEFINE g == [i \in 1..n |-> IF i = 1 THEN s[i] ELSE f[i - 1] \o s[i]]
  <1>1. f = g
    BY DEF Flattens
  <1>2. DOMAIN g = 1..n /\ \A i \in 1..n : g[i] = IF i = 1 THEN s[i] ELSE f[i - 1] \o s[i]
    OBVIOUS
  <1> HIDE DEF g
  <1> QED BY <1>1, <1>2

\* There is such a function ...
LEMMA FlattensExists ==
    ASSUME NEW s, NEW n \in Nat
    PROVE  \E f : Flattens(f, s, n)
  <1> DEFINE Without == {k \in 0..n : ~ \E f : Flattens(f, s, k)}
  <1> SUFFICES ASSUME Without # {} PROVE FALSE
    OBVIOUS
  <1>0. Without \subseteq Nat
    OBVIOUS
  <1>1. PICK k \in Without : \A j \in Without : k <= j
    <2> HIDE DEF Without
    <2> QED BY <1>0, LeastOf
  <1>2. k # 0
    <2>1. Flattens([i \in 1..0 |-> s], s, 0)
      BY DEF Flattens
    <2> QED BY <2>1
  <1>3. k \in 1..n /\ k - 1 \in 0..n /\ k - 1 \notin Without
    BY <1>1, <1>2
  <1>4. PICK f : Flattens(f, s, k - 1)
    BY <1>3
  <1>5. /\ DOMAIN f = 1..k - 1
        /\ \A i \in 1..k - 1 : f[i] = IF i = 1 THEN s[i] ELSE f[i - 1] \o s[i]
    BY <1>3, <1>4, FlattensStep
  <1> DEFINE g == [i \in 1..k |-> IF i = 1 THEN s[i] ELSE f[i - 1] \o s[i]]
  <1>6. \A i \in 1..k - 1 : g[i] = f[i]
    <2> SUFFICES ASSUME NEW i \in 1..k - 1 PROVE g[i] = f[i]
      OBVIOUS
    <2>1. i \in 1..k
      BY <1>3
    <2>2. g[i] = IF i = 1 THEN s[i] ELSE f[i - 1] \o s[i]
      BY <2>1
    <2> QED BY <1>5, <2>2
  <1>7. \A i \in 1..k : i # 1 => g[i - 1] = f[i - 1]
    <2> HIDE DEF g
    <2> QED BY <1>3, <1>6
  <1> DEFINE h == [i \in 1..k |-> IF i = 1 THEN s[i] ELSE g[i - 1] \o s[i]]
  <1>8. g = h
    <2>1. \A i \in 1..k : (IF i = 1 THEN s[i] ELSE f[i - 1] \o s[i])
                           = (IF i = 1 THEN s[i] ELSE g[i - 1] \o s[i])
      <3> HIDE DEF g
      <3> QED BY <1>7
    <2>2. DOMAIN g = 1..k /\ DOMAIN h = 1..k
      OBVIOUS
    <2>3. \A i \in 1..k : g[i] = h[i]
      <3> SUFFICES ASSUME NEW i \in 1..k PROVE g[i] = h[i]
        OBVIOUS
      <3>1. g[i] = IF i = 1 THEN s[i] ELSE f[i - 1] \o s[i]
        OBVIOUS
      <3>2. h[i] = IF i = 1 THEN s[i] ELSE g[i - 1] \o s[i]
        OBVIOUS
      <3> QED BY <2>1, <3>1, <3>2
    <2> QED BY <2>2, <2>3, Zenon
  <1>9. Flattens(g, s, k)
    BY <1>8, Zenon DEF Flattens, h
  <1> QED BY <1>9

\* The first n elements are the same.
Agree(s, t, n) == \A i \in 1..n : s[i] = t[i]

\* ... and on sequences that start alike, only one.
LEMMA FlattensOnce ==
    ASSUME NEW s, NEW t, NEW m \in Nat, NEW n \in Nat, m <= n, NEW f, NEW g,
           Flattens(f, s, m), Flattens(g, t, n), Agree(s, t, m)
    PROVE  Agree(f, g, m)
  <1> DEFINE Differ == {i \in 1..m : f[i] # g[i]}
  <1> SUFFICES ASSUME Differ # {} PROVE FALSE
    BY DEF Agree
  <1>0. Differ \subseteq Nat
    OBVIOUS
  <1>1. PICK i \in Differ : \A j \in Differ : i <= j
    <2> HIDE DEF Differ
    <2> QED BY <1>0, LeastOf
  <1>2. f[i] = (IF i = 1 THEN s[i] ELSE f[i - 1] \o s[i])
    BY FlattensStep
  <1>3. g[i] = (IF i = 1 THEN t[i] ELSE g[i - 1] \o t[i])
    <2>1. i \in 1..n
      OBVIOUS
    <2> QED BY <2>1, FlattensStep
  <1>4. i # 1 => f[i - 1] = g[i - 1]
    BY <1>1
  <1>5. s[i] = t[i]
    BY DEF Agree
  <1> QED BY <1>2, <1>3, <1>4, <1>5

LEMMA FlattensTyped ==
    ASSUME NEW S, NEW s \in Seq(Seq(S)), NEW f, Flattens(f, s, Len(s))
    PROVE  \A i \in 1..Len(s) : f[i] \in Seq(S)
  <1> DEFINE Bad == {i \in 1..Len(s) : f[i] \notin Seq(S)}
  <1> SUFFICES ASSUME Bad # {} PROVE FALSE
    OBVIOUS
  <1>1. Len(s) \in Nat /\ Bad \subseteq Nat
    OBVIOUS
  <1>2. PICK i \in Bad : \A j \in Bad : i <= j
    BY <1>1, LeastOf
  <1>3. f[i] = (IF i = 1 THEN s[i] ELSE f[i - 1] \o s[i])
    BY <1>1, FlattensStep
  <1>4. s[i] \in Seq(S)
    OBVIOUS
  <1>5. i # 1 => f[i - 1] \in Seq(S)
    BY <1>1, <1>2
  <1>6. i # 1 => f[i - 1] \o s[i] \in Seq(S)
    BY <1>4, <1>5, ConcatProperties
  <1> QED BY <1>3, <1>4, <1>6

LEMMA FlattenIs ==
    ASSUME NEW s, Len(s) \in Nat, Len(s) # 0
    PROVE  \E f : Flattens(f, s, Len(s)) /\ FlattenSeq(s) = f[Len(s)]
  <1> DEFINE c == CHOOSE f : f = [i \in 1..Len(s) |-> IF i = 1 THEN s[i] ELSE f[i - 1] \o s[i]]
  <1>1. \E f : f = [i \in 1..Len(s) |-> IF i = 1 THEN s[i] ELSE f[i - 1] \o s[i]]
    BY FlattensExists DEF Flattens
  <1>2. c = [i \in 1..Len(s) |-> IF i = 1 THEN s[i] ELSE c[i - 1] \o s[i]]
    BY <1>1
  <1>3. FlattenSeq(s) = c[Len(s)]
    BY DEF FlattenSeq
  <1> QED BY <1>2, <1>3 DEF Flattens

LEMMA FlattenNone == FlattenSeq(<<>>) = <<>>
  BY DEF FlattenSeq

\* A sequence that is one longer adds its last element.
LEMMA FlattenAppend ==
    ASSUME NEW S, NEW s \in Seq(Seq(S)), NEW x \in Seq(S)
    PROVE  /\ FlattenSeq(s) \in Seq(S)
           /\ FlattenSeq(Append(s, x)) = FlattenSeq(s) \o x
  <1> DEFINE t == Append(s, x)
             n == Len(s)
  <1>1. /\ n \in Nat /\ t \in Seq(Seq(S)) /\ Len(t) = n + 1
        /\ \A i \in 1..n : t[i] = s[i]
        /\ t[n + 1] = x
    BY AppendProperties
  <1> HIDE DEF t
  <1>2. PICK g : Flattens(g, t, n + 1) /\ FlattenSeq(t) = g[n + 1]
    BY <1>1, FlattenIs
  <1>3. g[n + 1] = IF n + 1 = 1 THEN x ELSE g[n] \o x
    <2>1. n + 1 \in Nat /\ n + 1 \in 1..n + 1 /\ (n + 1) - 1 = n
      BY <1>1
    <2>2. g[n + 1] = IF n + 1 = 1 THEN t[n + 1] ELSE g[(n + 1) - 1] \o t[n + 1]
      BY <1>2, <2>1, FlattensStep
    <2> QED BY <1>1, <2>1, <2>2
  <1>4. CASE n = 0
    <2>1. s = <<>>
      BY <1>4, EmptySeq
    <2>2. FlattenSeq(s) = <<>>
      BY <2>1, FlattenNone
    <2>3. FlattenSeq(t) = x
      BY <1>2, <1>3, <1>4
    <2>4. <<>> \o x = x
      BY ConcatEmptySeq
    <2>5. <<>> \in Seq(S)
      OBVIOUS
    <2> QED BY <2>2, <2>3, <2>4, <2>5 DEF t
  <1>5. CASE n # 0
    <2>1. PICK f : Flattens(f, s, n) /\ FlattenSeq(s) = f[n]
      BY <1>1, <1>5, FlattenIs
    <2>2. f[n] \in Seq(S)
      BY <1>1, <1>5, <2>1, FlattensTyped
    <2>3. Agree(f, g, n)
      <3> DEFINE m == n + 1
      <3>1. m \in Nat /\ n \in Nat /\ n <= m
        BY <1>1
      <3>2. Flattens(f, s, n) /\ Flattens(g, t, m)
        BY <1>2, <2>1
      <3>3. Agree(s, t, n)
        BY <1>1 DEF Agree
      <3> HIDE DEF m, n
      <3> QED BY <3>1, <3>2, <3>3, FlattensOnce
    <2>4. f[n] = g[n]
      BY <1>1, <1>5, <2>3 DEF Agree
    <2>5. FlattenSeq(t) = FlattenSeq(s) \o x
      BY <1>1, <1>2, <1>3, <1>5, <2>1, <2>4
    <2> QED BY <2>1, <2>2, <2>5 DEF t
  <1> QED BY <1>4, <1>5

-----------------------------------------------------------------------------
(* Prefixes                                                                *)

Prefix(s, n) == [i \in 1..n |-> s[i]]

\* Flattening goes on from one prefix to the next.
LEMMA FlattenPrefix ==
    ASSUME NEW S, NEW s \in Seq(Seq(S)), NEW n \in 1..Len(s)
    PROVE  /\ FlattenSeq(Prefix(s, n - 1)) \in Seq(S)
           /\ FlattenSeq(Prefix(s, n)) = FlattenSeq(Prefix(s, n - 1)) \o s[n]
  <1> DEFINE a == Prefix(s, n - 1)
             b == Append(a, s[n])
  <1>1. Len(s) \in Nat /\ n - 1 \in Nat /\ \A i \in 1..Len(s) : s[i] \in Seq(S)
    OBVIOUS
  <1>2. a \in Seq(Seq(S)) /\ Len(a) = n - 1 /\ \A i \in 1..n - 1 : a[i] = s[i]
    BY <1>1 DEF Prefix
  <1> HIDE DEF a
  <1>3. s[n] \in Seq(S)
    BY <1>1
  <1>4. /\ b \in Seq(Seq(S)) /\ Len(b) = n /\ b[n] = s[n]
        /\ \A i \in 1..n - 1 : b[i] = a[i]
    BY <1>1, <1>2, <1>3, AppendProperties
  <1> HIDE DEF b
  <1>5. Prefix(s, n) \in Seq(Seq(S)) /\ Len(Prefix(s, n)) = n /\ \A i \in 1..n : Prefix(s, n)[i] = s[i]
    BY <1>1 DEF Prefix
  <1>6. \A i \in 1..n : b[i] = s[i]
    BY <1>1, <1>2, <1>4
  <1>7. b = Prefix(s, n)
    BY <1>4, <1>5, <1>6, SeqEqual
  <1> QED BY <1>2, <1>3, <1>7, FlattenAppend DEF a, b

LEMMA PrefixEnds ==
    ASSUME NEW S, NEW s \in Seq(S)
    PROVE  Prefix(s, 0) = <<>> /\ Prefix(s, Len(s)) = s
  BY DEF Prefix

LEMMA FlattenTyped ==
    ASSUME NEW S, NEW s \in Seq(Seq(S))
    PROVE  FlattenSeq(s) \in Seq(S)
  <1> <<>> \in Seq(S)
    OBVIOUS
  <1> QED BY FlattenAppend

\* Induction up to a bound, on the set of the numbers that are good.
LEMMA UpTo ==
    ASSUME NEW N \in Nat, NEW G, 0 \in G, \A n \in 1..N : n - 1 \in G => n \in G
    PROVE  \A n \in 0..N : n \in G
  <1> DEFINE Bad == {n \in 0..N : n \notin G}
  <1> SUFFICES ASSUME Bad # {} PROVE FALSE
    OBVIOUS
  <1>1. Bad \subseteq Nat
    OBVIOUS
  <1>2. PICK m \in Bad : \A k \in Bad : m <= k
    <2> HIDE DEF Bad
    <2> QED BY <1>1, LeastOf
  <1>3. m # 0 /\ m \in 0..N
    OBVIOUS
  <1>4. m \in 1..N /\ m - 1 \in 0..N /\ ~(m <= m - 1)
    BY <1>3
  <1>5. m - 1 \in G
    BY <1>2, <1>4
  <1> QED BY <1>4, <1>5

\* Flattening a few.
LEMMA FlattenFew ==
    ASSUME NEW S, NEW s \in Seq(Seq(S))
    PROVE  /\ Len(s) = 1 => FlattenSeq(s) = s[1]
           /\ Len(s) = 2 => FlattenSeq(s) = s[1] \o s[2]
           /\ Len(s) = 3 => FlattenSeq(s) = s[1] \o s[2] \o s[3]
           /\ Len(s) = 4 => FlattenSeq(s) = s[1] \o s[2] \o s[3] \o s[4]
  <1> DEFINE f(n) == FlattenSeq(Prefix(s, n))
             N == Len(s)
  <1>1. f(0) = <<>> /\ f(N) = FlattenSeq(s)
    BY PrefixEnds, FlattenNone
  <1>2. \A n \in 1..N : f(n) = f(n - 1) \o s[n] /\ s[n] \in Seq(S)
    <2> SUFFICES ASSUME NEW n \in 1..N PROVE f(n) = f(n - 1) \o s[n] /\ s[n] \in Seq(S)
      OBVIOUS
    <2>1. f(n) = f(n - 1) \o s[n]
      BY FlattenPrefix
    <2>2. s[n] \in Seq(S)
      OBVIOUS
    <2> QED BY <2>1, <2>2
  <1>3. N \in Nat
    OBVIOUS
  <1> HIDE DEF f, N
  <1>4. N >= 1 => f(1) = s[1]
    <2> SUFFICES ASSUME N >= 1 PROVE f(1) = s[1]
      OBVIOUS
    <2>1. 1 \in 1..N /\ 1 - 1 = 0
      BY <1>3
    <2>2. f(1) = f(1 - 1) \o s[1] /\ s[1] \in Seq(S)
      BY <1>2, <2>1, Zenon
    <2>3. <<>> \o s[1] = s[1]
      BY <2>2, ConcatEmptySeq
    <2> QED BY <1>1, <2>1, <2>2, <2>3
  <1>5. N >= 2 => f(2) = f(1) \o s[2]
    <2> SUFFICES ASSUME N >= 2 PROVE f(2) = f(1) \o s[2]
      OBVIOUS
    <2>1. 2 \in 1..N /\ 2 - 1 = 1
      BY <1>3
    <2> QED BY <1>2, <2>1
  <1>6. N >= 3 => f(3) = f(2) \o s[3]
    <2> SUFFICES ASSUME N >= 3 PROVE f(3) = f(2) \o s[3]
      OBVIOUS
    <2>1. 3 \in 1..N /\ 3 - 1 = 2
      BY <1>3
    <2> QED BY <1>2, <2>1
  <1>7. N >= 4 => f(4) = f(3) \o s[4]
    <2> SUFFICES ASSUME N >= 4 PROVE f(4) = f(3) \o s[4]
      OBVIOUS
    <2>1. 4 \in 1..N /\ 4 - 1 = 3
      BY <1>3
    <2> QED BY <1>2, <2>1
  <1>8. (N = 1 => N >= 1) /\ (N = 2 => N >= 1 /\ N >= 2) /\ (N = 3 => N >= 1 /\ N >= 2 /\ N >= 3)
        /\ (N = 4 => N >= 1 /\ N >= 2 /\ N >= 3 /\ N >= 4)
    OBVIOUS
  <1> QED BY <1>1, <1>4, <1>5, <1>6, <1>7, <1>8, Zenon DEF N

\* What follows a prefix, when every element has a least length.
LEMMA FlattenRest ==
    ASSUME NEW S, NEW s \in Seq(Seq(S)), NEW least \in Nat, \A i \in 1..Len(s) : Len(s[i]) >= least
    PROVE  \A k \in 0..Len(s) : \E R \in Seq(S) :
             FlattenSeq(s) = FlattenSeq(Prefix(s, k)) \o R /\ Len(R) >= (Len(s) - k) * least
  <1> DEFINE n == Len(s)
             before(k) == FlattenSeq(Prefix(s, k))
             rest(k, j) == \E R \in Seq(S) : FlattenSeq(s) = before(k) \o R /\ Len(R) >= j * least
             good == {j \in 0..n : rest(n - j, j)}
  <1>1. n \in Nat /\ before(n) = FlattenSeq(s) /\ FlattenSeq(s) \in Seq(S)
    BY PrefixEnds, FlattenTyped
  <1>2. \A k \in 1..n : before(k - 1) \in Seq(S) /\ before(k) = before(k - 1) \o s[k] /\ s[k] \in Seq(S)
    <2> TAKE k \in 1..n
    <2>1. before(k - 1) \in Seq(S) /\ before(k) = before(k - 1) \o s[k]
      BY FlattenPrefix
    <2> HIDE DEF before
    <2> QED BY <2>1
  <1> HIDE DEF before, n
  <1>3. 0 \in good
    <2>1. <<>> \in Seq(S) /\ Len(<<>>) >= 0 * least /\ n - 0 = n
      BY <1>1
    <2>2. FlattenSeq(s) = FlattenSeq(s) \o <<>>
      BY <1>1
    <2>3. rest(n - 0, 0)
      BY <1>1, <2>1, <2>2, Zenon
    <2> QED BY <1>1, <2>3
  <1>4. ASSUME NEW j \in 1..n, j - 1 \in good PROVE j \in good
    <2> DEFINE k == n - j
    <2>1. k \in 0..n - 1 /\ n - (j - 1) = k + 1 /\ k + 1 \in 1..n /\ (k + 1) - 1 = k
      BY <1>1
    <2>2. PICK R \in Seq(S) : FlattenSeq(s) = before(k + 1) \o R /\ Len(R) >= (j - 1) * least
      <3>1. rest(n - (j - 1), j - 1)
        BY <1>4, Zenon
      <3> QED BY <2>1, <3>1, Zenon
    <2>3. before(k) \in Seq(S) /\ before(k + 1) = before(k) \o s[k + 1] /\ s[k + 1] \in Seq(S)
      BY <1>2, <2>1
    <2>4. Len(s[k + 1]) >= least
      BY <2>1 DEF n
    <2> HIDE DEF k
    <2>5. (before(k) \o s[k + 1]) \o R = before(k) \o (s[k + 1] \o R)
      <3>1. \A a, b, c \in Seq(S) : (a \o b) \o c = a \o (b \o c)
        OBVIOUS
      <3> QED BY <2>3, <3>1, Zenon
    <2>6. s[k + 1] \o R \in Seq(S) /\ Len(s[k + 1] \o R) = Len(s[k + 1]) + Len(R)
      BY <2>3
    <2>7. Len(s[k + 1]) + Len(R) >= j * least
      <3> DEFINE a == Len(s[k + 1])
                 b == Len(R)
                 c == (j - 1) * least
      <3>1. a \in Nat /\ b \in Nat /\ c \in Nat /\ a >= least /\ b >= c
        BY <2>2, <2>3, <2>4
      <3>2. j * least = c + least
        BY <1>1
      <3> HIDE DEF a, b, c
      <3>3. a + b >= c + least
        BY <3>1
      <3> QED BY <3>2, <3>3 DEF a, b
    <2>8. FlattenSeq(s) = before(k) \o (s[k + 1] \o R) /\ Len(s[k + 1] \o R) >= j * least
      BY <2>2, <2>3, <2>5, <2>6, <2>7
    <2>9. rest(k, j)
      BY <2>6, <2>8, Zenon
    <2> HIDE DEF rest
    <2>10. rest(n - j, j) /\ j \in 0..n
      BY <1>1, <2>9 DEF k
    <2> QED BY <2>10
  <1>5. \A j \in 0..n : j \in good
    <2> HIDE DEF good
    <2> QED BY <1>1, <1>3, <1>4, UpTo
  <1>6. ASSUME NEW k \in 0..n PROVE rest(k, n - k)
    <2>1. n - k \in 0..n /\ n - (n - k) = k
      BY <1>1
    <2>2. rest(n - (n - k), n - k)
      BY <1>5, <2>1, Zenon
    <2> QED BY <2>1, <2>2, Zenon
  <1> QED BY <1>6 DEF n, before

-----------------------------------------------------------------------------
(* Sequences of bytes                                                      *)

Byte == 0..255
FileOK == bytes \in Seq(Byte) /\ end \in 0..Len(bytes)

\* The bytes of the file after the first p, up to the q-th.
Span(p, q) == SubSeq(bytes, p + 1, q)

LEMMA SpanFacts ==
    ASSUME FileOK, NEW p \in Nat, NEW q \in Nat, p <= q, q <= Len(bytes)
    PROVE  /\ Span(p, q) \in Seq(Byte)
           /\ Len(Span(p, q)) = q - p
           /\ DOMAIN Span(p, q) = 1..q - p
           /\ \A i \in 1..q - p : Span(p, q)[i] = bytes[p + i]
  <1>1. \A i \in p + 1..q : bytes[i] \in Byte
    BY DEF FileOK
  <1>2. /\ Span(p, q) \in Seq(Byte)
        /\ Len(Span(p, q)) = IF p + 1 <= q THEN q - (p + 1) + 1 ELSE 0
        /\ \A i \in 1..q - (p + 1) + 1 : Span(p, q)[i] = bytes[p + 1 + i - 1]
    BY <1>1, SubSeqProperties DEF Span
  <1>3. Len(Span(p, q)) = q - p
    BY <1>2
  <1>4. DOMAIN Span(p, q) = 1..q - p
    BY <1>2, <1>3, LenProperties
  <1> QED BY <1>2, <1>3, <1>4

LEMMA SpanJoins ==
    ASSUME FileOK, NEW p \in Nat, NEW q \in Nat, NEW r \in Nat, p <= q, q <= r, r <= Len(bytes)
    PROVE  Span(p, r) = Span(p, q) \o Span(q, r)
  BY ConcatAdjacentSubSeq DEF FileOK, Span

LEMMA SpanEmpty ==
    ASSUME FileOK, NEW p \in Nat
    PROVE  Span(p, p) = <<>>
  BY SubSeqEmpty DEF Span

\* Two byte sequences of one length that agree everywhere are one.
LEMMA SameBytes ==
    ASSUME NEW S, NEW s \in Seq(S), NEW t \in Seq(S), Len(s) = Len(t),
           \A i \in 1..Len(s) : s[i] = t[i]
    PROVE  s = t
  BY SeqEqual

-----------------------------------------------------------------------------
(* Numbers                                                                 *)

Widths == {1, 2, 3}

LEMMA Split ==
    ASSUME NEW v \in Nat
    PROVE  /\ v % 256 \in Byte /\ v \div 256 \in Nat
           /\ v = (v % 256) + 256 * (v \div 256)
           /\ v < 256 => v = v % 256
  BY DEF Byte

\* The bytes of a number are its remainders.
IsNumber(b, v, w) ==
    /\ b \in Seq(Byte) /\ Len(b) = w
    /\ b[1] = v % 256
    /\ w >= 2 => b[2] = (v \div 256) % 256
    /\ w = 3 => b[3] = ((v \div 256) \div 256) % 256
LEMMA NumberFacts == \A v \in Nat, w \in Widths : IsNumber(Number(v, w), v, w)
  <1> SUFFICES ASSUME NEW v \in Nat, NEW w \in Widths PROVE IsNumber(Number(v, w), v, w)
    OBVIOUS
  <1> DEFINE digits == <<v, v \div 256, (v \div 256) \div 256>>
  <1>1. Number(v, w) = [i \in 1..w |-> digits[i] % 256]
    BY DEF Number
  <1>2. digits[1] = v /\ digits[2] = v \div 256 /\ digits[3] = (v \div 256) \div 256
    OBVIOUS
  <1>3. digits[1] \in Nat /\ digits[2] \in Nat /\ digits[3] \in Nat
    BY <1>2, Split
  <1> HIDE DEF digits
  <1>4. \A i \in 1..w : i \in {1, 2, 3}
    BY DEF Widths
  <1>5. \A i \in 1..w : digits[i] % 256 \in Byte
    BY <1>3, <1>4, Split
  <1>6. w \in Nat /\ 1 \in 1..w /\ (w >= 2 => 2 \in 1..w) /\ (w = 3 => 3 \in 1..w)
    BY DEF Widths
  <1>7. Number(v, w) \in Seq(Byte) /\ Len(Number(v, w)) = w
    BY <1>1, <1>5, <1>6
  <1>8. \A i \in 1..w : Number(v, w)[i] = digits[i] % 256
    BY <1>1
  <1> QED BY <1>2, <1>6, <1>7, <1>8 DEF IsNumber

\* The number read from w bytes.
LEMMA UIntParts ==
    ASSUME FileOK, NEW p \in Nat, NEW w \in Widths, p + w <= Len(bytes)
    PROVE  \E a \in Byte, b \in Byte, c \in Byte :
             /\ UInt(p, w) = a + 256 * (b + 256 * c)
             /\ a = bytes[p + 1]
             /\ IF w >= 2 THEN b = bytes[p + 2] ELSE b = 0
             /\ IF w = 3 THEN c = bytes[p + 3] ELSE c = 0
  <1> DEFINE a == bytes[p + 1]
             b == IF 2 <= w THEN bytes[p + 2] ELSE 0
             c == IF 3 <= w THEN bytes[p + 3] ELSE 0
  <1>1. \A i \in 1..w : bytes[p + i] \in Byte
    BY DEF FileOK, Widths
  <1>2. a \in Byte /\ b \in Byte /\ c \in Byte
    BY <1>1 DEF Widths, Byte
  <1>3. 1 <= w
    BY DEF Widths
  <1>4. UInt(p, w) = a + 256 * (b + 256 * c)
    BY <1>3, Zenon DEF UInt
  <1>5. /\ IF w >= 2 THEN b = bytes[p + 2] ELSE b = 0
        /\ IF w = 3 THEN c = bytes[p + 3] ELSE c = 0
    BY DEF Widths
  <1> HIDE DEF a, b, c
  <1>6. a = bytes[p + 1]
    BY DEF a
  <1> QED BY <1>2, <1>4, <1>5, <1>6

\* Reading is the inverse of writing, on the bytes ...
LEMMA NumberRead ==
    ASSUME FileOK, NEW p \in Nat, NEW w \in Widths, p + w <= Len(bytes)
    PROVE  /\ FitsIn(UInt(p, w), w)
           /\ Span(p, p + w) = Number(UInt(p, w), w)
  <1> DEFINE v == UInt(p, w)
  <1>1. PICK a \in Byte, b \in Byte, c \in Byte :
             /\ v = a + 256 * (b + 256 * c)
             /\ a = bytes[p + 1]
             /\ IF w >= 2 THEN b = bytes[p + 2] ELSE b = 0
             /\ IF w = 3 THEN c = bytes[p + 3] ELSE c = 0
    BY UIntParts
  <1> HIDE DEF v
  <1>a. a \in 0..255 /\ b \in 0..255 /\ c \in 0..255
    BY DEF Byte
  <1> DEFINE q == b + 256 * c
  <1>b. v = a + 256 * q /\ q = b + 256 * c
    BY <1>1
  <1>2. q \in Nat /\ q % 256 = b /\ q \div 256 = c
    BY <1>a
  <1> HIDE DEF q
  <1>3. v \in Nat /\ v % 256 = a /\ v \div 256 = q
    BY <1>a, <1>b, <1>2
  <1>4. (v \div 256) % 256 = b /\ (v \div 256) \div 256 = c
    BY <1>2, <1>3
  <1>5. FitsIn(v, w)
    <2>1. w = 1 => q = 0
      BY <1>1, <1>a, <1>b
    <2>2. w = 1 => v = a
      BY <1>a, <1>b, <2>1
    <2>3. w = 2 => v \div 256 = b
      BY <1>1, <1>3, <1>a, <1>b
    <2> QED BY <1>3, <1>4, <1>a, <2>2, <2>3 DEF FitsIn
  <1>6. p + w \in Nat /\ (p + w) - p = w
    BY DEF Widths
  <1>7. /\ Span(p, p + w) \in Seq(Byte) /\ Len(Span(p, p + w)) = w
        /\ \A i \in 1..w : Span(p, p + w)[i] = bytes[p + i]
    <2> DEFINE r == p + w
    <2>1. r \in Nat /\ p <= r /\ r <= Len(bytes) /\ r - p = w
      BY <1>6 DEF Widths
    <2> HIDE DEF r
    <2>2. /\ Span(p, r) \in Seq(Byte) /\ Len(Span(p, r)) = r - p
          /\ \A i \in 1..r - p : Span(p, r)[i] = bytes[p + i]
      BY <2>1, SpanFacts
    <2> QED BY <2>1, <2>2 DEF r
  <1>8. /\ Number(v, w) \in Seq(Byte) /\ Len(Number(v, w)) = w
        /\ Number(v, w)[1] = a
        /\ w >= 2 => Number(v, w)[2] = b
        /\ w = 3 => Number(v, w)[3] = c
    <2>1. /\ Number(v, w) \in Seq(Byte) /\ Len(Number(v, w)) = w
          /\ Number(v, w)[1] = v % 256
          /\ w >= 2 => Number(v, w)[2] = (v \div 256) % 256
          /\ w = 3 => Number(v, w)[3] = ((v \div 256) \div 256) % 256
      <3>1. IsNumber(Number(v, w), v, w)
        BY <1>3, NumberFacts, Zenon
      <3> QED BY <3>1 DEF IsNumber
    <2>2. ((v \div 256) \div 256) % 256 = c
      BY <1>4, <1>a
    <2> QED BY <1>3, <1>4, <2>1, <2>2
  <1>9. \A i \in 1..w : Span(p, p + w)[i] = Number(v, w)[i]
    <2> SUFFICES ASSUME NEW i \in 1..w PROVE bytes[p + i] = Number(v, w)[i]
      BY <1>7
    <2>1. i = 1 \/ (i = 2 /\ w >= 2) \/ (i = 3 /\ w = 3)
      BY DEF Widths
    <2> QED BY <1>1, <1>8, <2>1
  <1>10. Span(p, p + w) = Number(v, w)
    BY <1>7, <1>8, <1>9, SameBytes
  <1> QED BY <1>5, <1>10 DEF v

\* ... and on the numbers.
LEMMA NumberReads ==
    ASSUME FileOK, NEW p \in Nat, NEW w \in Widths, p + w <= Len(bytes),
           NEW v, FitsIn(v, w), Span(p, p + w) = Number(v, w)
    PROVE  UInt(p, w) = v
  <1>1. p + w \in Nat /\ (p + w) - p = w /\ v \in Nat
    BY DEF Widths, FitsIn
  <1>2. \A i \in 1..w : Number(v, w)[i] = bytes[p + i]
    <2> DEFINE r == p + w
    <2>1. r \in Nat /\ p <= r /\ r <= Len(bytes) /\ r - p = w
      BY <1>1 DEF Widths
    <2> HIDE DEF r
    <2>2. \A i \in 1..r - p : Span(p, r)[i] = bytes[p + i]
      BY <2>1, SpanFacts
    <2> QED BY <2>1, <2>2 DEF r
  <1>3. 1 \in 1..w /\ (w >= 2 => 2 \in 1..w) /\ (w = 3 => 3 \in 1..w)
    BY DEF Widths
  <1>4. PICK a \in Byte, b \in Byte, c \in Byte :
             /\ UInt(p, w) = a + 256 * (b + 256 * c)
             /\ a = bytes[p + 1]
             /\ IF w >= 2 THEN b = bytes[p + 2] ELSE b = 0
             /\ IF w = 3 THEN c = bytes[p + 3] ELSE c = 0
    BY UIntParts
  <1>5. /\ a = v % 256
        /\ w >= 2 => b = (v \div 256) % 256
        /\ w = 3 => c = ((v \div 256) \div 256) % 256
    <2>1. /\ Number(v, w)[1] = v % 256
          /\ w >= 2 => Number(v, w)[2] = (v \div 256) % 256
          /\ w = 3 => Number(v, w)[3] = ((v \div 256) \div 256) % 256
      BY <1>1, NumberFacts DEF IsNumber
    <2>2. w >= 2 => b = bytes[p + 2]
      BY <1>4
    <2>3. w = 3 => c = bytes[p + 3]
      BY <1>4
    <2>4. a = v % 256
      BY <1>2, <1>3, <1>4, <2>1, Zenon
    <2>5. w >= 2 => b = (v \div 256) % 256
      BY <1>2, <1>3, <2>1, <2>2, Zenon
    <2>6. w = 3 => c = ((v \div 256) \div 256) % 256
      BY <1>2, <1>3, <2>1, <2>3, Zenon
    <2> QED BY <2>4, <2>5, <2>6
  <1> DEFINE h == v \div 256
             g == h \div 256
  <1>6. h \in Nat /\ v = (v % 256) + 256 * h /\ (v < 256 => v = v % 256)
    BY <1>1, Split
  <1>7. g \in Nat /\ h = (h % 256) + 256 * g /\ (h < 256 => h = h % 256)
    BY <1>6, Split
  <1>8. g < 256 => g = g % 256
    BY <1>7, Split
  <1>9. (w = 1 => v < 256) /\ (w = 2 => h < 256) /\ (w = 3 => g < 256)
    BY DEF FitsIn
  <1>10. a = v % 256 /\ (w >= 2 => b = h % 256) /\ (w = 3 => c = g % 256)
    BY <1>5
  <1> HIDE DEF h, g
  <1>11. CASE w = 1
    BY <1>1, <1>4, <1>6, <1>9, <1>10, <1>11
  <1>12. CASE w = 2
    BY <1>1, <1>4, <1>6, <1>7, <1>9, <1>10, <1>12
  <1>13. CASE w = 3
    BY <1>1, <1>4, <1>6, <1>7, <1>8, <1>9, <1>10, <1>13
  <1> QED BY <1>11, <1>12, <1>13 DEF Widths

-----------------------------------------------------------------------------
(* Bytes at a place of the file                                            *)

\* b is what the file has at p, up to where the cursor must stop.
Has(p, b) ==
    /\ p \in Nat /\ b \in Seq(Byte)
    /\ p + Len(b) <= end
    /\ Span(p, p + Len(b)) = b

\* s is the result of reading v from its bytes b at p.
Result(s, p, v, b) == Has(p, b) /\ s = [val |-> v, pos |-> p + Len(b)]

LEMMA HasFacts ==
    ASSUME FileOK, NEW p, NEW b, Has(p, b)
    PROVE  /\ p \in Nat /\ Len(b) \in Nat /\ p + Len(b) \in Nat
           /\ p <= p + Len(b) /\ p + Len(b) <= end /\ p + Len(b) <= Len(bytes)
           /\ end \in Nat /\ Len(bytes) \in Nat
  BY DEF Has, FileOK

\* What is split or joined is there all the same.
LEMMA HasJoins ==
    ASSUME FileOK, NEW p \in Nat, NEW b \in Seq(Byte), NEW c \in Seq(Byte)
    PROVE  /\ Has(p, b \o c) <=> Has(p, b) /\ Has(p + Len(b), c)
           /\ Len(b \o c) = Len(b) + Len(c)
           /\ p + Len(b \o c) = (p + Len(b)) + Len(c)
  <1> DEFINE q == p + Len(b)
             r == q + Len(c)
  <1>1. /\ b \o c \in Seq(Byte) /\ Len(b \o c) = Len(b) + Len(c)
        /\ \A i \in 1..Len(b) : (b \o c)[i] = b[i]
        /\ \A i \in Len(b) + 1..Len(b) + Len(c) : (b \o c)[i] = c[i - Len(b)]
    BY ConcatProperties
  <1>2. Len(b) \in Nat /\ Len(c) \in Nat /\ q \in Nat /\ r \in Nat
    OBVIOUS
  <1>3. p + Len(b \o c) = r /\ p <= q /\ q <= r
    BY <1>1, <1>2
  <1> HIDE DEF q, r
  <1>4. ASSUME r <= end
        PROVE  /\ Span(p, r) = Span(p, q) \o Span(q, r)
               /\ Span(p, q) \in Seq(Byte) /\ Len(Span(p, q)) = Len(b)
               /\ Span(q, r) \in Seq(Byte) /\ Len(Span(q, r)) = Len(c)
    <2>1. r <= Len(bytes) /\ q <= Len(bytes) /\ q - p = Len(b) /\ r - q = Len(c)
      BY <1>2, <1>3, <1>4 DEF FileOK, q, r
    <2>2. Span(p, r) = Span(p, q) \o Span(q, r)
      BY <1>2, <1>3, <2>1, SpanJoins
    <2>3. Span(p, q) \in Seq(Byte) /\ Len(Span(p, q)) = Len(b)
      BY <1>2, <1>3, <2>1, SpanFacts
    <2>4. Span(q, r) \in Seq(Byte) /\ Len(Span(q, r)) = Len(c)
      BY <1>2, <1>3, <2>1, SpanFacts
    <2> QED BY <2>2, <2>3, <2>4
  <1>5. ASSUME Has(p, b), Has(q, c) PROVE Has(p, b \o c)
    <2>1. r <= end /\ Span(p, q) = b /\ Span(q, r) = c
      BY <1>5 DEF Has, q, r
    <2> QED BY <1>1, <1>3, <1>4, <2>1 DEF Has
  <1>6. ASSUME Has(p, b \o c) PROVE Has(p, b) /\ Has(q, c)
    <2>1. r <= end /\ Span(p, r) = b \o c
      BY <1>3, <1>6 DEF Has
    <2>2. q <= end
      BY <1>2, <1>3, <2>1 DEF FileOK
    <2> DEFINE x == Span(p, q)
               y == Span(q, r)
    <2>3. /\ b \o c = x \o y /\ x \in Seq(Byte) /\ Len(x) = Len(b)
          /\ y \in Seq(Byte) /\ Len(y) = Len(c)
      BY <1>4, <2>1
    <2> HIDE DEF x, y
    <2>4. /\ \A i \in 1..Len(x) : (x \o y)[i] = x[i]
          /\ \A i \in Len(x) + 1..Len(x) + Len(y) : (x \o y)[i] = y[i - Len(x)]
      BY <2>3, ConcatProperties
    <2>5. \A i \in 1..Len(x) : x[i] = b[i]
      BY <1>1, <2>3, <2>4
    <2>6. \A i \in 1..Len(y) : y[i] = c[i]
      <3> SUFFICES ASSUME NEW i \in 1..Len(y) PROVE y[i] = c[i]
        OBVIOUS
      <3> DEFINE j == i + Len(b)
      <3>1. j \in Len(b) + 1..Len(b) + Len(c) /\ j - Len(b) = i
        BY <1>2, <2>3
      <3> HIDE DEF j
      <3> QED BY <1>1, <2>3, <2>4, <3>1
    <2>7. x = b /\ y = c
      BY <2>3, <2>5, <2>6, SameBytes
    <2> QED BY <1>2, <2>1, <2>2, <2>7 DEF Has, q, r, x, y
  <1>7. p + Len(b \o c) = (p + Len(b)) + Len(c)
    BY <1>1, <1>2 DEF q
  <1> QED BY <1>1, <1>5, <1>6, <1>7 DEF q

-----------------------------------------------------------------------------
(* Reading a number                                                        *)

\* What a read finds is there ...
LEMMA FixedSound ==
    ASSUME FileOK, NEW p \in Nat, NEW w \in Widths, NEW s \in Fixed(p, w)
    PROVE  FitsIn(s.val, w) /\ Result(s, p, s.val, Number(s.val, w))
  <1>0. end \in Int /\ p + w \in Int
    BY DEF FileOK, Widths
  <1>1. p + w <= end /\ s = [val |-> UInt(p, w), pos |-> p + w]
    <2>1. ~(p + w > end)
      BY DEF Fixed
    <2>2. s \in Good(UInt(p, w), p + w)
      BY <2>1 DEF Fixed
    <2> QED BY <1>0, <2>1, <2>2 DEF Good
  <1>2. p + w <= Len(bytes)
    BY <1>1 DEF FileOK, Widths
  <1> DEFINE v == UInt(p, w)
             b == Number(v, w)
  <1>3. FitsIn(v, w) /\ Span(p, p + w) = b
    BY <1>2, NumberRead
  <1>4. v \in Nat
    BY <1>3 DEF FitsIn
  <1>5. IsNumber(b, v, w)
    BY <1>4, NumberFacts
  <1>6. b \in Seq(Byte) /\ Len(b) = w
    BY <1>5 DEF IsNumber
  <1>7. s.val = v
    BY <1>1
  <1> HIDE DEF v, b
  <1>8. Has(p, b)
    BY <1>1, <1>3, <1>6 DEF Has
  <1>9. s = [val |-> v, pos |-> p + Len(b)]
    BY <1>1, <1>6 DEF v
  <1> QED BY <1>3, <1>7, <1>8, <1>9 DEF Result, b

\* ... and what is there, it finds.
LEMMA FixedComplete ==
    ASSUME FileOK, NEW p \in Nat, NEW w \in Widths, NEW v, FitsIn(v, w), Has(p, Number(v, w))
    PROVE  Fixed(p, w) = Good(v, p + w) /\ Len(Number(v, w)) = w
  <1> DEFINE b == Number(v, w)
  <1>1. v \in Nat
    BY DEF FitsIn
  <1>2. IsNumber(b, v, w)
    BY <1>1, NumberFacts
  <1>3. Len(b) = w
    BY <1>2 DEF IsNumber
  <1> HIDE DEF b
  <1>4. p + w <= end /\ Span(p, p + w) = b
    BY <1>3 DEF Has, b
  <1>5. p + w <= Len(bytes)
    BY <1>4 DEF FileOK, Widths
  <1>6. UInt(p, w) = v
    BY <1>4, <1>5, NumberReads DEF b
  <1>7. ~(p + w > end)
    BY <1>4 DEF FileOK, Widths
  <1> QED BY <1>3, <1>6, <1>7 DEF Fixed, b

-----------------------------------------------------------------------------
(* Reading a tag, a truth value, an optional number                        *)

TagTable(tags) ==
    /\ Len(tags) \in 1..255
    /\ \A i, j \in 1..Len(tags) : tags[i] = tags[j] => i = j
InTable(tags, tag) == \E i \in 1..Len(tags) : tag = tags[i]

LEMMA FitsByte == \A v \in Byte : FitsIn(v, 1)
  <1> SUFFICES ASSUME NEW v \in Byte PROVE FitsIn(v, 1)
    OBVIOUS
  <1>1. v \in Nat /\ v < 256
    BY DEF Byte
  <1>2. 1 # 2 /\ 1 # 3
    OBVIOUS
  <1> QED BY <1>1, <1>2, Zenon DEF FitsIn

LEMMA CodeFacts ==
    ASSUME NEW tags, TagTable(tags), NEW i \in 1..Len(tags)
    PROVE  CodeOf(tags, tags[i]) = i - 1 /\ FitsIn(i - 1, 1)
  <1>1. Len(tags) \in 1..255 /\ Len(tags) \in Nat
    BY DEF TagTable
  <1>2. i - 1 \in 0..Len(tags) - 1 /\ tags[(i - 1) + 1] = tags[i]
    BY <1>1
  <1>3. \A j \in 0..Len(tags) - 1 : tags[j + 1] = tags[i] => j = i - 1
    <2> SUFFICES ASSUME NEW j \in 0..Len(tags) - 1, tags[j + 1] = tags[i] PROVE j = i - 1
      OBVIOUS
    <2>1. j + 1 \in 1..Len(tags)
      BY <1>1
    <2>2. j + 1 = i
      BY <2>1 DEF TagTable
    <2> QED BY <1>1, <2>2
  <1>4. CodeOf(tags, tags[i]) = i - 1
    BY <1>2, <1>3 DEF CodeOf
  <1>5. i - 1 \in Byte
    <2> DEFINE n == Len(tags)
    <2>1. n \in 1..255 /\ i \in 1..n
      BY <1>1
    <2> HIDE DEF n
    <2> QED BY <2>1 DEF Byte
  <1> QED BY <1>4, <1>5, FitsByte

LEMMA TagSound ==
    ASSUME FileOK, NEW p \in Nat, NEW tags, TagTable(tags), NEW s \in Tag(p, tags)
    PROVE  InTable(tags, s.val) /\ Result(s, p, s.val, U8(CodeOf(tags, s.val)))
  <1>1. PICK r \in Fixed(p, 1) : r.val < Len(tags) /\ s = [r EXCEPT !.val = tags[@ + 1]]
    BY Zenon DEF Tag, Ensure
  <1>2. FitsIn(r.val, 1) /\ Result(r, p, r.val, Number(r.val, 1))
    BY FixedSound DEF Widths
  <1>3. r = [val |-> r.val, pos |-> p + Len(Number(r.val, 1))] /\ Has(p, Number(r.val, 1))
    BY <1>2 DEF Result
  <1> DEFINE i == r.val + 1
             q == p + Len(Number(r.val, 1))
  <1>4. s = [val |-> tags[i], pos |-> q]
    <2>1. r = [val |-> r.val, pos |-> q]
      BY <1>3
    <2> QED BY <1>1, <2>1
  <1>5. i \in 1..Len(tags) /\ i - 1 = r.val
    BY <1>1, <1>2 DEF FitsIn, TagTable
  <1>6. s.val = tags[i]
    BY <1>4
  <1>7. CodeOf(tags, s.val) = r.val
    BY <1>5, <1>6, CodeFacts
  <1>8. InTable(tags, s.val)
    BY <1>5, <1>6 DEF InTable
  <1>9. U8(CodeOf(tags, s.val)) = Number(r.val, 1)
    BY <1>7 DEF U8
  <1>10. s = [val |-> s.val, pos |-> q]
    BY <1>4, <1>6
  <1> DEFINE b == U8(CodeOf(tags, s.val))
  <1>11. Has(p, b) /\ q = p + Len(b)
    BY <1>3, <1>9
  <1> HIDE DEF b, q
  <1>12. s = [val |-> s.val, pos |-> p + Len(b)]
    BY <1>10, <1>11
  <1> QED BY <1>8, <1>11, <1>12 DEF Result, b

LEMMA TagComplete ==
    ASSUME FileOK, NEW p \in Nat, NEW tags, TagTable(tags), NEW v, InTable(tags, v),
           Has(p, U8(CodeOf(tags, v)))
    PROVE  Tag(p, tags) = Good(v, p + 1) /\ Len(U8(CodeOf(tags, v))) = 1
  <1>1. PICK i \in 1..Len(tags) : v = tags[i]
    BY DEF InTable
  <1>2. CodeOf(tags, v) = i - 1 /\ FitsIn(i - 1, 1)
    BY <1>1, CodeFacts
  <1>3. Fixed(p, 1) = Good(i - 1, p + 1) /\ Len(Number(i - 1, 1)) = 1
    BY <1>2, FixedComplete DEF U8, Widths
  <1>4. i - 1 < Len(tags) /\ (i - 1) + 1 = i
    BY DEF TagTable
  <1> DEFINE r == [val |-> i - 1, pos |-> p + 1]
  <1>5. Fixed(p, 1) = {r}
    BY <1>3 DEF Good
  <1>6. Tag(p, tags) = {[r EXCEPT !.val = tags[@ + 1]]}
    <2>1. r.val < Len(tags)
      BY <1>4
    <2> HIDE DEF r
    <2> QED BY <1>5, <2>1 DEF Tag, Ensure
  <1>7. [r EXCEPT !.val = tags[@ + 1]] = [val |-> v, pos |-> p + 1]
    BY <1>1, <1>4
  <1> QED BY <1>2, <1>3, <1>6, <1>7 DEF Good, U8

LEMMA BoolTable == TagTable(<<FALSE, TRUE>>) /\ \A v \in BOOLEAN : InTable(<<FALSE, TRUE>>, v)
  <1> DEFINE t == <<FALSE, TRUE>>
  <1>1. t[1] = FALSE /\ t[2] = TRUE /\ Len(t) = 2
    OBVIOUS
  <1>2. Len(t) \in 1..255 /\ 1..Len(t) = {1, 2}
    BY <1>1
  <1> HIDE DEF t
  <1>3. t[1] # t[2]
    BY <1>1, Zenon
  <1>4. TagTable(t)
    BY <1>2, <1>3 DEF TagTable
  <1>5. \A v \in BOOLEAN : v = t[1] \/ v = t[2]
    BY <1>1, Zenon
  <1>6. \A v \in BOOLEAN : InTable(t, v)
    BY <1>2, <1>5, Zenon DEF InTable
  <1> QED BY <1>4, <1>6 DEF t
LEMMA BoolCode == \A v \in BOOLEAN : CodeOf(<<FALSE, TRUE>>, v) = IF v THEN 1 ELSE 0
  <1> DEFINE t == <<FALSE, TRUE>>
  <1>1. t[1] = FALSE /\ t[2] = TRUE /\ Len(t) = 2
    OBVIOUS
  <1>2. TagTable(t)
    BY BoolTable
  <1> HIDE DEF t
  <1>3. CodeOf(t, t[1]) = 1 - 1 /\ CodeOf(t, t[2]) = 2 - 1
    BY <1>1, <1>2, CodeFacts
  <1>x. 1 - 1 = 0 /\ 2 - 1 = 1
    OBVIOUS
  <1>4. CodeOf(t, FALSE) = 0 /\ CodeOf(t, TRUE) = 1
    BY <1>1, <1>3, <1>x, Zenon
  <1> SUFFICES ASSUME NEW v \in BOOLEAN PROVE CodeOf(t, v) = IF v THEN 1 ELSE 0
    BY DEF t
  <1>5. CASE v = TRUE
    BY <1>4, <1>5
  <1>6. CASE v = FALSE
    BY <1>4, <1>6
  <1> QED BY <1>5, <1>6

-----------------------------------------------------------------------------
(* The tables of tags                                                      *)

LEMMA SmallTables ==
    /\ TagTable(TypeTags) /\ TagTable(ConstTags) /\ TagTable(ValueTags) /\ TagTable(TermTags)
    /\ TagTable(LinkageTags) /\ TagTable(AbiTags) /\ TagTable(FloatKinds)
  <1>1. TagTable(TypeTags)
    BY DEF TagTable, TypeTags
  <1>2. TagTable(ConstTags)
    BY DEF TagTable, ConstTags
  <1>3. TagTable(ValueTags)
    BY DEF TagTable, ValueTags
  <1>4. TagTable(TermTags)
    BY DEF TagTable, TermTags
  <1>5. TagTable(LinkageTags)
    BY DEF TagTable, LinkageTags
  <1>6. TagTable(AbiTags)
    BY DEF TagTable, AbiTags
  <1>7. TagTable(FloatKinds)
    BY DEF TagTable, FloatKinds
  <1> QED BY <1>1, <1>2, <1>3, <1>4, <1>5, <1>6, <1>7

LEMMA OpcodeTable == TagTable(Opcodes)
  BY SMTT(60) DEF TagTable, Opcodes

-----------------------------------------------------------------------------
(* What each read gives: a result is in the set of a read exactly when it  *)
(* is legal and its bytes are in the file, where the cursor stands         *)

LEMMA NumberTyped ==
    ASSUME NEW w \in Widths, NEW v, FitsIn(v, w)
    PROVE  Number(v, w) \in Seq(Byte) /\ Len(Number(v, w)) = w
  <1>1. v \in Nat
    BY DEF FitsIn
  <1>2. IsNumber(Number(v, w), v, w)
    BY <1>1, NumberFacts
  <1> QED BY <1>2 DEF IsNumber

LEMMA FixedReads ==
    ASSUME FileOK, NEW p \in Nat, NEW w \in Widths
    PROVE  \A s : s \in Fixed(p, w) <=> FitsIn(s.val, w) /\ Result(s, p, s.val, Number(s.val, w))
  <1>1. ASSUME NEW s \in Fixed(p, w)
        PROVE  FitsIn(s.val, w) /\ Result(s, p, s.val, Number(s.val, w))
    BY FixedSound
  <1>2. ASSUME NEW s, FitsIn(s.val, w), Result(s, p, s.val, Number(s.val, w))
        PROVE  s \in Fixed(p, w)
    <2> DEFINE v == s.val
    <2>1. FitsIn(v, w) /\ Has(p, Number(v, w)) /\ s = [val |-> v, pos |-> p + Len(Number(v, w))]
      BY <1>2 DEF Result
    <2> HIDE DEF v
    <2>2. Fixed(p, w) = Good(v, p + w) /\ Len(Number(v, w)) = w
      BY <2>1, FixedComplete
    <2> QED BY <2>1, <2>2 DEF Good
  <1> QED BY <1>1, <1>2

\* The number of bytes of U8, U32 and the others.
LEMMA Sizes == W16 \in Widths /\ W32 \in Widths /\ W64 \in Widths /\ W128 \in Widths /\ 1 \in Widths
               /\ W16 = 1 /\ W32 = 2 /\ W64 = 3 /\ W128 = 3
  BY DEF W16, W32, W64, W128, Widths

LEMMA TagReads ==
    ASSUME FileOK, NEW p \in Nat, NEW tags, TagTable(tags)
    PROVE  \A s : s \in Tag(p, tags)
                  <=> InTable(tags, s.val) /\ Result(s, p, s.val, U8(CodeOf(tags, s.val)))
  <1>1. ASSUME NEW s \in Tag(p, tags)
        PROVE  InTable(tags, s.val) /\ Result(s, p, s.val, U8(CodeOf(tags, s.val)))
    BY TagSound
  <1>2. ASSUME NEW s, InTable(tags, s.val), Result(s, p, s.val, U8(CodeOf(tags, s.val)))
        PROVE  s \in Tag(p, tags)
    <2> DEFINE v == s.val
    <2>1. /\ InTable(tags, v) /\ Has(p, U8(CodeOf(tags, v)))
          /\ s = [val |-> v, pos |-> p + Len(U8(CodeOf(tags, v)))]
      BY <1>2 DEF Result
    <2> HIDE DEF v
    <2>2. Tag(p, tags) = Good(v, p + 1) /\ Len(U8(CodeOf(tags, v))) = 1
      BY <2>1, TagComplete
    <2> QED BY <2>1, <2>2 DEF Good
  <1> QED BY <1>1, <1>2

LEMMA TagTyped ==
    ASSUME NEW tags, TagTable(tags), NEW v, InTable(tags, v)
    PROVE  U8(CodeOf(tags, v)) \in Seq(Byte) /\ Len(U8(CodeOf(tags, v))) = 1
  <1>1. PICK i \in 1..Len(tags) : v = tags[i]
    BY DEF InTable
  <1>2. CodeOf(tags, v) = i - 1 /\ FitsIn(i - 1, 1)
    BY <1>1, CodeFacts
  <1> QED BY <1>2, Sizes, NumberTyped DEF U8

BoolBytes(v) == U8(IF v THEN 1 ELSE 0)

IsBool(v) == v \in BOOLEAN
LEMMA BoolReads ==
    ASSUME FileOK, NEW p \in Nat
    PROVE  \A s : s \in Bool(p) <=> IsBool(s.val) /\ Result(s, p, s.val, BoolBytes(s.val))
  <1> DEFINE t == <<FALSE, TRUE>>
  <1>1. TagTable(t) /\ \A v : IsBool(v) => InTable(t, v) /\ U8(CodeOf(t, v)) = BoolBytes(v)
    <2>1. TagTable(t) /\ \A v \in BOOLEAN : InTable(t, v) /\ CodeOf(t, v) = IF v THEN 1 ELSE 0
      BY BoolTable, BoolCode, Zenon
    <2> HIDE DEF t
    <2> QED BY <2>1, Zenon DEF BoolBytes, IsBool
  <1>2. \A v : InTable(t, v) => IsBool(v)
    <2>1. t[1] = FALSE /\ t[2] = TRUE /\ 1..Len(t) = {1, 2}
      OBVIOUS
    <2> HIDE DEF t
    <2> QED BY <2>1, Zenon DEF InTable, IsBool
  <1>3. Bool(p) = Tag(p, t)
    BY Zenon DEF Bool
  <1> HIDE DEF t
  <1>4. \A s : s \in Tag(p, t) <=> InTable(t, s.val) /\ Result(s, p, s.val, U8(CodeOf(t, s.val)))
    BY <1>1, TagReads
  <1> QED BY <1>1, <1>2, <1>3, <1>4, Zenon

LEMMA BitFits == FitsIn(0, 1) /\ FitsIn(1, 1)
  BY FitsByte DEF Byte

LEMMA BoolTyped ==
    \A v \in BOOLEAN : BoolBytes(v) \in Seq(Byte) /\ Len(BoolBytes(v)) = 1
  <1> SUFFICES ASSUME NEW v \in BOOLEAN PROVE BoolBytes(v) \in Seq(Byte) /\ Len(BoolBytes(v)) = 1
    OBVIOUS
  <1> DEFINE c == IF v THEN 1 ELSE 0
  <1>1. FitsIn(c, 1)
    BY BitFits, Zenon
  <1> HIDE DEF c
  <1>2. Number(c, 1) \in Seq(Byte) /\ Len(Number(c, 1)) = 1
    BY <1>1, Sizes, NumberTyped
  <1> QED BY <1>2 DEF BoolBytes, U8, c

\* b is what the file has from p to q.
Ends(p, b, q) == Has(p, b) /\ q = p + Len(b)

LEMMA EndsFacts ==
    ASSUME FileOK, NEW p, NEW b, NEW q, Ends(p, b, q)
    PROVE  /\ p \in Nat /\ q \in Nat /\ p <= q /\ q <= end /\ q <= Len(bytes)
           /\ b \in Seq(Byte) /\ Len(b) \in Nat /\ q = p + Len(b)
           /\ Span(p, q) = b
  <1>1. Has(p, b) /\ q = p + Len(b)
    BY DEF Ends
  <1> QED BY <1>1, HasFacts DEF Has

LEMMA EndsJoins ==
    ASSUME FileOK, NEW p, NEW b \in Seq(Byte), NEW c \in Seq(Byte)
    PROVE  \A q : Ends(p, b \o c, q) <=> \E m : Ends(p, b, m) /\ Ends(m, c, q)
  <1>1. CASE p \in Nat
    <2>1. /\ Has(p, b \o c) <=> Has(p, b) /\ Has(p + Len(b), c)
          /\ p + Len(b \o c) = (p + Len(b)) + Len(c)
      BY <1>1, HasJoins
    <2> QED BY <2>1, Zenon DEF Ends
  <1>2. CASE p \notin Nat
    BY <1>2, Zenon DEF Ends, Has
  <1> QED BY <1>1, <1>2

LEMMA EndsEmpty ==
    ASSUME FileOK, NEW p \in Nat, p <= end
    PROVE  \A q : Ends(p, <<>>, q) <=> q = p
  <1>1. <<>> \in Seq(Byte) /\ Len(<<>>) = 0 /\ p + 0 = p
    OBVIOUS
  <1>2. Span(p, p) = <<>>
    BY SpanEmpty
  <1>3. Has(p, <<>>)
    BY <1>1, <1>2 DEF Has
  <1> QED BY <1>1, <1>3, Zenon DEF Ends

LEMMA ResultIs ==
    \A s, p, v, b : Result(s, p, v, b) <=> Ends(p, b, s.pos) /\ s = [val |-> v, pos |-> s.pos]
  <1> SUFFICES ASSUME NEW s, NEW p, NEW v, NEW b
               PROVE  Result(s, p, v, b) <=> Ends(p, b, s.pos) /\ s = [val |-> v, pos |-> s.pos]
    OBVIOUS
  <1>1. ASSUME Result(s, p, v, b) PROVE Ends(p, b, s.pos) /\ s = [val |-> v, pos |-> s.pos]
    <2> DEFINE q == p + Len(b)
    <2>1. Has(p, b) /\ s = [val |-> v, pos |-> q]
      BY <1>1 DEF Result
    <2> HIDE DEF q
    <2>2. s.pos = q
      BY <2>1
    <2> QED BY <2>1, <2>2 DEF Ends, q
  <1>2. ASSUME Ends(p, b, s.pos), s = [val |-> v, pos |-> s.pos] PROVE Result(s, p, v, b)
    BY <1>2, Zenon DEF Ends, Result
  <1> QED BY <1>1, <1>2

\* A result that is read here: its value and where it ends.
Res(v, q) == [val |-> v, pos |-> q]
LEMMA ResFacts ==
    ASSUME NEW v, NEW q
    PROVE  /\ Res(v, q).val = v /\ Res(v, q).pos = q
           /\ \A p, b : Ends(p, b, q) <=> Result(Res(v, q), p, v, b)
  <1>1. Res(v, q).val = v /\ Res(v, q).pos = q
    BY DEF Res
  <1>2. Res(v, q) = [val |-> v, pos |-> Res(v, q).pos]
    BY DEF Res
  <1> QED BY <1>1, <1>2, ResultIs, Zenon

LEMMA ConcatTyped ==
    \A b, c \in Seq(Byte) : b \o c \in Seq(Byte) /\ Len(b \o c) = Len(b) + Len(c)
  BY ConcatProperties

OptLegal(v) == v = None \/ FitsIn(v, W32)

LEMMA OptTyped ==
    ASSUME NEW v, OptLegal(v)
    PROVE  Opt(v) \in Seq(Byte) /\ Len(Opt(v)) >= 1
  <1>1. U8(0) \in Seq(Byte) /\ Len(U8(0)) = 1 /\ U8(1) \in Seq(Byte) /\ Len(U8(1)) = 1
    BY BitFits, Sizes, NumberTyped DEF U8
  <1>2. CASE v = None
    BY <1>1, <1>2 DEF Opt
  <1>3. CASE v # None
    <2>1. U32(v) \in Seq(Byte) /\ Len(U32(v)) = W32
      BY <1>3, Sizes, NumberTyped DEF U32, OptLegal
    <2>2. Opt(v) = U8(1) \o U32(v)
      BY <1>3, Zenon DEF Opt
    <2>3. U8(1) \o U32(v) \in Seq(Byte) /\ Len(U8(1) \o U32(v)) = 1 + W32
      BY <1>1, <2>1, ConcatTyped, Zenon
    <2> QED BY <2>2, <2>3, Sizes
  <1> QED BY <1>2, <1>3

LEMMA NoneFitsNot == \A w : ~FitsIn(None, w)
  BY DEF FitsIn, None

LEMMA OptReads ==
    ASSUME FileOK, NEW p \in Nat
    PROVE  \A s : s \in OptU32(p) <=> OptLegal(s.val) /\ Result(s, p, s.val, Opt(s.val))
  <1>1. U8(0) \in Seq(Byte) /\ U8(1) \in Seq(Byte) /\ BoolBytes(TRUE) = U8(1) /\ BoolBytes(FALSE) = U8(0)
    BY BitFits, Sizes, NumberTyped, Zenon DEF U8, BoolBytes
  <1>2. ASSUME NEW s \in OptU32(p)
        PROVE  OptLegal(s.val) /\ Result(s, p, s.val, Opt(s.val))
    <2>1. PICK r \in Bool(p) : s \in IF r.val THEN Fixed(r.pos, W32) ELSE Good(None, r.pos)
      BY <1>2, Zenon DEF OptU32, Then
    <2>2. IsBool(r.val) /\ Result(r, p, r.val, BoolBytes(r.val))
      BY BoolReads
    <2>3. Ends(p, BoolBytes(r.val), r.pos)
      BY <2>2, ResultIs, Zenon
    <2>4. CASE r.val = TRUE
      <3>1. s \in Fixed(r.pos, W32)
        BY <2>1, <2>4
      <3>2. r.pos \in Nat
        BY <2>3, EndsFacts
      <3>3. FitsIn(s.val, W32) /\ Result(s, r.pos, s.val, U32(s.val))
        BY <3>1, <3>2, Sizes, FixedReads DEF U32
      <3>4. U32(s.val) \in Seq(Byte) /\ s.val # None
        BY <3>3, Sizes, NumberTyped, NoneFitsNot DEF U32
      <3>5. Ends(p, U8(1), r.pos) /\ Ends(r.pos, U32(s.val), s.pos) /\ s = [val |-> s.val, pos |-> s.pos]
        BY <1>1, <2>3, <2>4, <3>3, ResultIs, Zenon
      <3>6. Ends(p, U8(1) \o U32(s.val), s.pos)
        BY <1>1, <3>4, <3>5, EndsJoins
      <3>7. Opt(s.val) = U8(1) \o U32(s.val)
        BY <3>4, Zenon DEF Opt
      <3> QED BY <3>3, <3>5, <3>6, <3>7, ResultIs, Zenon DEF OptLegal
    <2>5. CASE r.val = FALSE
      <3>1. s = [val |-> None, pos |-> r.pos]
        BY <2>1, <2>5 DEF Good
      <3>2. s.val = None /\ s.pos = r.pos
        BY <3>1
      <3>3. Ends(p, Opt(s.val), s.pos)
        BY <1>1, <2>3, <2>5, <3>2, Zenon DEF Opt
      <3> QED BY <3>1, <3>2, <3>3, ResultIs, Zenon DEF OptLegal
    <2> QED BY <2>2, <2>4, <2>5 DEF IsBool
  <1>3. ASSUME NEW s, OptLegal(s.val), Result(s, p, s.val, Opt(s.val))
        PROVE  s \in OptU32(p)
    <2> DEFINE v == s.val
    <2>1. OptLegal(v) /\ Ends(p, Opt(v), s.pos) /\ s = [val |-> v, pos |-> s.pos]
      BY <1>3, ResultIs, Zenon
    <2> HIDE DEF v
    <2>2. \A r \in Bool(p) : s \in (IF r.val THEN Fixed(r.pos, W32) ELSE Good(None, r.pos)) => s \in OptU32(p)
      BY Zenon DEF OptU32, Then
    <2>3. CASE v = None
      <3>1. Opt(v) = BoolBytes(FALSE)
        BY <1>1, <2>3, Zenon DEF Opt
      <3> DEFINE r == Res(FALSE, s.pos)
      <3>2. r.val = FALSE /\ r.pos = s.pos /\ Result(r, p, FALSE, BoolBytes(FALSE))
        BY <2>1, <3>1, ResFacts
      <3> HIDE DEF r
      <3>3. IsBool(r.val)
        BY <3>2 DEF IsBool
      <3>4. r \in Bool(p)
        BY <3>2, <3>3, BoolReads
      <3>5. s \in IF r.val THEN Fixed(r.pos, W32) ELSE Good(None, r.pos)
        BY <2>1, <2>3, <3>2 DEF Good
      <3> QED BY <2>2, <3>4, <3>5
    <2>4. CASE v # None
      <3>1. FitsIn(v, W32) /\ Opt(v) = U8(1) \o U32(v)
        BY <2>1, <2>4, Zenon DEF OptLegal, Opt
      <3>2. U32(v) \in Seq(Byte)
        BY <3>1, Sizes, NumberTyped DEF U32
      <3>3. PICK m : Ends(p, U8(1), m) /\ Ends(m, U32(v), s.pos)
        BY <1>1, <2>1, <3>1, <3>2, EndsJoins
      <3> DEFINE r == Res(TRUE, m)
      <3>4. r.val = TRUE /\ r.pos = m /\ Result(r, p, TRUE, BoolBytes(TRUE))
        <4>1. Ends(p, BoolBytes(TRUE), m)
          BY <1>1, <3>3
        <4> QED BY <4>1, ResFacts, Zenon
      <3> HIDE DEF r
      <3>5. IsBool(r.val)
        BY <3>4 DEF IsBool
      <3>6. r \in Bool(p)
        BY <3>4, <3>5, BoolReads
      <3>7. m \in Nat
        BY <3>3, EndsFacts
      <3>8. Result(s, m, v, U32(v))
        BY <2>1, <3>3, ResultIs, Zenon
      <3>9. s \in Fixed(m, W32)
        BY <3>1, <3>7, <3>8, Sizes, FixedReads DEF U32, v
      <3>10. s \in IF r.val THEN Fixed(r.pos, W32) ELSE Good(None, r.pos)
        BY <3>4, <3>9
      <3> QED BY <2>2, <3>6, <3>10
    <2> QED BY <2>3, <2>4
  <1> QED BY <1>2, <1>3

SymLegal(v) == FitsIn(v, W32) /\ SymbolExists(v)
OptSymLegal(v) == OptLegal(v) /\ SymbolExists(v)
AbiLegal(v) ==
    \/ \E t : InTable(AbiTags, t) /\ t # "Custom" /\ v = [tag |-> t]
    \/ \E y : SymLegal(y) /\ v = [tag |-> "Custom", symbol |-> y]

LEMMA SymbolReads ==
    ASSUME FileOK, NEW p \in Nat
    PROVE  /\ \A s : s \in Symbol(p) <=> SymLegal(s.val) /\ Result(s, p, s.val, U32(s.val))
           /\ \A s : s \in OptSymbol(p) <=> OptSymLegal(s.val) /\ Result(s, p, s.val, Opt(s.val))
  <1>1. \A s : s \in Fixed(p, W32) <=> FitsIn(s.val, W32) /\ Result(s, p, s.val, U32(s.val))
    BY Sizes, FixedReads DEF U32
  <1>2. \A s : s \in OptU32(p) <=> OptLegal(s.val) /\ Result(s, p, s.val, Opt(s.val))
    BY OptReads
  <1>3. \A s : s \in Symbol(p) <=> s \in Fixed(p, W32) /\ SymbolExists(s.val)
    BY Zenon DEF Symbol, Ensure
  <1>4. \A s : s \in OptSymbol(p) <=> s \in OptU32(p) /\ SymbolExists(s.val)
    BY Zenon DEF OptSymbol, Ensure
  <1> QED BY <1>1, <1>2, <1>3, <1>4, Zenon DEF SymLegal, OptSymLegal

CustomTag == U8(CodeOf(AbiTags, "Custom"))

LEMMA AbiForms ==
    /\ InTable(AbiTags, "Custom")
    /\ \A t : t # "Custom" => AbiBytes([tag |-> t]) = U8(CodeOf(AbiTags, t)) \o <<>>
    /\ \A y : AbiBytes([tag |-> "Custom", symbol |-> y]) = CustomTag \o U32(y)
  <1>1. InTable(AbiTags, "Custom")
    <2>1. AbiTags[4] = "Custom" /\ Len(AbiTags) = 4
      BY DEF AbiTags
    <2>2. 4 \in 1..4
      OBVIOUS
    <2> QED BY <2>1, <2>2, Zenon DEF InTable
  <1>2. ASSUME NEW t, t # "Custom" PROVE AbiBytes([tag |-> t]) = U8(CodeOf(AbiTags, t)) \o <<>>
    <2>1. [tag |-> t].tag = t
      OBVIOUS
    <2> QED BY <1>2, <2>1, Zenon DEF AbiBytes
  <1>3. ASSUME NEW y PROVE AbiBytes([tag |-> "Custom", symbol |-> y]) = CustomTag \o U32(y)
    <2> DEFINE a == [tag |-> "Custom", symbol |-> y]
    <2>1. a.tag = "Custom" /\ a.symbol = y
      OBVIOUS
    <2> HIDE DEF a
    <2>2. AbiBytes(a) = CustomTag \o U32(y)
      BY <2>1, Zenon DEF AbiBytes, CustomTag
    <2> QED BY <2>2 DEF a
  <1> QED BY <1>1, <1>2, <1>3, Zenon

LEMMA AbiTyped ==
    ASSUME NEW v, AbiLegal(v)
    PROVE  AbiBytes(v) \in Seq(Byte) /\ Len(AbiBytes(v)) >= 1
  <1>1. CustomTag \in Seq(Byte) /\ Len(CustomTag) = 1
    BY AbiForms, SmallTables, TagTyped DEF CustomTag
  <1>2. ASSUME NEW t, InTable(AbiTags, t), t # "Custom", v = [tag |-> t]
        PROVE  AbiBytes(v) \in Seq(Byte) /\ Len(AbiBytes(v)) >= 1
    <2>1. U8(CodeOf(AbiTags, t)) \in Seq(Byte) /\ Len(U8(CodeOf(AbiTags, t))) = 1
      BY <1>2, SmallTables, TagTyped
    <2>2. <<>> \in Seq(Byte) /\ Len(<<>>) = 0
      OBVIOUS
    <2>3. AbiBytes(v) = U8(CodeOf(AbiTags, t)) \o <<>>
      BY <1>2, AbiForms, Zenon
    <2>4. AbiBytes(v) \in Seq(Byte) /\ Len(AbiBytes(v)) = 1 + 0
      BY <2>1, <2>2, <2>3, ConcatTyped, Zenon
    <2> QED BY <2>4
  <1>3. ASSUME NEW y, SymLegal(y), v = [tag |-> "Custom", symbol |-> y]
        PROVE  AbiBytes(v) \in Seq(Byte) /\ Len(AbiBytes(v)) >= 1
    <2>1. U32(y) \in Seq(Byte) /\ Len(U32(y)) = W32
      BY <1>3, Sizes, NumberTyped DEF SymLegal, U32
    <2>2. AbiBytes(v) = CustomTag \o U32(y)
      BY <1>3, AbiForms, Zenon
    <2>3. AbiBytes(v) \in Seq(Byte) /\ Len(AbiBytes(v)) = 1 + W32
      BY <1>1, <2>1, <2>2, ConcatTyped, Zenon
    <2> QED BY <2>3, Sizes
  <1> QED BY <1>2, <1>3 DEF AbiLegal

LEMMA AbiReads ==
    ASSUME FileOK, NEW p \in Nat
    PROVE  \A s : s \in AbiAt(p) <=> AbiLegal(s.val) /\ Result(s, p, s.val, AbiBytes(s.val))
  <1>1. \A t : t \in Tag(p, AbiTags)
               <=> InTable(AbiTags, t.val) /\ Result(t, p, t.val, U8(CodeOf(AbiTags, t.val)))
    BY SmallTables, TagReads
  <1>2. \A s : s \in AbiAt(p) <=> \E t \in Tag(p, AbiTags) :
                 s \in IF t.val # "Custom" THEN Good([tag |-> t.val], t.pos)
                       ELSE Then(Symbol(t.pos),
                                 LAMBDA y : Good([tag |-> "Custom", symbol |-> y.val], y.pos))
    BY Zenon DEF AbiAt, Then
  <1>3. CustomTag \in Seq(Byte) /\ <<>> \in Seq(Byte)
    BY AbiForms, SmallTables, TagTyped DEF CustomTag
  <1>4. \A t : InTable(AbiTags, t) => U8(CodeOf(AbiTags, t)) \in Seq(Byte)
    BY SmallTables, TagTyped
  <1>5. ASSUME NEW s \in AbiAt(p) PROVE AbiLegal(s.val) /\ Result(s, p, s.val, AbiBytes(s.val))
    <2>1. PICK t \in Tag(p, AbiTags) :
                 s \in IF t.val # "Custom" THEN Good([tag |-> t.val], t.pos)
                       ELSE Then(Symbol(t.pos),
                                 LAMBDA y : Good([tag |-> "Custom", symbol |-> y.val], y.pos))
      BY <1>2, <1>5, Zenon
    <2>2. InTable(AbiTags, t.val) /\ Ends(p, U8(CodeOf(AbiTags, t.val)), t.pos)
      BY <1>1, ResultIs, Zenon
    <2>3. t.pos \in Nat /\ t.pos <= end
      BY <2>2, EndsFacts
    <2>4. CASE t.val # "Custom"
      <3>1. s = [val |-> [tag |-> t.val], pos |-> t.pos]
        BY <2>1, <2>4 DEF Good
      <3>2. s.val = [tag |-> t.val] /\ s.pos = t.pos
        BY <3>1
      <3>3. Ends(t.pos, <<>>, t.pos)
        BY <2>3, EndsEmpty
      <3>4. Ends(p, U8(CodeOf(AbiTags, t.val)) \o <<>>, t.pos)
        BY <1>3, <1>4, <2>2, <3>3, EndsJoins
      <3>5. Ends(p, AbiBytes(s.val), s.pos)
        BY <2>4, <3>2, <3>4, AbiForms, Zenon
      <3>6. AbiLegal(s.val)
        BY <2>2, <2>4, <3>2, Zenon DEF AbiLegal
      <3> QED BY <3>1, <3>2, <3>5, <3>6, ResultIs, Zenon
    <2>5. CASE t.val = "Custom"
      <3>1. PICK y \in Symbol(t.pos) : s \in Good([tag |-> "Custom", symbol |-> y.val], y.pos)
        BY <2>1, <2>5, Zenon DEF Then
      <3>2. SymLegal(y.val) /\ Result(y, t.pos, y.val, U32(y.val))
        BY <2>3, SymbolReads
      <3>3. s = [val |-> [tag |-> "Custom", symbol |-> y.val], pos |-> y.pos]
        BY <3>1 DEF Good
      <3>4. s.val = [tag |-> "Custom", symbol |-> y.val] /\ s.pos = y.pos
        BY <3>3
      <3>5. Ends(p, CustomTag, t.pos) /\ Ends(t.pos, U32(y.val), y.pos)
        BY <2>2, <2>5, <3>2, ResultIs, Zenon DEF CustomTag
      <3>6. U32(y.val) \in Seq(Byte)
        BY <3>2, Sizes, NumberTyped DEF U32, SymLegal
      <3>7. Ends(p, CustomTag \o U32(y.val), y.pos)
        BY <1>3, <3>5, <3>6, EndsJoins
      <3>8. Ends(p, AbiBytes(s.val), s.pos)
        BY <3>4, <3>7, AbiForms, Zenon
      <3>9. AbiLegal(s.val)
        BY <3>2, <3>4, Zenon DEF AbiLegal
      <3> QED BY <3>3, <3>4, <3>8, <3>9, ResultIs, Zenon
    <2> QED BY <2>4, <2>5
  <1>6. ASSUME NEW s, AbiLegal(s.val), Result(s, p, s.val, AbiBytes(s.val)) PROVE s \in AbiAt(p)
    <2> DEFINE v == s.val
    <2>1. AbiLegal(v) /\ Ends(p, AbiBytes(v), s.pos) /\ s = [val |-> v, pos |-> s.pos]
      BY <1>6, ResultIs, Zenon
    <2> HIDE DEF v
    <2>2. ASSUME NEW t, InTable(AbiTags, t), t # "Custom", v = [tag |-> t] PROVE s \in AbiAt(p)
      <3>1. Ends(p, U8(CodeOf(AbiTags, t)) \o <<>>, s.pos)
        BY <2>1, <2>2, AbiForms, Zenon
      <3>2. PICK m : Ends(p, U8(CodeOf(AbiTags, t)), m) /\ Ends(m, <<>>, s.pos)
        BY <1>3, <1>4, <2>2, <3>1, EndsJoins
      <3>3. m \in Nat /\ m <= end
        BY <3>2, EndsFacts
      <3>4. m = s.pos
        BY <3>2, <3>3, EndsEmpty
      <3> DEFINE r == Res(t, m)
      <3>5. r.val = t /\ r.pos = m /\ Result(r, p, t, U8(CodeOf(AbiTags, t)))
        BY <3>2, ResFacts
      <3> HIDE DEF r
      <3>6. r \in Tag(p, AbiTags)
        BY <1>1, <2>2, <3>5, Zenon
      <3>7. s \in Good([tag |-> r.val], r.pos)
        BY <2>1, <2>2, <3>4, <3>5 DEF Good
      <3> QED BY <1>2, <2>2, <3>5, <3>6, <3>7, Zenon
    <2>3. ASSUME NEW y, SymLegal(y), v = [tag |-> "Custom", symbol |-> y] PROVE s \in AbiAt(p)
      <3>1. Ends(p, CustomTag \o U32(y), s.pos)
        BY <2>1, <2>3, AbiForms, Zenon
      <3>2. U32(y) \in Seq(Byte)
        BY <2>3, Sizes, NumberTyped DEF U32, SymLegal
      <3>3. PICK m : Ends(p, CustomTag, m) /\ Ends(m, U32(y), s.pos)
        BY <1>3, <3>1, <3>2, EndsJoins
      <3>4. m \in Nat
        BY <3>3, EndsFacts
      <3> DEFINE r == Res("Custom", m)
                 u == Res(y, s.pos)
      <3>5. r.val = "Custom" /\ r.pos = m /\ Result(r, p, "Custom", CustomTag)
        BY <3>3, ResFacts
      <3>6. u.val = y /\ u.pos = s.pos /\ Result(u, m, y, U32(y))
        BY <3>3, ResFacts
      <3> HIDE DEF r, u
      <3>7. r \in Tag(p, AbiTags)
        BY <1>1, <3>5, AbiForms, Zenon DEF CustomTag
      <3>8. u \in Symbol(m)
        BY <2>3, <3>4, <3>6, SymbolReads
      <3>9. s \in Good([tag |-> "Custom", symbol |-> u.val], u.pos)
        BY <2>1, <2>3, <3>6 DEF Good
      <3>10. s \in Then(Symbol(r.pos),
                        LAMBDA x : Good([tag |-> "Custom", symbol |-> x.val], x.pos))
        BY <3>5, <3>8, <3>9, Zenon DEF Then
      <3> QED BY <1>2, <3>5, <3>7, <3>10, Zenon
    <2> QED BY <2>1, <2>2, <2>3 DEF AbiLegal
  <1> QED BY <1>5, <1>6

-----------------------------------------------------------------------------
(* Lists of entries of one width                                           *)

LEMMA CountReads ==
    ASSUME FileOK, NEW p \in Nat, NEW least \in Nat
    PROVE  \A s : s \in Count(p, least)
                  <=> /\ FitsIn(s.val, W32) /\ Result(s, p, s.val, U32(s.val))
                      /\ s.val * least <= end - s.pos
  <1>1. \A s : s \in Fixed(p, W32) <=> FitsIn(s.val, W32) /\ Result(s, p, s.val, U32(s.val))
    BY Sizes, FixedReads DEF U32
  <1>2. \A s : s \in Count(p, least) <=> s \in Fixed(p, W32) /\ s.val * least <= end - s.pos
    BY Zenon DEF Count
  <1> QED BY <1>1, <1>2, Zenon

\* Every entry takes w bytes.
Chunks(list, w) == list \in Seq(Seq(Byte)) /\ \A i \in 1..Len(list) : Len(list[i]) = w
ChunkWidths == {1, 2, 4}

LEMMA ChunksJoin ==
    ASSUME FileOK, NEW q \in Nat, NEW w \in ChunkWidths, NEW list, Chunks(list, w)
    PROVE  /\ FlattenSeq(list) \in Seq(Byte)
           /\ Len(FlattenSeq(list)) = Len(list) * w
           /\ Has(q, FlattenSeq(list))
              <=> q + Len(list) * w <= end /\ \A i \in 1..Len(list) : Has(q + (i - 1) * w, list[i])
  <1> DEFINE N == Len(list)
             flat(n) == FlattenSeq(Prefix(list, n))
             all(n) == q + n * w <= end /\ \A i \in 1..n : Has(q + (i - 1) * w, list[i])
             good == {n \in 0..N : /\ flat(n) \in Seq(Byte)
                                   /\ Len(flat(n)) = n * w
                                   /\ Has(q, flat(n)) <=> all(n)}
  <1>1. N \in Nat /\ list \in Seq(Seq(Byte)) /\ \A i \in 1..N : list[i] \in Seq(Byte) /\ Len(list[i]) = w
    BY DEF Chunks
  <1>2. w \in Nat /\ \A n \in Nat : n * w \in Nat /\ (n # 0 => (n - 1) * w + w = n * w)
    BY DEF ChunkWidths
  <1>3. 0 * w = 0 /\ end \in Nat
    BY <1>2 DEF FileOK
  <1>4. 0 \in good
    <2>1. flat(0) = <<>>
      BY <1>1, PrefixEnds, FlattenNone
    <2>2. <<>> \in Seq(Byte) /\ Len(<<>>) = 0 /\ Span(q, q) = <<>>
      BY SpanEmpty
    <2>3. Has(q, <<>>) <=> q <= end
      BY <2>2 DEF Has
    <2>4. all(0) <=> q <= end
      BY <1>3
    <2>5. /\ flat(0) \in Seq(Byte) /\ Len(flat(0)) = 0 * w
          /\ Has(q, flat(0)) <=> all(0)
      <3> HIDE DEF flat, all
      <3> QED BY <1>3, <2>1, <2>2, <2>3, <2>4, Zenon
    <2>6. 0 \in 0..N
      BY <1>1
    <2> HIDE DEF flat, all
    <2> QED BY <2>5, <2>6, Zenon
  <1>5. ASSUME NEW n \in 1..N, n - 1 \in good PROVE n \in good
    <2> DEFINE m == n - 1
               x == list[n]
               f == flat(m)
    <2>1. m \in Nat /\ n \in Nat /\ n # 0 /\ m \in 0..N /\ n \in 0..N /\ n - 1 = m /\ 1..n = 1..m \cup {n}
      BY <1>1
    <2>2. f \in Seq(Byte) /\ Len(f) = m * w /\ (Has(q, f) <=> all(m))
      BY <1>5
    <2>3. x \in Seq(Byte) /\ Len(x) = w
      BY <1>1
    <2>4. flat(n) = f \o x
      BY <1>1, FlattenPrefix
    <2>5. m * w \in Nat /\ n * w = m * w + w
      BY <1>2, <2>1
    <2> DEFINE a == m * w
               b == n * w
    <2> HIDE DEF m, x, f, a, b
    <2>6. flat(n) \in Seq(Byte) /\ Len(flat(n)) = b
      <3>1. f \o x \in Seq(Byte) /\ Len(f \o x) = Len(f) + Len(x)
        BY <2>2, <2>3, ConcatTyped, Zenon
      <3> QED BY <2>2, <2>3, <2>4, <2>5, <3>1 DEF a, b
    <2>7. Has(q, f \o x) <=> Has(q, f) /\ Has(q + a, x)
      <3>1. Has(q, f \o x) <=> Has(q, f) /\ Has(q + Len(f), x)
        BY <2>2, <2>3, HasJoins
      <3>2. Len(f) = a
        BY <2>2 DEF a
      <3> QED BY <3>1, <3>2
    <2>8. (Has(q, f) /\ Has(q + a, x)) <=> all(n)
      <3>1. ASSUME Has(q, f), Has(q + a, x) PROVE all(n)
        <4>1. (q + a) + w <= end
          BY <2>3, <3>1 DEF Has
        <4>2. q + b <= end
          BY <1>2, <1>3, <2>5, <4>1 DEF a, b
        <4>3. \A i \in 1..m : Has(q + (i - 1) * w, list[i])
          BY <2>2, <3>1
        <4> QED BY <2>1, <3>1, <4>2, <4>3 DEF a, b, x
      <3>2. ASSUME all(n) PROVE Has(q, f) /\ Has(q + a, x)
        <4>1. q + b <= end /\ \A i \in 1..n : Has(q + (i - 1) * w, list[i])
          BY <3>2 DEF b
        <4>2. q + a <= end
          BY <1>2, <1>3, <2>5, <4>1 DEF a, b
        <4>3. all(m)
          BY <2>1, <4>1, <4>2 DEF a
        <4>4. Has(q + a, x)
          BY <2>1, <4>1, Zenon DEF a, x
        <4> QED BY <2>2, <4>3, <4>4
      <3> QED BY <3>1, <3>2
    <2> HIDE DEF flat, all
    <2> QED BY <2>1, <2>4, <2>6, <2>7, <2>8 DEF b
  <1>6. \A n \in 0..N : n \in good
    <2> HIDE DEF good
    <2> QED BY <1>1, <1>4, <1>5, UpTo
  <1>7. N \in good
    BY <1>1, <1>6
  <1>8. flat(N) = FlattenSeq(list)
    BY <1>1, PrefixEnds
  <1> QED BY <1>7, <1>8

\* e reads at a place the entry of L whose bytes, w of them, g gives.
Codec(L, e, g, w) ==
    /\ \A at \in Nat : at + w <= end => e[at] \in L /\ Has(at, g[e[at]])
    /\ \A v \in L : g[v] \in Seq(Byte) /\ Len(g[v]) = w
    /\ \A v \in L : \A at \in Nat : Has(at, g[v]) => e[at] = v
EntriesLegal(L, v) == v \in Seq(L) /\ FitsIn(Len(v), W32)
Each(g, v) == [i \in 1..Len(v) |-> g[v[i]]]
Entries(g, v) == U32(Len(v)) \o FlattenSeq(Each(g, v))
ReadsEntries(s, p, e, w) ==
    \E n \in Count(p, w) : s = [val |-> [i \in 1..n.val |-> e[n.pos + (i - 1) * w]],
                                pos |-> n.pos + n.val * w]

LEMMA EachIs ==
    ASSUME NEW L, NEW e, NEW g, NEW w, Codec(L, e, g, w), NEW v \in Seq(L)
    PROVE  /\ Chunks(Each(g, v), w) /\ Len(Each(g, v)) = Len(v)
           /\ \A i \in 1..Len(v) : Each(g, v)[i] = g[v[i]]
  <1>1. Len(v) \in Nat /\ \A i \in 1..Len(v) : v[i] \in L
    OBVIOUS
  <1>2. \A i \in 1..Len(v) : g[v[i]] \in Seq(Byte) /\ Len(g[v[i]]) = w
    BY <1>1 DEF Codec
  <1>3. Each(g, v) \in Seq(Seq(Byte)) /\ Len(Each(g, v)) = Len(v)
    BY <1>1, <1>2 DEF Each
  <1>4. \A i \in 1..Len(v) : Each(g, v)[i] = g[v[i]]
    BY DEF Each
  <1> QED BY <1>2, <1>3, <1>4 DEF Chunks

LEMMA EntriesTyped ==
    ASSUME FileOK, NEW L, NEW e, NEW g, NEW w \in ChunkWidths, Codec(L, e, g, w),
           NEW v, EntriesLegal(L, v)
    PROVE  /\ Entries(g, v) \in Seq(Byte)
           /\ Len(Entries(g, v)) = W32 + Len(v) * w
           /\ U32(Len(v)) \in Seq(Byte)
           /\ FlattenSeq(Each(g, v)) \in Seq(Byte) /\ Len(FlattenSeq(Each(g, v))) = Len(v) * w
  <1>1. Chunks(Each(g, v), w) /\ Len(Each(g, v)) = Len(v)
    BY EachIs DEF EntriesLegal
  <1>2. FlattenSeq(Each(g, v)) \in Seq(Byte) /\ Len(FlattenSeq(Each(g, v))) = Len(v) * w
    <2>1. 0 \in Nat
      OBVIOUS
    <2> QED BY <1>1, <2>1, ChunksJoin
  <1>3. U32(Len(v)) \in Seq(Byte) /\ Len(U32(Len(v))) = W32
    BY Sizes, NumberTyped DEF EntriesLegal, U32
  <1> QED BY <1>2, <1>3, ConcatTyped, Zenon DEF Entries

LEMMA EntriesRead ==
    ASSUME FileOK, NEW p \in Nat, NEW w \in ChunkWidths, NEW L, NEW e, NEW g, Codec(L, e, g, w)
    PROVE  \A s : ReadsEntries(s, p, e, w)
                  <=> EntriesLegal(L, s.val) /\ Result(s, p, s.val, Entries(g, s.val))
  <1>0. w \in Nat
    BY DEF ChunkWidths
  <1>1. \A n : n \in Count(p, w) <=> /\ FitsIn(n.val, W32) /\ Result(n, p, n.val, U32(n.val))
                                     /\ n.val * w <= end - n.pos
    BY <1>0, CountReads
  <1>2. ASSUME NEW s, ReadsEntries(s, p, e, w)
        PROVE  EntriesLegal(L, s.val) /\ Result(s, p, s.val, Entries(g, s.val))
    <2>1. PICK r \in Count(p, w) : s = [val |-> [i \in 1..r.val |-> e[r.pos + (i - 1) * w]],
                                        pos |-> r.pos + r.val * w]
      BY <1>2 DEF ReadsEntries
    <2> DEFINE n == r.val
               q == r.pos
               v == [i \in 1..n |-> e[q + (i - 1) * w]]
    <2>2. FitsIn(n, W32) /\ Ends(p, U32(n), q) /\ n * w <= end - q
      BY <1>1, ResultIs, Zenon
    <2>3. q \in Nat /\ q <= end /\ n \in Nat /\ end \in Nat
      BY <2>2, EndsFacts DEF FitsIn, FileOK
    <2>4. s = [val |-> v, pos |-> q + n * w]
      BY <2>1
    <2> HIDE DEF n, q
    <2>5. \A i \in 1..n : q + (i - 1) * w \in Nat /\ (q + (i - 1) * w) + w <= end
      <3> SUFFICES ASSUME NEW i \in 1..n PROVE q + (i - 1) * w \in Nat /\ (q + (i - 1) * w) + w <= end
        OBVIOUS
      <3>1. CASE w = 1
        BY <2>2, <2>3, <3>1
      <3>2. CASE w = 2
        BY <2>2, <2>3, <3>2
      <3>3. CASE w = 4
        BY <2>2, <2>3, <3>3
      <3> QED BY <3>1, <3>2, <3>3 DEF ChunkWidths
    <2>6. \A i \in 1..n : e[q + (i - 1) * w] \in L /\ Has(q + (i - 1) * w, g[e[q + (i - 1) * w]])
      BY <2>5 DEF Codec
    <2>7. v \in Seq(L) /\ Len(v) = n /\ \A i \in 1..n : v[i] = e[q + (i - 1) * w]
      BY <2>3, <2>6
    <2> HIDE DEF v
    <2>8. /\ Chunks(Each(g, v), w) /\ Len(Each(g, v)) = n
          /\ \A i \in 1..n : Each(g, v)[i] = g[v[i]]
      BY <2>7, EachIs
    <2>9. \A i \in 1..n : Has(q + (i - 1) * w, Each(g, v)[i])
      BY <2>6, <2>7, <2>8
    <2>10. n * w \in Nat /\ q + n * w <= end
      <3> DEFINE a == n * w
      <3>1. a \in Nat /\ a <= end - q
        BY <1>0, <2>2, <2>3
      <3> HIDE DEF a
      <3> QED BY <2>3, <3>1 DEF a
    <2> DEFINE list == Each(g, v)
    <2>11. Chunks(list, w) /\ Len(list) = n /\ \A i \in 1..n : Has(q + (i - 1) * w, list[i])
      BY <2>8, <2>9
    <2> HIDE DEF list
    <2>12. Has(q, FlattenSeq(list)) /\ Len(FlattenSeq(list)) = n * w /\ FlattenSeq(list) \in Seq(Byte)
      BY <2>3, <2>10, <2>11, ChunksJoin
    <2>13. Ends(q, FlattenSeq(list), s.pos)
      <3>1. s.pos = q + n * w
        BY <2>4
      <3> QED BY <2>12, <3>1, Zenon DEF Ends
    <2>14. U32(n) \in Seq(Byte)
      BY <2>2, EndsFacts
    <2>15. Ends(p, U32(n) \o FlattenSeq(list), s.pos)
      BY <2>2, <2>12, <2>13, <2>14, EndsJoins
    <2>16. s.val = v /\ s = [val |-> v, pos |-> s.pos]
      BY <2>4
    <2>17. Entries(g, v) = U32(n) \o FlattenSeq(list)
      BY <2>7, Zenon DEF Entries, list
    <2>18. EntriesLegal(L, v)
      BY <2>2, <2>7 DEF EntriesLegal
    <2> QED BY <2>15, <2>16, <2>17, <2>18, ResultIs, Zenon
  <1>3. ASSUME NEW s, EntriesLegal(L, s.val), Result(s, p, s.val, Entries(g, s.val))
        PROVE  ReadsEntries(s, p, e, w)
    <2> DEFINE v == s.val
               n == Len(v)
               list == Each(g, v)
    <2>1. EntriesLegal(L, v) /\ Ends(p, Entries(g, v), s.pos) /\ s = [val |-> v, pos |-> s.pos]
      BY <1>3, ResultIs, Zenon
    <2>2. n \in Nat /\ v \in Seq(L) /\ FitsIn(n, W32)
      BY <2>1 DEF EntriesLegal
    <2> HIDE DEF v
    <2>3. /\ Chunks(list, w) /\ Len(list) = n
          /\ \A i \in 1..n : list[i] = g[v[i]]
      BY <2>2, EachIs
    <2>4. U32(n) \in Seq(Byte) /\ FlattenSeq(list) \in Seq(Byte) /\ Len(FlattenSeq(list)) = n * w
      BY <2>1, EntriesTyped
    <2>5. Entries(g, v) = U32(n) \o FlattenSeq(list)
      BY Zenon DEF Entries
    <2> HIDE DEF list, n
    <2>6. PICK q : Ends(p, U32(n), q) /\ Ends(q, FlattenSeq(list), s.pos)
      BY <2>1, <2>4, <2>5, EndsJoins
    <2>7. q \in Nat /\ q <= end /\ end \in Nat
      BY <2>6, EndsFacts DEF FileOK
    <2>8. Has(q, FlattenSeq(list)) /\ s.pos = q + n * w
      BY <2>4, <2>6, Zenon DEF Ends
    <2>9. q + n * w <= end /\ \A i \in 1..n : Has(q + (i - 1) * w, list[i])
      BY <2>3, <2>7, <2>8, ChunksJoin
    <2>10. \A i \in 1..n : e[q + (i - 1) * w] = v[i]
      <3> SUFFICES ASSUME NEW i \in 1..n PROVE e[q + (i - 1) * w] = v[i]
        OBVIOUS
      <3>1. v[i] \in L
        BY <2>2 DEF n
      <3>2. q + (i - 1) * w \in Nat
        <4>1. i - 1 \in Nat
          BY <2>2
        <4>2. (i - 1) * w \in Nat
          BY <1>0, <4>1
        <4> QED BY <2>7, <4>2
      <3>3. Has(q + (i - 1) * w, g[v[i]])
        BY <2>3, <2>9, Zenon
      <3> QED BY <3>1, <3>2, <3>3, Zenon DEF Codec
    <2>11. v = [i \in 1..n |-> e[q + (i - 1) * w]]
      BY <2>2, <2>10 DEF n
    <2> DEFINE r == Res(n, q)
    <2>12. r.val = n /\ r.pos = q /\ Result(r, p, n, U32(n))
      BY <2>6, ResFacts
    <2> HIDE DEF r
    <2>13. n * w <= end - q
      <3> DEFINE a == n * w
      <3>1. a \in Nat /\ q + a <= end
        BY <1>0, <2>2, <2>9
      <3> HIDE DEF a
      <3> QED BY <2>7, <3>1 DEF a
    <2>14. r \in Count(p, w)
      BY <1>1, <2>2, <2>12, <2>13, Zenon
    <2>15. s = [val |-> [i \in 1..r.val |-> e[r.pos + (i - 1) * w]], pos |-> r.pos + r.val * w]
      <3>1. s = [val |-> v, pos |-> q + n * w]
        BY <2>1, <2>8
      <3> QED BY <2>11, <2>12, <3>1
    <2> QED BY <2>14, <2>15, Zenon DEF ReadsEntries
  <1> QED BY <1>2, <1>3

\* Lists of numbers.
Ints(w) == {v \in Nat : FitsIn(v, w)}
ReadNumber(w) == [at \in Nat |-> UInt(at, w)]
WriteNumber(w) == [v \in Nat |-> Number(v, w)]

LEMMA NumberCodec ==
    ASSUME FileOK, NEW w \in Widths
    PROVE  Codec(Ints(w), ReadNumber(w), WriteNumber(w), w)
  <1> DEFINE e == ReadNumber(w)
             g == WriteNumber(w)
             L == Ints(w)
  <1>1. \A at \in Nat : e[at] = UInt(at, w)
    BY DEF ReadNumber
  <1>2. \A v \in Nat : g[v] = Number(v, w)
    BY DEF WriteNumber
  <1>3. \A v : v \in L <=> FitsIn(v, w) /\ v \in Nat
    BY DEF Ints
  <1>4. \A v : FitsIn(v, w) => v \in Nat
    BY DEF FitsIn
  <1> HIDE DEF e, g, L
  <1>5. \A v \in L : g[v] \in Seq(Byte) /\ Len(g[v]) = w
    BY <1>2, <1>3, NumberTyped
  <1>6. ASSUME NEW at \in Nat, at + w <= end PROVE e[at] \in L /\ Has(at, g[e[at]])
    <2>1. at + w <= Len(bytes)
      BY <1>6 DEF FileOK, Widths
    <2>2. FitsIn(UInt(at, w), w) /\ Span(at, at + w) = Number(UInt(at, w), w)
      BY <2>1, NumberRead
    <2> DEFINE b == Number(UInt(at, w), w)
    <2>3. b \in Seq(Byte) /\ Len(b) = w
      BY <2>2, NumberTyped
    <2> HIDE DEF b
    <2>4. Has(at, b)
      BY <1>6, <2>2, <2>3 DEF Has, b
    <2> QED BY <1>1, <1>2, <1>3, <1>4, <2>2, <2>4, Zenon DEF b
  <1>7. ASSUME NEW v \in L, NEW at \in Nat, Has(at, g[v]) PROVE e[at] = v
    <2>1. FitsIn(v, w) /\ g[v] = Number(v, w) /\ Len(Number(v, w)) = w
      BY <1>2, <1>3, NumberTyped
    <2>2. at + w <= end /\ Span(at, at + w) = Number(v, w)
      <3> DEFINE b == Number(v, w)
      <3>1. Len(b) = w /\ Has(at, b)
        BY <1>7, <2>1
      <3> HIDE DEF b
      <3>2. at + w <= end /\ Span(at, at + w) = b
        BY <3>1 DEF Has
      <3> QED BY <3>2 DEF b
    <2>3. at + w <= Len(bytes)
      BY <2>2 DEF FileOK, Widths
    <2> QED BY <1>1, <2>1, <2>2, <2>3, NumberReads
  <1> QED BY <1>5, <1>6, <1>7 DEF Codec, e, g, L

IdsLegal(v) == EntriesLegal(Ints(W32), v)
BlobLegal(v) == EntriesLegal(Ints(1), v)

LEMMA IdsForm == \A v : IdsLegal(v) => List(v, U32) = Entries(WriteNumber(W32), v)
  <1> SUFFICES ASSUME NEW v, IdsLegal(v) PROVE List(v, U32) = Entries(WriteNumber(W32), v)
    OBVIOUS
  <1>1. DOMAIN v = 1..Len(v) /\ \A i \in 1..Len(v) : v[i] \in Nat
    BY DEF IdsLegal, EntriesLegal, Ints
  <1>2. [i \in DOMAIN v |-> U32(v[i])] = [i \in 1..Len(v) |-> WriteNumber(W32)[v[i]]]
    BY <1>1 DEF WriteNumber, U32
  <1> QED BY <1>2, Zenon DEF List, Concat, Entries, Each

LEMMA BlobForm == \A v : BlobLegal(v) => List(v, U8) = Entries(WriteNumber(1), v)
  <1> SUFFICES ASSUME NEW v, BlobLegal(v) PROVE List(v, U8) = Entries(WriteNumber(1), v)
    OBVIOUS
  <1>1. DOMAIN v = 1..Len(v) /\ \A i \in 1..Len(v) : v[i] \in Nat
    BY DEF BlobLegal, EntriesLegal, Ints
  <1>2. [i \in DOMAIN v |-> U8(v[i])] = [i \in 1..Len(v) |-> WriteNumber(1)[v[i]]]
    BY <1>1 DEF WriteNumber, U8
  <1> QED BY <1>2, Zenon DEF List, Concat, Entries, Each

LEMMA NumbersRead ==
    ASSUME FileOK, NEW p \in Nat
    PROVE  /\ \A s : s \in IdList(p) <=> ReadsEntries(s, p, ReadNumber(W32), W32)
           /\ \A s : s \in Blob(p) <=> ReadsEntries(s, p, ReadNumber(1), 1)
  <1>1. ASSUME NEW w \in Nat
        PROVE  \A n \in Count(p, w) : \A i \in 1..n.val :
                  ReadNumber(w)[n.pos + (i - 1) * w] = UInt(n.pos + (i - 1) * w, w)
    <2> SUFFICES ASSUME NEW n \in Count(p, w), NEW i \in 1..n.val
                 PROVE  ReadNumber(w)[n.pos + (i - 1) * w] = UInt(n.pos + (i - 1) * w, w)
      OBVIOUS
    <2>1. FitsIn(n.val, W32) /\ Result(n, p, n.val, U32(n.val))
      BY CountReads
    <2>2. n.pos \in Nat /\ n.val \in Nat
      BY <2>1, ResultIs, EndsFacts DEF FitsIn
    <2>3. (i - 1) * w \in Nat
      BY <2>2
    <2> QED BY <2>2, <2>3 DEF ReadNumber
  <1>2. \A n \in Count(p, W32) :
          [i \in 1..n.val |-> ReadNumber(W32)[n.pos + (i - 1) * W32]]
          = [i \in 1..n.val |-> UInt(n.pos + (i - 1) * W32, W32)]
    <2>1. W32 \in Nat
      BY Sizes
    <2> QED BY <1>1, <2>1
  <1>3. \A n \in Count(p, 1) :
          [i \in 1..n.val |-> ReadNumber(1)[n.pos + (i - 1) * 1]]
          = [i \in 1..n.val |-> UInt(n.pos + (i - 1) * 1, 1)]
    <2>1. 1 \in Nat
      OBVIOUS
    <2> QED BY <1>1, <2>1
  <1>4. \A s : s \in IdList(p) <=> \E n \in Count(p, W32) :
               s = [val |-> [i \in 1..n.val |-> UInt(n.pos + (i - 1) * W32, W32)],
                    pos |-> n.pos + n.val * W32]
    BY Zenon DEF IdList, FixedList, Then, Good, ID_LEN
  <1>5. \A s : s \in Blob(p) <=> \E n \in Count(p, 1) :
               s = [val |-> [i \in 1..n.val |-> UInt(n.pos + (i - 1) * 1, 1)],
                    pos |-> n.pos + n.val * 1]
    BY Zenon DEF Blob, FixedList, Then, Good
  <1>6. \A s : s \in IdList(p) <=> ReadsEntries(s, p, ReadNumber(W32), W32)
    <2> DEFINE got(n) == [i \in 1..n.val |-> ReadNumber(W32)[n.pos + (i - 1) * W32]]
               read(n) == [i \in 1..n.val |-> UInt(n.pos + (i - 1) * W32, W32)]
    <2>1. \A n \in Count(p, W32) : got(n) = read(n)
      BY <1>2, Zenon
    <2>2. \A s : s \in IdList(p) <=> \E n \in Count(p, W32) : s = [val |-> read(n), pos |-> n.pos + n.val * W32]
      BY <1>4, Zenon
    <2>3. \A s : ReadsEntries(s, p, ReadNumber(W32), W32)
                 <=> \E n \in Count(p, W32) : s = [val |-> got(n), pos |-> n.pos + n.val * W32]
      BY Zenon DEF ReadsEntries
    <2> HIDE DEF got, read
    <2> QED BY <2>1, <2>2, <2>3, Zenon
  <1>7. \A s : s \in Blob(p) <=> ReadsEntries(s, p, ReadNumber(1), 1)
    <2> DEFINE got(n) == [i \in 1..n.val |-> ReadNumber(1)[n.pos + (i - 1) * 1]]
               read(n) == [i \in 1..n.val |-> UInt(n.pos + (i - 1) * 1, 1)]
    <2>1. \A n \in Count(p, 1) : got(n) = read(n)
      BY <1>3, Zenon
    <2>2. \A s : s \in Blob(p) <=> \E n \in Count(p, 1) : s = [val |-> read(n), pos |-> n.pos + n.val * 1]
      BY <1>5, Zenon
    <2>3. \A s : ReadsEntries(s, p, ReadNumber(1), 1)
                 <=> \E n \in Count(p, 1) : s = [val |-> got(n), pos |-> n.pos + n.val * 1]
      BY Zenon DEF ReadsEntries
    <2> HIDE DEF got, read
    <2> QED BY <2>1, <2>2, <2>3, Zenon
  <1> QED BY <1>6, <1>7

LEMMA IdsReads ==
    ASSUME FileOK, NEW p \in Nat
    PROVE  \A s : s \in IdList(p) <=> IdsLegal(s.val) /\ Result(s, p, s.val, List(s.val, U32))
  <1>1. W32 \in ChunkWidths
    BY Sizes DEF ChunkWidths
  <1>2. Codec(Ints(W32), ReadNumber(W32), WriteNumber(W32), W32)
    BY Sizes, NumberCodec
  <1>3. \A s : ReadsEntries(s, p, ReadNumber(W32), W32)
               <=> EntriesLegal(Ints(W32), s.val) /\ Result(s, p, s.val, Entries(WriteNumber(W32), s.val))
    BY <1>1, <1>2, EntriesRead
  <1> QED BY <1>3, NumbersRead, IdsForm, Zenon DEF IdsLegal

LEMMA BlobReads ==
    ASSUME FileOK, NEW p \in Nat
    PROVE  \A s : s \in Blob(p) <=> BlobLegal(s.val) /\ Result(s, p, s.val, List(s.val, U8))
  <1>1. 1 \in ChunkWidths
    BY DEF ChunkWidths
  <1>2. Codec(Ints(1), ReadNumber(1), WriteNumber(1), 1)
    BY Sizes, NumberCodec
  <1>3. \A s : ReadsEntries(s, p, ReadNumber(1), 1)
               <=> EntriesLegal(Ints(1), s.val) /\ Result(s, p, s.val, Entries(WriteNumber(1), s.val))
    BY <1>1, <1>2, EntriesRead
  <1> QED BY <1>3, NumbersRead, BlobForm, Zenon DEF BlobLegal

\* Lists of parameters.
PairSet == [value : Ints(W32), ty : Ints(W32)]
ReadPair == [at \in Nat |-> [value |-> UInt(at, W32), ty |-> UInt(at + W32, W32)]]
WritePair == [x \in PairSet |-> Pair(x)]
PairsLegal(v) == EntriesLegal(PairSet, v)

LEMMA PairCodec ==
    ASSUME FileOK
    PROVE  Codec(PairSet, ReadPair, WritePair, MIN_PARAM_LEN)
  <1>1. W32 \in Widths /\ W32 \in Nat /\ W32 = 2 /\ MIN_PARAM_LEN = 4
    BY Sizes DEF MIN_PARAM_LEN
  <1>2. /\ \A at \in Nat : at + W32 <= end => UInt(at, W32) \in Ints(W32) /\ Has(at, U32(UInt(at, W32)))
        /\ \A v \in Ints(W32) : U32(v) \in Seq(Byte) /\ Len(U32(v)) = W32
        /\ \A v \in Ints(W32) : \A at \in Nat : Has(at, U32(v)) => UInt(at, W32) = v
    <2>1. Codec(Ints(W32), ReadNumber(W32), WriteNumber(W32), W32)
      BY <1>1, NumberCodec
    <2>2. \A at \in Nat : ReadNumber(W32)[at] = UInt(at, W32)
      BY DEF ReadNumber
    <2>3. \A v \in Ints(W32) : WriteNumber(W32)[v] = U32(v)
      BY DEF WriteNumber, U32, Ints
    <2> DEFINE L == Ints(W32)
               e == ReadNumber(W32)
               g == WriteNumber(W32)
    <2>4. /\ \A at \in Nat : at + W32 <= end => e[at] \in L /\ Has(at, g[e[at]])
          /\ \A v \in L : g[v] \in Seq(Byte) /\ Len(g[v]) = W32
          /\ \A v \in L : \A at \in Nat : Has(at, g[v]) => e[at] = v
      BY <2>1 DEF Codec
    <2> HIDE DEF L, e, g
    <2>5. \A at \in Nat : e[at] = UInt(at, W32)
      BY <2>2 DEF e
    <2>6. \A v \in L : g[v] = U32(v)
      BY <2>3 DEF g, L
    <2>7. ASSUME NEW at \in Nat, at + W32 <= end
          PROVE  UInt(at, W32) \in L /\ Has(at, U32(UInt(at, W32)))
      BY <2>4, <2>5, <2>6, <2>7
    <2>8. \A v \in L : U32(v) \in Seq(Byte) /\ Len(U32(v)) = W32
      BY <2>4, <2>6
    <2>9. \A v \in L : \A at \in Nat : Has(at, U32(v)) => UInt(at, W32) = v
      BY <2>4, <2>5, <2>6
    <2> QED BY <2>7, <2>8, <2>9, Zenon DEF L
  <1>3. \A x \in PairSet : WritePair[x] = U32(x.value) \o U32(x.ty) /\ x.value \in Ints(W32) /\ x.ty \in Ints(W32)
    BY DEF WritePair, PairSet, Pair
  <1>4. \A x \in PairSet : WritePair[x] \in Seq(Byte) /\ Len(WritePair[x]) = MIN_PARAM_LEN
    <2> SUFFICES ASSUME NEW x \in PairSet PROVE WritePair[x] \in Seq(Byte) /\ Len(WritePair[x]) = MIN_PARAM_LEN
      OBVIOUS
    <2>1. /\ U32(x.value) \in Seq(Byte) /\ Len(U32(x.value)) = W32
          /\ U32(x.ty) \in Seq(Byte) /\ Len(U32(x.ty)) = W32
      BY <1>2, <1>3
    <2>2. WritePair[x] \in Seq(Byte) /\ Len(WritePair[x]) = W32 + W32
      BY <1>3, <2>1, ConcatTyped, Zenon
    <2> QED BY <1>1, <2>2
  <1>5. ASSUME NEW at \in Nat, at + MIN_PARAM_LEN <= end
        PROVE  ReadPair[at] \in PairSet /\ Has(at, WritePair[ReadPair[at]])
    <2> DEFINE x == ReadPair[at]
               to == at + W32
    <2>1. to \in Nat /\ to = at + W32 /\ at + W32 <= end /\ to + W32 <= end
      BY <1>1, <1>5 DEF FileOK
    <2> HIDE DEF to
    <2>2. x = [value |-> UInt(at, W32), ty |-> UInt(to, W32)]
      BY <2>1 DEF ReadPair
    <2>3. x.value = UInt(at, W32) /\ x.ty = UInt(to, W32)
      BY <2>2
    <2>4. x.value \in Ints(W32) /\ x.ty \in Ints(W32) /\ Has(at, U32(x.value)) /\ Has(to, U32(x.ty))
      BY <1>2, <2>1, <2>3
    <2>5. x \in PairSet
      BY <2>2, <2>3, <2>4 DEF PairSet
    <2> HIDE DEF x
    <2>6. /\ U32(x.value) \in Seq(Byte) /\ Len(U32(x.value)) = W32
          /\ U32(x.ty) \in Seq(Byte) /\ Len(U32(x.ty)) = W32
      BY <1>2, <2>4
    <2>7. Has(at + Len(U32(x.value)), U32(x.ty))
      BY <2>1, <2>4, <2>6
    <2>8. Has(at, U32(x.value) \o U32(x.ty))
      BY <2>4, <2>6, <2>7, HasJoins
    <2> QED BY <1>3, <2>5, <2>8 DEF x
  <1>6. ASSUME NEW x \in PairSet, NEW at \in Nat, Has(at, WritePair[x]) PROVE ReadPair[at] = x
    <2>1. /\ U32(x.value) \in Seq(Byte) /\ Len(U32(x.value)) = W32
          /\ U32(x.ty) \in Seq(Byte) /\ Len(U32(x.ty)) = W32
      BY <1>2, <1>3
    <2>2. Has(at, U32(x.value)) /\ Has(at + Len(U32(x.value)), U32(x.ty))
      <3>1. Has(at, U32(x.value) \o U32(x.ty))
        BY <1>3, <1>6, Zenon
      <3> QED BY <2>1, <3>1, HasJoins
    <2> DEFINE to == at + W32
    <2>3. to \in Nat /\ Has(to, U32(x.ty))
      BY <1>1, <2>1, <2>2
    <2>4. UInt(at, W32) = x.value /\ UInt(to, W32) = x.ty
      BY <1>2, <1>3, <2>2, <2>3, Zenon
    <2>5. x = [value |-> x.value, ty |-> x.ty]
      BY DEF PairSet
    <2> HIDE DEF to
    <2>6. ReadPair[at] = [value |-> UInt(at, W32), ty |-> UInt(to, W32)]
      BY DEF ReadPair, to
    <2> QED BY <2>4, <2>5, <2>6
  <1> QED BY <1>4, <1>5, <1>6 DEF Codec

LEMMA PairsForm == \A v : PairsLegal(v) => List(v, Pair) = Entries(WritePair, v)
  <1> SUFFICES ASSUME NEW v, PairsLegal(v) PROVE List(v, Pair) = Entries(WritePair, v)
    OBVIOUS
  <1>1. DOMAIN v = 1..Len(v) /\ \A i \in 1..Len(v) : v[i] \in PairSet
    BY DEF PairsLegal, EntriesLegal
  <1>2. \A i \in 1..Len(v) : WritePair[v[i]] = Pair(v[i])
    BY <1>1 DEF WritePair
  <1>3. [i \in DOMAIN v |-> Pair(v[i])] = [i \in 1..Len(v) |-> WritePair[v[i]]]
    BY <1>1, <1>2, Zenon
  <1> QED BY <1>3, Zenon DEF List, Concat, Entries, Each

LEMMA PairsReads ==
    ASSUME FileOK, NEW p \in Nat
    PROVE  \A s : s \in Pairs(p) <=> PairsLegal(s.val) /\ Result(s, p, s.val, List(s.val, Pair))
  <1> DEFINE w == MIN_PARAM_LEN
  <1>1. w \in ChunkWidths /\ w \in Nat
    BY Sizes DEF ChunkWidths, MIN_PARAM_LEN
  <1>2. Codec(PairSet, ReadPair, WritePair, w)
    BY PairCodec
  <1>3. \A s : ReadsEntries(s, p, ReadPair, w)
               <=> EntriesLegal(PairSet, s.val) /\ Result(s, p, s.val, Entries(WritePair, s.val))
    BY <1>1, <1>2, EntriesRead
  <1>4. ASSUME NEW n \in Count(p, w), NEW i \in 1..n.val
        PROVE  ReadPair[n.pos + (i - 1) * w] = [value |-> UInt(n.pos + (i - 1) * w, W32),
                                                ty |-> UInt(n.pos + (i - 1) * w + W32, W32)]
    <2>1. FitsIn(n.val, W32) /\ Result(n, p, n.val, U32(n.val))
      BY <1>1, CountReads
    <2>2. n.pos \in Nat /\ n.val \in Nat
      BY <2>1, ResultIs, EndsFacts DEF FitsIn
    <2>3. (i - 1) * w \in Nat
      BY <1>1, <2>2
    <2> DEFINE at == n.pos + (i - 1) * w
    <2>4. at \in Nat
      BY <2>2, <2>3
    <2> HIDE DEF at
    <2> QED BY <2>4 DEF ReadPair, at
  <1>5. \A n \in Count(p, w) :
          [i \in 1..n.val |-> ReadPair[n.pos + (i - 1) * w]]
          = [i \in 1..n.val |-> [value |-> UInt(n.pos + (i - 1) * w, W32),
                                 ty |-> UInt(n.pos + (i - 1) * w + W32, W32)]]
    BY <1>4, Zenon
  <1>6. \A s : s \in Pairs(p) <=> \E n \in Count(p, w) :
               s = [val |-> [i \in 1..n.val |-> [value |-> UInt(n.pos + (i - 1) * w, W32),
                                                 ty |-> UInt(n.pos + (i - 1) * w + W32, W32)]],
                    pos |-> n.pos + n.val * w]
    BY Zenon DEF Pairs, FixedList, Then, Good
  <1>7. \A s : s \in Pairs(p) <=> ReadsEntries(s, p, ReadPair, w)
    <2> DEFINE got(n) == [i \in 1..n.val |-> ReadPair[n.pos + (i - 1) * w]]
               read(n) == [i \in 1..n.val |-> [value |-> UInt(n.pos + (i - 1) * w, W32),
                                                ty |-> UInt(n.pos + (i - 1) * w + W32, W32)]]
    <2>1. \A n \in Count(p, w) : got(n) = read(n)
      BY <1>5, Zenon
    <2>2. \A s : s \in Pairs(p) <=> \E n \in Count(p, w) : s = [val |-> read(n), pos |-> n.pos + n.val * w]
      BY <1>6, Zenon
    <2>3. \A s : ReadsEntries(s, p, ReadPair, w)
                 <=> \E n \in Count(p, w) : s = [val |-> got(n), pos |-> n.pos + n.val * w]
      BY Zenon DEF ReadsEntries
    <2> HIDE DEF got, read
    <2> QED BY <2>1, <2>2, <2>3, Zenon
  <1> QED BY <1>3, <1>7, PairsForm, Zenon DEF PairsLegal

-----------------------------------------------------------------------------
(* Fields                                                                  *)

Hows ==
    {"u8", "u16", "u32", "u64", "u128", "bool", "opt", "blob", "ids", "pairs", "float", "linkage",
     "abi", "symbol", "opt symbol"}

\* What a field can hold, by how it is read, and its bytes.
Legal(how, v) ==
    /\ how = "u8" => FitsIn(v, 1)
    /\ how = "u16" => FitsIn(v, W16)
    /\ how = "u32" => FitsIn(v, W32)
    /\ how = "u64" => FitsIn(v, W64)
    /\ how = "u128" => FitsIn(v, W128)
    /\ how = "bool" => IsBool(v)
    /\ how = "opt" => OptLegal(v)
    /\ how = "blob" => BlobLegal(v)
    /\ how = "ids" => IdsLegal(v)
    /\ how = "pairs" => PairsLegal(v)
    /\ how = "float" => InTable(FloatKinds, v)
    /\ how = "linkage" => InTable(LinkageTags, v)
    /\ how = "abi" => AbiLegal(v)
    /\ how = "symbol" => SymLegal(v)
    /\ how = "opt symbol" => OptSymLegal(v)
HowBytes(how, v) ==
    CASE how = "u8" -> Number(v, 1)
      [] how = "u16" -> Number(v, W16)
      [] how = "u32" -> Number(v, W32)
      [] how = "u64" -> Number(v, W64)
      [] how = "u128" -> Number(v, W128)
      [] how = "bool" -> BoolBytes(v)
      [] how = "opt" -> Opt(v)
      [] how = "blob" -> List(v, U8)
      [] how = "ids" -> List(v, U32)
      [] how = "pairs" -> List(v, Pair)
      [] how = "float" -> U8(CodeOf(FloatKinds, v))
      [] how = "linkage" -> U8(CodeOf(LinkageTags, v))
      [] how = "abi" -> AbiBytes(v)
      [] how = "symbol" -> U32(v)
      [] how = "opt symbol" -> Opt(v)

LEMMA FieldForms ==
    \A p, v :
      /\ Field("u8", p) = Fixed(p, 1) /\ HowBytes("u8", v) = Number(v, 1)
      /\ Field("u16", p) = Fixed(p, W16) /\ HowBytes("u16", v) = Number(v, W16)
      /\ Field("u32", p) = Fixed(p, W32) /\ HowBytes("u32", v) = Number(v, W32)
      /\ Field("u64", p) = Fixed(p, W64) /\ HowBytes("u64", v) = Number(v, W64)
      /\ Field("u128", p) = Fixed(p, W128) /\ HowBytes("u128", v) = Number(v, W128)
      /\ Field("bool", p) = Bool(p) /\ HowBytes("bool", v) = BoolBytes(v)
      /\ Field("opt", p) = OptU32(p) /\ HowBytes("opt", v) = Opt(v)
      /\ Field("blob", p) = Blob(p) /\ HowBytes("blob", v) = List(v, U8)
      /\ Field("ids", p) = IdList(p) /\ HowBytes("ids", v) = List(v, U32)
      /\ Field("pairs", p) = Pairs(p) /\ HowBytes("pairs", v) = List(v, Pair)
      /\ Field("float", p) = Tag(p, FloatKinds) /\ HowBytes("float", v) = U8(CodeOf(FloatKinds, v))
      /\ Field("linkage", p) = Tag(p, LinkageTags) /\ HowBytes("linkage", v) = U8(CodeOf(LinkageTags, v))
      /\ Field("abi", p) = AbiAt(p) /\ HowBytes("abi", v) = AbiBytes(v)
      /\ Field("symbol", p) = Symbol(p) /\ HowBytes("symbol", v) = U32(v)
      /\ Field("opt symbol", p) = OptSymbol(p) /\ HowBytes("opt symbol", v) = Opt(v)
  <1> SUFFICES ASSUME NEW p, NEW v PROVE
      /\ Field("u8", p) = Fixed(p, 1) /\ HowBytes("u8", v) = Number(v, 1)
      /\ Field("u16", p) = Fixed(p, W16) /\ HowBytes("u16", v) = Number(v, W16)
      /\ Field("u32", p) = Fixed(p, W32) /\ HowBytes("u32", v) = Number(v, W32)
      /\ Field("u64", p) = Fixed(p, W64) /\ HowBytes("u64", v) = Number(v, W64)
      /\ Field("u128", p) = Fixed(p, W128) /\ HowBytes("u128", v) = Number(v, W128)
      /\ Field("bool", p) = Bool(p) /\ HowBytes("bool", v) = BoolBytes(v)
      /\ Field("opt", p) = OptU32(p) /\ HowBytes("opt", v) = Opt(v)
      /\ Field("blob", p) = Blob(p) /\ HowBytes("blob", v) = List(v, U8)
      /\ Field("ids", p) = IdList(p) /\ HowBytes("ids", v) = List(v, U32)
      /\ Field("pairs", p) = Pairs(p) /\ HowBytes("pairs", v) = List(v, Pair)
      /\ Field("float", p) = Tag(p, FloatKinds) /\ HowBytes("float", v) = U8(CodeOf(FloatKinds, v))
      /\ Field("linkage", p) = Tag(p, LinkageTags) /\ HowBytes("linkage", v) = U8(CodeOf(LinkageTags, v))
      /\ Field("abi", p) = AbiAt(p) /\ HowBytes("abi", v) = AbiBytes(v)
      /\ Field("symbol", p) = Symbol(p) /\ HowBytes("symbol", v) = U32(v)
      /\ Field("opt symbol", p) = OptSymbol(p) /\ HowBytes("opt symbol", v) = Opt(v)
    OBVIOUS
  <1>1. Field("u8", p) = Fixed(p, 1) /\ HowBytes("u8", v) = Number(v, 1)
    BY DEF Field, HowBytes
  <1>2. Field("u16", p) = Fixed(p, W16) /\ HowBytes("u16", v) = Number(v, W16)
    BY DEF Field, HowBytes
  <1>3. Field("u32", p) = Fixed(p, W32) /\ HowBytes("u32", v) = Number(v, W32)
    BY DEF Field, HowBytes
  <1>4. Field("u64", p) = Fixed(p, W64) /\ HowBytes("u64", v) = Number(v, W64)
    BY DEF Field, HowBytes
  <1>5. Field("u128", p) = Fixed(p, W128) /\ HowBytes("u128", v) = Number(v, W128)
    BY DEF Field, HowBytes
  <1>6. Field("bool", p) = Bool(p) /\ HowBytes("bool", v) = BoolBytes(v)
    BY DEF Field, HowBytes
  <1>7. Field("opt", p) = OptU32(p) /\ HowBytes("opt", v) = Opt(v)
    BY DEF Field, HowBytes
  <1>8. Field("blob", p) = Blob(p) /\ HowBytes("blob", v) = List(v, U8)
    BY DEF Field, HowBytes
  <1>9. Field("ids", p) = IdList(p) /\ HowBytes("ids", v) = List(v, U32)
    BY DEF Field, HowBytes
  <1>10. Field("pairs", p) = Pairs(p) /\ HowBytes("pairs", v) = List(v, Pair)
    BY DEF Field, HowBytes
  <1>11. Field("float", p) = Tag(p, FloatKinds) /\ HowBytes("float", v) = U8(CodeOf(FloatKinds, v))
    BY DEF Field, HowBytes
  <1>12. Field("linkage", p) = Tag(p, LinkageTags) /\ HowBytes("linkage", v) = U8(CodeOf(LinkageTags, v))
    BY DEF Field, HowBytes
  <1>13. Field("abi", p) = AbiAt(p) /\ HowBytes("abi", v) = AbiBytes(v)
    BY DEF Field, HowBytes
  <1>14. Field("symbol", p) = Symbol(p) /\ HowBytes("symbol", v) = U32(v)
    BY DEF Field, HowBytes
  <1>15. Field("opt symbol", p) = OptSymbol(p) /\ HowBytes("opt symbol", v) = Opt(v)
    BY DEF Field, HowBytes
  <1> QED BY <1>1, <1>2, <1>3, <1>4, <1>5, <1>6, <1>7, <1>8, <1>9, <1>10, <1>11, <1>12, <1>13, <1>14, <1>15, Zenon

LEMMA FieldReads ==
    ASSUME FileOK, NEW p \in Nat, NEW how \in Hows
    PROVE  \A s : s \in Field(how, p) <=> Legal(how, s.val) /\ Result(s, p, s.val, HowBytes(how, s.val))
  <1>1. CASE how = "u8"
    <2>1. \A s : s \in Fixed(p, 1) <=> FitsIn(s.val, 1) /\ Result(s, p, s.val, Number(s.val, 1))
      BY FixedReads, Sizes
    <2>2. \A v : Legal(how, v) <=> FitsIn(v, 1)
      BY <1>1 DEF Legal
    <2> QED BY <1>1, <2>1, <2>2, FieldForms, Zenon
  <1>2. CASE how = "u16"
    <2>1. \A s : s \in Fixed(p, W16) <=> FitsIn(s.val, W16) /\ Result(s, p, s.val, Number(s.val, W16))
      BY FixedReads, Sizes
    <2>2. \A v : Legal(how, v) <=> FitsIn(v, W16)
      BY <1>2 DEF Legal
    <2> QED BY <1>2, <2>1, <2>2, FieldForms, Zenon
  <1>3. CASE how = "u32"
    <2>1. \A s : s \in Fixed(p, W32) <=> FitsIn(s.val, W32) /\ Result(s, p, s.val, Number(s.val, W32))
      BY FixedReads, Sizes
    <2>2. \A v : Legal(how, v) <=> FitsIn(v, W32)
      BY <1>3 DEF Legal
    <2> QED BY <1>3, <2>1, <2>2, FieldForms, Zenon
  <1>4. CASE how = "u64"
    <2>1. \A s : s \in Fixed(p, W64) <=> FitsIn(s.val, W64) /\ Result(s, p, s.val, Number(s.val, W64))
      BY FixedReads, Sizes
    <2>2. \A v : Legal(how, v) <=> FitsIn(v, W64)
      BY <1>4 DEF Legal
    <2> QED BY <1>4, <2>1, <2>2, FieldForms, Zenon
  <1>5. CASE how = "u128"
    <2>1. \A s : s \in Fixed(p, W128) <=> FitsIn(s.val, W128) /\ Result(s, p, s.val, Number(s.val, W128))
      BY FixedReads, Sizes
    <2>2. \A v : Legal(how, v) <=> FitsIn(v, W128)
      BY <1>5 DEF Legal
    <2> QED BY <1>5, <2>1, <2>2, FieldForms, Zenon
  <1>6. CASE how = "bool"
    <2>1. \A s : s \in Bool(p) <=> IsBool(s.val) /\ Result(s, p, s.val, BoolBytes(s.val))
      BY BoolReads
    <2>2. \A v : Legal(how, v) <=> IsBool(v)
      BY <1>6 DEF Legal
    <2> QED BY <1>6, <2>1, <2>2, FieldForms, Zenon
  <1>7. CASE how = "opt"
    <2>1. \A s : s \in OptU32(p) <=> OptLegal(s.val) /\ Result(s, p, s.val, Opt(s.val))
      BY OptReads
    <2>2. \A v : Legal(how, v) <=> OptLegal(v)
      BY <1>7 DEF Legal
    <2> QED BY <1>7, <2>1, <2>2, FieldForms, Zenon
  <1>8. CASE how = "blob"
    <2>1. \A s : s \in Blob(p) <=> BlobLegal(s.val) /\ Result(s, p, s.val, List(s.val, U8))
      BY BlobReads
    <2>2. \A v : Legal(how, v) <=> BlobLegal(v)
      BY <1>8 DEF Legal
    <2> QED BY <1>8, <2>1, <2>2, FieldForms, Zenon
  <1>9. CASE how = "ids"
    <2>1. \A s : s \in IdList(p) <=> IdsLegal(s.val) /\ Result(s, p, s.val, List(s.val, U32))
      BY IdsReads
    <2>2. \A v : Legal(how, v) <=> IdsLegal(v)
      BY <1>9 DEF Legal
    <2> QED BY <1>9, <2>1, <2>2, FieldForms, Zenon
  <1>10. CASE how = "pairs"
    <2>1. \A s : s \in Pairs(p) <=> PairsLegal(s.val) /\ Result(s, p, s.val, List(s.val, Pair))
      BY PairsReads
    <2>2. \A v : Legal(how, v) <=> PairsLegal(v)
      BY <1>10 DEF Legal
    <2> QED BY <1>10, <2>1, <2>2, FieldForms, Zenon
  <1>11. CASE how = "float"
    <2>1. \A s : s \in Tag(p, FloatKinds) <=> InTable(FloatKinds, s.val) /\ Result(s, p, s.val, U8(CodeOf(FloatKinds, s.val)))
      BY SmallTables, TagReads
    <2>2. \A v : Legal(how, v) <=> InTable(FloatKinds, v)
      BY <1>11 DEF Legal
    <2> QED BY <1>11, <2>1, <2>2, FieldForms, Zenon
  <1>12. CASE how = "linkage"
    <2>1. \A s : s \in Tag(p, LinkageTags) <=> InTable(LinkageTags, s.val) /\ Result(s, p, s.val, U8(CodeOf(LinkageTags, s.val)))
      BY SmallTables, TagReads
    <2>2. \A v : Legal(how, v) <=> InTable(LinkageTags, v)
      BY <1>12 DEF Legal
    <2> QED BY <1>12, <2>1, <2>2, FieldForms, Zenon
  <1>13. CASE how = "abi"
    <2>1. \A s : s \in AbiAt(p) <=> AbiLegal(s.val) /\ Result(s, p, s.val, AbiBytes(s.val))
      BY AbiReads
    <2>2. \A v : Legal(how, v) <=> AbiLegal(v)
      BY <1>13 DEF Legal
    <2> QED BY <1>13, <2>1, <2>2, FieldForms, Zenon
  <1>14. CASE how = "symbol"
    <2>1. \A s : s \in Symbol(p) <=> SymLegal(s.val) /\ Result(s, p, s.val, U32(s.val))
      BY SymbolReads
    <2>2. \A v : Legal(how, v) <=> SymLegal(v)
      BY <1>14 DEF Legal
    <2> QED BY <1>14, <2>1, <2>2, FieldForms, Zenon
  <1>15. CASE how = "opt symbol"
    <2>1. \A s : s \in OptSymbol(p) <=> OptSymLegal(s.val) /\ Result(s, p, s.val, Opt(s.val))
      BY SymbolReads
    <2>2. \A v : Legal(how, v) <=> OptSymLegal(v)
      BY <1>15 DEF Legal
    <2> QED BY <1>15, <2>1, <2>2, FieldForms, Zenon
  <1> QED BY <1>1, <1>2, <1>3, <1>4, <1>5, <1>6, <1>7, <1>8, <1>9, <1>10, <1>11, <1>12, <1>13, <1>14, <1>15 DEF Hows

LEMMA ListsTyped ==
    ASSUME FileOK, NEW v
    PROVE  /\ BlobLegal(v) => List(v, U8) \in Seq(Byte) /\ Len(List(v, U8)) = W32 + Len(v)
           /\ IdsLegal(v) => List(v, U32) \in Seq(Byte) /\ Len(List(v, U32)) = W32 + Len(v) * W32
           /\ PairsLegal(v) => List(v, Pair) \in Seq(Byte) /\ Len(List(v, Pair)) = W32 + Len(v) * MIN_PARAM_LEN
  <1>1. 1 \in ChunkWidths /\ W32 \in ChunkWidths /\ MIN_PARAM_LEN \in ChunkWidths
    BY Sizes DEF ChunkWidths, MIN_PARAM_LEN
  <1>2. ASSUME BlobLegal(v) PROVE List(v, U8) \in Seq(Byte) /\ Len(List(v, U8)) = W32 + Len(v)
    <2>1. Codec(Ints(1), ReadNumber(1), WriteNumber(1), 1)
      BY Sizes, NumberCodec
    <2>2. /\ Entries(WriteNumber(1), v) \in Seq(Byte)
          /\ Len(Entries(WriteNumber(1), v)) = W32 + Len(v) * 1
      BY <1>1, <1>2, <2>1, EntriesTyped DEF BlobLegal
    <2>3. Len(v) * 1 = Len(v)
      BY <1>2 DEF BlobLegal, EntriesLegal
    <2> QED BY <1>2, <2>2, <2>3, BlobForm
  <1>3. ASSUME IdsLegal(v) PROVE List(v, U32) \in Seq(Byte) /\ Len(List(v, U32)) = W32 + Len(v) * W32
    <2>1. Codec(Ints(W32), ReadNumber(W32), WriteNumber(W32), W32)
      BY Sizes, NumberCodec
    <2>2. /\ Entries(WriteNumber(W32), v) \in Seq(Byte)
          /\ Len(Entries(WriteNumber(W32), v)) = W32 + Len(v) * W32
      BY <1>1, <1>3, <2>1, EntriesTyped DEF IdsLegal
    <2> QED BY <1>3, <2>2, IdsForm, Zenon
  <1>4. ASSUME PairsLegal(v) PROVE List(v, Pair) \in Seq(Byte) /\ Len(List(v, Pair)) = W32 + Len(v) * MIN_PARAM_LEN
    <2>1. /\ Entries(WritePair, v) \in Seq(Byte)
          /\ Len(Entries(WritePair, v)) = W32 + Len(v) * MIN_PARAM_LEN
      BY <1>1, <1>4, PairCodec, EntriesTyped DEF PairsLegal
    <2> QED BY <1>4, <2>1, PairsForm, Zenon
  <1> QED BY <1>2, <1>3, <1>4

LEMMA FieldTyped ==
    ASSUME FileOK, NEW how \in Hows, NEW v, Legal(how, v)
    PROVE  HowBytes(how, v) \in Seq(Byte)
  <1>1. CASE how = "u8"
    <2>1. FitsIn(v, 1)
      BY <1>1 DEF Legal
    <2>2. Number(v, 1) \in Seq(Byte)
      BY <2>1, Sizes, NumberTyped
    <2> QED BY <1>1, <2>2, FieldForms, Zenon
  <1>2. CASE how = "u16"
    <2>1. FitsIn(v, W16)
      BY <1>2 DEF Legal
    <2>2. Number(v, W16) \in Seq(Byte)
      BY <2>1, Sizes, NumberTyped
    <2> QED BY <1>2, <2>2, FieldForms, Zenon
  <1>3. CASE how = "u32"
    <2>1. FitsIn(v, W32)
      BY <1>3 DEF Legal
    <2>2. Number(v, W32) \in Seq(Byte)
      BY <2>1, Sizes, NumberTyped
    <2> QED BY <1>3, <2>2, FieldForms, Zenon
  <1>4. CASE how = "u64"
    <2>1. FitsIn(v, W64)
      BY <1>4 DEF Legal
    <2>2. Number(v, W64) \in Seq(Byte)
      BY <2>1, Sizes, NumberTyped
    <2> QED BY <1>4, <2>2, FieldForms, Zenon
  <1>5. CASE how = "u128"
    <2>1. FitsIn(v, W128)
      BY <1>5 DEF Legal
    <2>2. Number(v, W128) \in Seq(Byte)
      BY <2>1, Sizes, NumberTyped
    <2> QED BY <1>5, <2>2, FieldForms, Zenon
  <1>6. CASE how = "bool"
    <2>1. IsBool(v)
      BY <1>6 DEF Legal
    <2>2. BoolBytes(v) \in Seq(Byte)
      BY <2>1, BoolTyped DEF IsBool
    <2> QED BY <1>6, <2>2, FieldForms, Zenon
  <1>7. CASE how = "opt"
    <2>1. OptLegal(v)
      BY <1>7 DEF Legal
    <2>2. Opt(v) \in Seq(Byte)
      BY <2>1, OptTyped
    <2> QED BY <1>7, <2>2, FieldForms, Zenon
  <1>8. CASE how = "blob"
    <2>1. BlobLegal(v)
      BY <1>8 DEF Legal
    <2>2. List(v, U8) \in Seq(Byte)
      BY <2>1, ListsTyped
    <2> QED BY <1>8, <2>2, FieldForms, Zenon
  <1>9. CASE how = "ids"
    <2>1. IdsLegal(v)
      BY <1>9 DEF Legal
    <2>2. List(v, U32) \in Seq(Byte)
      BY <2>1, ListsTyped
    <2> QED BY <1>9, <2>2, FieldForms, Zenon
  <1>10. CASE how = "pairs"
    <2>1. PairsLegal(v)
      BY <1>10 DEF Legal
    <2>2. List(v, Pair) \in Seq(Byte)
      BY <2>1, ListsTyped
    <2> QED BY <1>10, <2>2, FieldForms, Zenon
  <1>11. CASE how = "float"
    <2>1. InTable(FloatKinds, v)
      BY <1>11 DEF Legal
    <2>2. U8(CodeOf(FloatKinds, v)) \in Seq(Byte)
      BY <2>1, SmallTables, TagTyped
    <2> QED BY <1>11, <2>2, FieldForms, Zenon
  <1>12. CASE how = "linkage"
    <2>1. InTable(LinkageTags, v)
      BY <1>12 DEF Legal
    <2>2. U8(CodeOf(LinkageTags, v)) \in Seq(Byte)
      BY <2>1, SmallTables, TagTyped
    <2> QED BY <1>12, <2>2, FieldForms, Zenon
  <1>13. CASE how = "abi"
    <2>1. AbiLegal(v)
      BY <1>13 DEF Legal
    <2>2. AbiBytes(v) \in Seq(Byte)
      BY <2>1, AbiTyped
    <2> QED BY <1>13, <2>2, FieldForms, Zenon
  <1>14. CASE how = "symbol"
    <2>1. SymLegal(v)
      BY <1>14 DEF Legal
    <2>2. U32(v) \in Seq(Byte)
      BY <2>1, Sizes, NumberTyped DEF U32, SymLegal
    <2> QED BY <1>14, <2>2, FieldForms, Zenon
  <1>15. CASE how = "opt symbol"
    <2>1. OptSymLegal(v)
      BY <1>15 DEF Legal
    <2>2. Opt(v) \in Seq(Byte)
      BY <2>1, OptTyped DEF OptSymLegal
    <2> QED BY <1>15, <2>2, FieldForms, Zenon
  <1> QED BY <1>1, <1>2, <1>3, <1>4, <1>5, <1>6, <1>7, <1>8, <1>9, <1>10, <1>11, <1>12, <1>13, <1>14, <1>15 DEF Hows

-----------------------------------------------------------------------------
(* Records                                                                 *)

Names(fields, n) == {fields[i][1] : i \in 1..n}

\* Fields that can be read one after the other into record.
FieldsOK(fields, record) ==
    /\ Len(fields) \in Nat
    /\ record = [x \in DOMAIN record |-> record[x]]
    /\ \A i \in 1..Len(fields) : fields[i][2] \in Hows /\ fields[i][1] \notin DOMAIN record
    /\ \A i, j \in 1..Len(fields) : fields[i][1] = fields[j][1] => i = j

\* r is record with the first n fields.
Fills(fields, record, n, r) ==
    /\ r = [x \in DOMAIN record \cup Names(fields, n) |-> IF x \in DOMAIN record THEN record[x] ELSE r[x]]
    /\ \A i \in 1..n : Legal(fields[i][2], r[fields[i][1]])

FieldBytesOf(fields, r, i) == HowBytes(fields[i][2], r[fields[i][1]])
Bs(fields, r, n) == [i \in 1..n |-> FieldBytesOf(fields, r, i)]
RecordBytes(fields, r) == FlattenSeq(Bs(fields, r, Len(fields)))

\* One more field.
FieldStep(fields, R, n) ==
    Then(R, LAMBDA s :
    Then(Field(fields[n][2], s.pos), LAMBDA v :
        Good(With(s.val, fields[n][1], v.val), v.pos)))
IsRead(f, p, fields, record, k) ==
    f = [n \in 0..k |-> IF n = 0 THEN Good(record, p) ELSE FieldStep(fields, f[n - 1], n)]

LEMMA IsReadStep ==
    ASSUME NEW f, NEW p, NEW fields, NEW record, NEW k \in Nat, IsRead(f, p, fields, record, k)
    PROVE  /\ DOMAIN f = 0..k
           /\ f[0] = Good(record, p)
           /\ \A n \in 1..k : f[n] = FieldStep(fields, f[n - 1], n)
  <1> DEFINE g == [n \in 0..k |-> IF n = 0 THEN Good(record, p) ELSE FieldStep(fields, f[n - 1], n)]
  <1>1. f = g
    BY DEF IsRead
  <1>2. /\ DOMAIN g = 0..k
        /\ \A n \in 0..k : g[n] = IF n = 0 THEN Good(record, p) ELSE FieldStep(fields, f[n - 1], n)
    OBVIOUS
  <1> HIDE DEF g
  <1>3. 0 \in 0..k /\ \A n \in 1..k : n \in 0..k /\ n # 0
    OBVIOUS
  <1> QED BY <1>1, <1>2, <1>3

LEMMA IsReadExists ==
    ASSUME NEW p, NEW fields, NEW record, NEW k \in Nat
    PROVE  \E f : IsRead(f, p, fields, record, k)
  <1> DEFINE good == {n \in 0..k : \E f : IsRead(f, p, fields, record, n)}
  <1>1. 0 \in good
    <2> DEFINE f == [n \in 0..0 |-> Good(record, p)]
    <2>1. f = [n \in 0..0 |-> IF n = 0 THEN Good(record, p) ELSE FieldStep(fields, f[n - 1], n)]
      OBVIOUS
    <2>2. 0 \in 0..k
      OBVIOUS
    <2> HIDE DEF f
    <2> QED BY <2>1, <2>2, Zenon DEF IsRead
  <1>2. ASSUME NEW n \in 1..k, n - 1 \in good PROVE n \in good
    <2>1. PICK f : IsRead(f, p, fields, record, n - 1)
      BY <1>2
    <2> DEFINE m == n - 1
    <2>2. /\ m \in Nat /\ n \in 0..k /\ n # 0 /\ 0 \in 0..n
          /\ \A i \in 0..n : i # 0 => i \in 1..n /\ i - 1 \in 0..m
          /\ \A i \in 0..m : i # 0 => i \in 1..m
      OBVIOUS
    <2>3. f[0] = Good(record, p) /\ \A i \in 1..m : f[i] = FieldStep(fields, f[i - 1], i)
      <3> IsRead(f, p, fields, record, m)
        BY <2>1
      <3> HIDE DEF m
      <3> QED BY <2>2, IsReadStep
    <2> DEFINE g == [i \in 0..n |-> IF i = 0 THEN Good(record, p) ELSE FieldStep(fields, f[i - 1], i)]
    <2> HIDE DEF m
    <2>4. \A i \in 0..m : g[i] = f[i]
      <3> SUFFICES ASSUME NEW i \in 0..m PROVE g[i] = f[i]
        OBVIOUS
      <3>1. i \in 0..n
        BY <2>2 DEF m
      <3>2. g[i] = IF i = 0 THEN Good(record, p) ELSE FieldStep(fields, f[i - 1], i)
        BY <3>1
      <3> QED BY <2>2, <2>3, <3>2
    <2> DEFINE h == [i \in 0..n |-> IF i = 0 THEN Good(record, p) ELSE FieldStep(fields, g[i - 1], i)]
    <2>5. \A i \in 0..n : (IF i = 0 THEN Good(record, p) ELSE FieldStep(fields, f[i - 1], i))
                           = (IF i = 0 THEN Good(record, p) ELSE FieldStep(fields, g[i - 1], i))
      <3> HIDE DEF g
      <3> QED BY <2>2, <2>4
    <2>6. g = h
      <3> QED BY <2>5, Zenon
    <2> HIDE DEF g
    <2>7. IsRead(g, p, fields, record, n)
      BY <2>6, Zenon DEF IsRead
    <2> QED BY <2>2, <2>7
  <1>3. \A n \in 0..k : n \in good
    <2> HIDE DEF good
    <2> QED BY <1>1, <1>2, UpTo
  <1> QED BY <1>3

LEMMA FieldsAre ==
    ASSUME NEW p, NEW fields, NEW record, Len(fields) \in Nat
    PROVE  \E f : IsRead(f, p, fields, record, Len(fields)) /\ Fields(p, fields, record) = f[Len(fields)]
  <1> DEFINE k == Len(fields)
             c == CHOOSE f : f = [n \in 0..k |-> IF n = 0 THEN Good(record, p) ELSE FieldStep(fields, f[n - 1], n)]
  <1>1. \E f : f = [n \in 0..k |-> IF n = 0 THEN Good(record, p) ELSE FieldStep(fields, f[n - 1], n)]
    <2>1. \E f : IsRead(f, p, fields, record, k)
      BY IsReadExists
    <2> QED BY <2>1, Zenon DEF IsRead
  <1>2. c = [n \in 0..k |-> IF n = 0 THEN Good(record, p) ELSE FieldStep(fields, c[n - 1], n)]
    BY <1>1
  <1>3. Fields(p, fields, record) = c[k]
    BY DEF Fields, FieldStep
  <1> QED BY <1>2, <1>3 DEF IsRead

LEMMA FillsOne ==
    ASSUME NEW record, NEW fields, FieldsOK(fields, record), NEW n \in 1..Len(fields),
           NEW r, Fills(fields, record, n - 1, r), NEW v, Legal(fields[n][2], v)
    PROVE  LET t == With(r, fields[n][1], v)
           IN  /\ Fills(fields, record, n, t)
               /\ t[fields[n][1]] = v
               /\ \A i \in 1..n - 1 : t[fields[i][1]] = r[fields[i][1]]
  <1> DEFINE a == fields[n][1]
             t == With(r, a, v)
             D == DOMAIN record
             before == D \cup Names(fields, n - 1)
             all == D \cup Names(fields, n)
  <1>1. Len(fields) \in Nat /\ n \in Nat /\ n - 1 \in Nat /\ 1..n = 1..n - 1 \cup {n} /\ n \notin 1..n - 1
    BY DEF FieldsOK
  <1>2. all = before \cup {a}
    BY <1>1 DEF Names
  <1>3. a \notin D /\ \A i \in 1..n - 1 : fields[i][1] # a /\ fields[i][1] \in before
    BY <1>1 DEF FieldsOK, Names
  <1>4. r = [x \in before |-> IF x \in D THEN record[x] ELSE r[x]]
    BY DEF Fills
  <1>5. \A i \in 1..n - 1 : Legal(fields[i][2], r[fields[i][1]])
    BY DEF Fills
  <1> HIDE DEF before, D, a, all
  <1>6. DOMAIN r = before /\ \A x \in before : x \in D => r[x] = record[x]
    <2> DEFINE g == [x \in before |-> IF x \in D THEN record[x] ELSE r[x]]
    <2>1. DOMAIN g = before /\ \A x \in before : x \in D => g[x] = record[x]
      OBVIOUS
    <2>2. r = g
      BY <1>4
    <2> HIDE DEF g
    <2> QED BY <2>1, <2>2
  <1>7. t = [x \in all |-> IF x = a THEN v ELSE r[x]]
    BY <1>2, <1>6 DEF With
  <1>8. t[a] = v /\ \A x \in before : x # a => t[x] = r[x]
    BY <1>2, <1>7
  <1>9. \A i \in 1..n - 1 : t[fields[i][1]] = r[fields[i][1]]
    BY <1>3, <1>8
  <1>10. t = [x \in all |-> IF x \in D THEN record[x] ELSE t[x]]
    <2>1. D \subseteq before
      BY DEF before, D
    <2>2. \A x \in all : (IF x = a THEN v ELSE r[x]) = (IF x \in D THEN record[x] ELSE t[x])
      <3> SUFFICES ASSUME NEW x \in all
                   PROVE  (IF x = a THEN v ELSE r[x]) = (IF x \in D THEN record[x] ELSE t[x])
        OBVIOUS
      <3>1. t[x] = IF x = a THEN v ELSE r[x]
        BY <1>7
      <3> HIDE DEF t
      <3> QED BY <1>2, <1>3, <1>6, <2>1, <3>1
    <2> DEFINE f1 == [x \in all |-> IF x = a THEN v ELSE r[x]]
               f2 == [x \in all |-> IF x \in D THEN record[x] ELSE t[x]]
    <2>3. f1 = f2
      <3> HIDE DEF t
      <3> QED BY <2>2
    <2> QED BY <1>7, <2>3
  <1>11. \A i \in 1..n : Legal(fields[i][2], t[fields[i][1]])
    <2> SUFFICES ASSUME NEW i \in 1..n PROVE Legal(fields[i][2], t[fields[i][1]])
      OBVIOUS
    <2> HIDE DEF t
    <2>1. CASE i = n
      BY <1>8, <2>1 DEF a
    <2>2. CASE i \in 1..n - 1
      <3>1. t[fields[i][1]] = r[fields[i][1]] /\ Legal(fields[i][2], r[fields[i][1]])
        BY <1>5, <1>9, <2>2
      <3> QED BY <3>1, Zenon
    <2> QED BY <1>1, <2>1, <2>2
  <1>12. Fills(fields, record, n, t)
    BY <1>10, <1>11 DEF Fills, all, D
  <1> QED BY <1>8, <1>9, <1>12 DEF a

LEMMA FillsBack ==
    ASSUME NEW record, NEW fields, FieldsOK(fields, record), NEW n \in 1..Len(fields),
           NEW t, Fills(fields, record, n, t)
    PROVE  \E r : /\ Fills(fields, record, n - 1, r)
                  /\ t = With(r, fields[n][1], t[fields[n][1]])
                  /\ Legal(fields[n][2], t[fields[n][1]])
                  /\ \A i \in 1..n - 1 : t[fields[i][1]] = r[fields[i][1]]
  <1> DEFINE a == fields[n][1]
             D == DOMAIN record
             before == D \cup Names(fields, n - 1)
             all == D \cup Names(fields, n)
             r == [x \in before |-> t[x]]
  <1>1. Len(fields) \in Nat /\ n \in Nat /\ n - 1 \in Nat /\ 1..n = 1..n - 1 \cup {n} /\ n \in 1..n
    BY DEF FieldsOK
  <1>2. all = before \cup {a}
    BY <1>1 DEF Names
  <1>3. a \notin D /\ \A i \in 1..n - 1 : fields[i][1] # a /\ fields[i][1] \in before
    BY <1>1 DEF FieldsOK, Names
  <1>3a. D \subseteq before
    OBVIOUS
  <1>4. t = [x \in all |-> IF x \in D THEN record[x] ELSE t[x]]
    BY DEF Fills
  <1>5. \A i \in 1..n : Legal(fields[i][2], t[fields[i][1]])
    BY DEF Fills
  <1> HIDE DEF before, D, a, all
  <1>6. DOMAIN t = all /\ (\A x \in all : x \in D => t[x] = record[x]) /\ t = [x \in all |-> t[x]]
    <2> DEFINE g == [x \in all |-> IF x \in D THEN record[x] ELSE t[x]]
    <2>1. DOMAIN g = all /\ (\A x \in all : x \in D => g[x] = record[x]) /\ g = [x \in all |-> g[x]]
      OBVIOUS
    <2>2. t = g
      BY <1>4
    <2> HIDE DEF g
    <2> QED BY <2>1, <2>2
  <1>7. DOMAIN r = before /\ \A x \in before : r[x] = t[x]
    OBVIOUS
  <1> HIDE DEF r
  <1>8. t = With(r, a, t[a])
    <2>1. \A x \in all : (IF x = a THEN t[a] ELSE r[x]) = t[x]
      BY <1>2, <1>7
    <2>2. [x \in all |-> IF x = a THEN t[a] ELSE r[x]] = [x \in all |-> t[x]]
      BY <2>1
    <2> QED BY <1>2, <1>6, <1>7, <2>2 DEF With
  <1>9. r = [x \in before |-> IF x \in D THEN record[x] ELSE r[x]]
    <2>1. \A x \in before : (IF x \in D THEN record[x] ELSE r[x]) = t[x]
      BY <1>2, <1>3a, <1>6, <1>7
    <2>2. [x \in before |-> IF x \in D THEN record[x] ELSE r[x]] = [x \in before |-> t[x]]
      BY <2>1
    <2> QED BY <2>2 DEF r
  <1>10. \A i \in 1..n - 1 : t[fields[i][1]] = r[fields[i][1]]
    BY <1>3, <1>7
  <1>11. \A i \in 1..n - 1 : Legal(fields[i][2], r[fields[i][1]])
    BY <1>1, <1>5, <1>10, Zenon
  <1>12. Fills(fields, record, n - 1, r)
    BY <1>9, <1>11 DEF Fills, before, D
  <1>13. Legal(fields[n][2], t[fields[n][1]])
    BY <1>1, <1>5, Zenon
  <1>14. t = With(r, fields[n][1], t[fields[n][1]])
    BY <1>8 DEF a
  <1> QED BY <1>10, <1>12, <1>13, <1>14

\* The bytes of the fields are bytes, and those of one more follow.
LEMMA BsTyped ==
    ASSUME FileOK, NEW record, NEW fields, FieldsOK(fields, record), NEW n \in 0..Len(fields),
           NEW r, Fills(fields, record, n, r)
    PROVE  Bs(fields, r, n) \in Seq(Seq(Byte)) /\ FlattenSeq(Bs(fields, r, n)) \in Seq(Byte)
  <1>1. n \in Nat /\ \A i \in 1..n : i \in 1..Len(fields)
    BY DEF FieldsOK
  <1>2. \A i \in 1..n : FieldBytesOf(fields, r, i) \in Seq(Byte)
    <2> SUFFICES ASSUME NEW i \in 1..n PROVE FieldBytesOf(fields, r, i) \in Seq(Byte)
      OBVIOUS
    <2>1. Legal(fields[i][2], r[fields[i][1]]) /\ fields[i][2] \in Hows
      BY <1>1 DEF FieldsOK, Fills
    <2> QED BY <2>1, FieldTyped DEF FieldBytesOf
  <1>3. Bs(fields, r, n) \in Seq(Seq(Byte))
    BY <1>1, <1>2 DEF Bs
  <1> QED BY <1>3, FlattenTyped

LEMMA BsStep ==
    ASSUME FileOK, NEW record, NEW fields, FieldsOK(fields, record), NEW n \in 1..Len(fields),
           NEW r, Fills(fields, record, n - 1, r), NEW t, Fills(fields, record, n, t),
           \A i \in 1..n - 1 : t[fields[i][1]] = r[fields[i][1]]
    PROVE  /\ FlattenSeq(Bs(fields, r, n - 1)) \in Seq(Byte)
           /\ FieldBytesOf(fields, t, n) \in Seq(Byte)
           /\ FlattenSeq(Bs(fields, t, n)) = FlattenSeq(Bs(fields, r, n - 1)) \o FieldBytesOf(fields, t, n)
  <1> DEFINE b == Bs(fields, r, n - 1)
             c == Bs(fields, t, n)
             x == FieldBytesOf(fields, t, n)
  <1>1. n - 1 \in 0..Len(fields) /\ n - 1 \in Nat /\ n \in Nat /\ n \in 0..Len(fields) /\ n \in 1..n
        /\ 1..n = 1..n - 1 \cup {n} /\ (n - 1) + 1 = n
    BY DEF FieldsOK
  <1>2. b \in Seq(Seq(Byte)) /\ FlattenSeq(b) \in Seq(Byte)
    BY <1>1, BsTyped
  <1>3. c \in Seq(Seq(Byte))
    BY <1>1, BsTyped
  <1>4. /\ Len(b) = n - 1 /\ Len(c) = n /\ c[n] = x
        /\ \A i \in 1..n - 1 : b[i] = FieldBytesOf(fields, r, i)
        /\ \A i \in 1..n : c[i] = FieldBytesOf(fields, t, i)
    BY <1>1 DEF Bs
  <1>5. x \in Seq(Byte)
    BY <1>1, <1>3, <1>4
  <1>6. \A i \in 1..n - 1 : b[i] = c[i]
    BY <1>1, <1>4 DEF FieldBytesOf
  <1> HIDE DEF b, c, x
  <1> DEFINE d == Append(b, x)
  <1>7. /\ d \in Seq(Seq(Byte)) /\ Len(d) = n /\ d[n] = x
        /\ \A i \in 1..n - 1 : d[i] = b[i]
    BY <1>1, <1>2, <1>4, <1>5, AppendProperties
  <1> HIDE DEF d
  <1>8. \A i \in 1..n : d[i] = c[i]
    BY <1>1, <1>4, <1>6, <1>7
  <1>9. d = c
    BY <1>3, <1>4, <1>7, <1>8, SeqEqual
  <1>10. FlattenSeq(d) = FlattenSeq(b) \o x
    BY <1>2, <1>5, FlattenAppend DEF d
  <1> QED BY <1>2, <1>5, <1>9, <1>10 DEF b, c, x

\* What the first n fields are read as.
ReadsFields(s, p, fields, record, n) ==
    Fills(fields, record, n, s.val) /\ Result(s, p, s.val, FlattenSeq(Bs(fields, s.val, n)))

LEMMA StepIs ==
    ASSUME NEW fields, NEW R, NEW n
    PROVE  \A s : s \in FieldStep(fields, R, n) <=>
             \E r \in R : \E v \in Field(fields[n][2], r.pos) :
                s = [val |-> With(r.val, fields[n][1], v.val), pos |-> v.pos]
  <1> DEFINE at(r, v) == [val |-> With(r.val, fields[n][1], v.val), pos |-> v.pos]
  <1>1. FieldStep(fields, R, n)
        = UNION {UNION {{at(r, v)} : v \in Field(fields[n][2], r.pos)} : r \in R}
    BY DEF FieldStep, Then, Good
  <1> HIDE DEF at
  <1>2. \A s : s \in FieldStep(fields, R, n)
              <=> \E r \in R : \E v \in Field(fields[n][2], r.pos) : s = at(r, v)
    <2> DEFINE one(r) == UNION {{at(r, v)} : v \in Field(fields[n][2], r.pos)}
    <2>1. \A s, r : s \in one(r) <=> \E v \in Field(fields[n][2], r.pos) : s = at(r, v)
      OBVIOUS
    <2>2. FieldStep(fields, R, n) = UNION {one(r) : r \in R}
      BY <1>1
    <2> HIDE DEF one
    <2>3. \A s : s \in FieldStep(fields, R, n) <=> \E r \in R : s \in one(r)
      BY <2>2
    <2> QED BY <2>1, <2>3, Zenon
  <1> QED BY <1>2 DEF at

LEMMA NoFields ==
    ASSUME FileOK, NEW p \in Nat, p <= end, NEW fields, NEW record, FieldsOK(fields, record)
    PROVE  \A s : s \in Good(record, p) <=> ReadsFields(s, p, fields, record, 0)
  <1>1. \A r : Bs(fields, r, 0) = <<>>
    BY DEF Bs
  <1>2. FlattenSeq(<<>>) = <<>>
    BY FlattenNone
  <1>3. \A q : Ends(p, <<>>, q) <=> q = p
    BY EndsEmpty
  <1>4. \A r : Fills(fields, record, 0, r) <=> r = record
    <2> SUFFICES ASSUME NEW r PROVE Fills(fields, record, 0, r) <=> r = record
      OBVIOUS
    <2>1. Names(fields, 0) = {} /\ 1..0 = {}
      BY DEF Names
    <2> DEFINE D == DOMAIN record
    <2>2. [x \in D |-> IF x \in D THEN record[x] ELSE r[x]] = [x \in D |-> record[x]]
      OBVIOUS
    <2>3. record = [x \in D |-> record[x]]
      BY DEF FieldsOK
    <2>4. D \cup Names(fields, 0) = D
      BY <2>1
    <2>5. [x \in D \cup Names(fields, 0) |-> IF x \in D THEN record[x] ELSE r[x]] = record
      BY <2>2, <2>3, <2>4, Zenon
    <2>6. \A i \in 1..0 : Legal(fields[i][2], r[fields[i][1]])
      BY <2>1
    <2> DEFINE f == [x \in D \cup Names(fields, 0) |-> IF x \in D THEN record[x] ELSE r[x]]
    <2>7. Fills(fields, record, 0, r) <=> r = f
      BY <2>6, Zenon DEF Fills
    <2> QED BY <2>5, <2>7
  <1> SUFFICES ASSUME NEW s PROVE s \in Good(record, p) <=> ReadsFields(s, p, fields, record, 0)
    OBVIOUS
  <1>5. ReadsFields(s, p, fields, record, 0) <=> s.val = record /\ s.pos = p /\ s = [val |-> s.val, pos |-> s.pos]
    BY <1>1, <1>2, <1>3, <1>4, ResultIs, Zenon DEF ReadsFields
  <1>6. s \in Good(record, p) <=> s = [val |-> record, pos |-> p]
    BY DEF Good
  <1> QED BY <1>5, <1>6

LEMMA MoreFields ==
    ASSUME FileOK, NEW p \in Nat, NEW fields, NEW record, FieldsOK(fields, record),
           NEW n \in 1..Len(fields), NEW R,
           \A s : s \in R <=> ReadsFields(s, p, fields, record, n - 1)
    PROVE  \A s : s \in FieldStep(fields, R, n) <=> ReadsFields(s, p, fields, record, n)
  <1> DEFINE a == fields[n][1]
             how == fields[n][2]
  <1>1. how \in Hows
    BY DEF FieldsOK
  <1>2. \A q \in Nat : \A v : v \in Field(how, q) <=> Legal(how, v.val) /\ Result(v, q, v.val, HowBytes(how, v.val))
    BY <1>1, FieldReads
  <1>3. ASSUME NEW s, s \in FieldStep(fields, R, n) PROVE ReadsFields(s, p, fields, record, n)
    <2>1. PICK r \in R : \E v \in Field(how, r.pos) : s = [val |-> With(r.val, a, v.val), pos |-> v.pos]
      BY <1>3, StepIs
    <2>2. PICK v \in Field(how, r.pos) : s = [val |-> With(r.val, a, v.val), pos |-> v.pos]
      BY <2>1
    <2> DEFINE b == FlattenSeq(Bs(fields, r.val, n - 1))
               t == With(r.val, a, v.val)
               c == HowBytes(how, v.val)
    <2>3. Fills(fields, record, n - 1, r.val) /\ Ends(p, b, r.pos)
      BY ResultIs, Zenon DEF ReadsFields
    <2>4. r.pos \in Nat
      BY <2>3, EndsFacts
    <2>5. Legal(how, v.val) /\ Ends(r.pos, c, v.pos)
      BY <1>2, <2>4, ResultIs, Zenon
    <2>6. Fills(fields, record, n, t) /\ t[a] = v.val /\ \A i \in 1..n - 1 : t[fields[i][1]] = r.val[fields[i][1]]
      BY <2>3, <2>5, FillsOne
    <2>7. s.val = t /\ s.pos = v.pos /\ s = [val |-> s.val, pos |-> s.pos]
      BY <2>2
    <2>8. FieldBytesOf(fields, t, n) = c
      BY <2>6, Zenon DEF FieldBytesOf
    <2> HIDE DEF t, b, c
    <2>9. b \in Seq(Byte) /\ c \in Seq(Byte) /\ FlattenSeq(Bs(fields, t, n)) = b \o c
      <3> DEFINE r0 == r.val
      <3>1. /\ Fills(fields, record, n - 1, r0) /\ Fills(fields, record, n, t)
            /\ \A i \in 1..n - 1 : t[fields[i][1]] = r0[fields[i][1]]
        BY <2>3, <2>6
      <3> HIDE DEF r0
      <3>2. /\ FlattenSeq(Bs(fields, r0, n - 1)) \in Seq(Byte)
            /\ FieldBytesOf(fields, t, n) \in Seq(Byte)
            /\ FlattenSeq(Bs(fields, t, n)) = FlattenSeq(Bs(fields, r0, n - 1)) \o FieldBytesOf(fields, t, n)
        BY <3>1, BsStep
      <3> QED BY <2>8, <3>2 DEF b, r0
    <2>10. Ends(p, b \o c, s.pos)
      BY <2>3, <2>5, <2>7, <2>9, EndsJoins
    <2> QED BY <2>6, <2>7, <2>9, <2>10, ResultIs, Zenon DEF ReadsFields
  <1>4. ASSUME NEW s, ReadsFields(s, p, fields, record, n) PROVE s \in FieldStep(fields, R, n)
    <2> DEFINE t == s.val
               c == HowBytes(how, t[a])
    <2>1. Fills(fields, record, n, t) /\ Ends(p, FlattenSeq(Bs(fields, t, n)), s.pos)
          /\ s = [val |-> t, pos |-> s.pos]
      BY <1>4, ResultIs, Zenon DEF ReadsFields
    <2> HIDE DEF t
    <2>2. PICK r : /\ Fills(fields, record, n - 1, r) /\ t = With(r, a, t[a]) /\ Legal(how, t[a])
                   /\ \A i \in 1..n - 1 : t[fields[i][1]] = r[fields[i][1]]
      BY <2>1, FillsBack
    <2> DEFINE b == FlattenSeq(Bs(fields, r, n - 1))
    <2>3. FieldBytesOf(fields, t, n) = c
      BY Zenon DEF FieldBytesOf
    <2> HIDE DEF b, c
    <2>4. b \in Seq(Byte) /\ c \in Seq(Byte) /\ FlattenSeq(Bs(fields, t, n)) = b \o c
      <3>1. /\ FlattenSeq(Bs(fields, r, n - 1)) \in Seq(Byte) /\ FieldBytesOf(fields, t, n) \in Seq(Byte)
            /\ FlattenSeq(Bs(fields, t, n)) = FlattenSeq(Bs(fields, r, n - 1)) \o FieldBytesOf(fields, t, n)
        BY <2>1, <2>2, BsStep
      <3> QED BY <2>3, <3>1, Zenon DEF b
    <2>5. PICK m : Ends(p, b, m) /\ Ends(m, c, s.pos)
      BY <2>1, <2>4, EndsJoins
    <2>6. m \in Nat
      BY <2>5, EndsFacts
    <2> DEFINE u == Res(r, m)
               v == Res(t[a], s.pos)
    <2>7. u.val = r /\ u.pos = m /\ Result(u, p, r, b)
      BY <2>5, ResFacts
    <2>8. v.val = t[a] /\ v.pos = s.pos /\ Result(v, m, t[a], c)
      BY <2>5, ResFacts
    <2> HIDE DEF u, v
    <2>9. u \in R
      BY <2>2, <2>7, Zenon DEF ReadsFields, b
    <2>10. v \in Field(how, m)
      BY <1>2, <2>2, <2>6, <2>8, Zenon DEF c
    <2>11. s = [val |-> With(u.val, a, v.val), pos |-> v.pos]
      BY <2>1, <2>2, <2>7, <2>8, Zenon
    <2>12. v \in Field(how, u.pos)
      BY <2>7, <2>10
    <2> QED BY <2>9, <2>11, <2>12, StepIs, Zenon
  <1> QED BY <1>3, <1>4

\* A record is read exactly when its fields are legal and in the file.
LEMMA FieldsRead ==
    ASSUME FileOK, NEW p \in Nat, p <= end, NEW fields, NEW record, FieldsOK(fields, record)
    PROVE  \A s : s \in Fields(p, fields, record)
                  <=> /\ Fills(fields, record, Len(fields), s.val)
                      /\ Result(s, p, s.val, RecordBytes(fields, s.val))
  <1> DEFINE k == Len(fields)
  <1>1. k \in Nat
    BY DEF FieldsOK
  <1>2. PICK f : IsRead(f, p, fields, record, k) /\ Fields(p, fields, record) = f[k]
    BY <1>1, FieldsAre
  <1>3. f[0] = Good(record, p) /\ \A n \in 1..k : f[n] = FieldStep(fields, f[n - 1], n)
    BY <1>1, <1>2, IsReadStep
  <1> DEFINE good == {n \in 0..k : \A s : s \in f[n] <=> ReadsFields(s, p, fields, record, n)}
  <1>4. 0 \in good
    <2>1. \A s : s \in f[0] <=> ReadsFields(s, p, fields, record, 0)
      BY <1>3, NoFields
    <2>2. 0 \in 0..k
      BY <1>1
    <2> QED BY <2>1, <2>2
  <1>5. ASSUME NEW n \in 1..k, n - 1 \in good PROVE n \in good
    <2>1. \A s : s \in f[n - 1] <=> ReadsFields(s, p, fields, record, n - 1)
      BY <1>5
    <2>2. \A s : s \in FieldStep(fields, f[n - 1], n) <=> ReadsFields(s, p, fields, record, n)
      BY <2>1, MoreFields
    <2>3. n \in 0..k
      BY <1>1
    <2> QED BY <1>3, <2>2, <2>3
  <1>6. \A n \in 0..k : n \in good
    <2> HIDE DEF good
    <2> QED BY <1>1, <1>4, <1>5, UpTo
  <1>7. \A s : s \in f[k] <=> ReadsFields(s, p, fields, record, k)
    <2>1. k \in good
      BY <1>1, <1>6
    <2> QED BY <2>1
  <1> QED BY <1>2, <1>7, Zenon DEF ReadsFields, RecordBytes

-----------------------------------------------------------------------------
(* Records behind a tag                                                    *)

\* Fields that can follow a tag.
ListOK(fields) ==
    /\ Len(fields) \in Nat
    /\ \A i \in 1..Len(fields) : fields[i][2] \in Hows /\ fields[i][1] # "tag"
    /\ \A i, j \in 1..Len(fields) : fields[i][1] = fields[j][1] => i = j

LEMMA ListFields ==
    ASSUME NEW fields, ListOK(fields), NEW t
    PROVE  FieldsOK(fields, [tag |-> t])
  <1>1. DOMAIN [tag |-> t] = {"tag"} /\ [tag |-> t] = [x \in DOMAIN [tag |-> t] |-> [tag |-> t][x]]
    OBVIOUS
  <1> QED BY <1>1 DEF ListOK, FieldsOK

\* A filled record keeps what it began with.
Keeps(record, r) == \A x \in DOMAIN record : r[x] = record[x]
LEMMA FillsKeeps ==
    ASSUME NEW fields, NEW record, NEW n, NEW r, Fills(fields, record, n, r)
    PROVE  Keeps(record, r)
  <1> DEFINE D == DOMAIN record
             all == D \cup Names(fields, n)
             g == [x \in all |-> IF x \in D THEN record[x] ELSE r[x]]
  <1>1. r = g
    BY DEF Fills
  <1>2. DOMAIN g = all /\ (\A x \in all : x \in D => g[x] = record[x]) /\ D \subseteq all
    OBVIOUS
  <1> HIDE DEF g
  <1> QED BY <1>1, <1>2 DEF Keeps

TaggedLegal(tags, F, r) ==
    InTable(tags, r.tag) /\ Fills(F[r.tag], [tag |-> r.tag], Len(F[r.tag]), r)
TaggedBytesOf(tags, F, r) == U8(CodeOf(tags, r.tag)) \o RecordBytes(F[r.tag], r)
TaggedOK(tags, F) == TagTable(tags) /\ \A t : InTable(tags, t) => ListOK(F[t])
ReadsTagged(R, p, tags, F) ==
    \A s : s \in R <=> \E t \in Tag(p, tags) : s \in Fields(t.pos, F[t.val], [tag |-> t.val])

LEMMA TaggedTyped ==
    ASSUME FileOK, NEW tags, NEW F, TaggedOK(tags, F), NEW r, TaggedLegal(tags, F, r)
    PROVE  /\ TaggedBytesOf(tags, F, r) \in Seq(Byte)
           /\ U8(CodeOf(tags, r.tag)) \in Seq(Byte) /\ Len(U8(CodeOf(tags, r.tag))) = 1
           /\ RecordBytes(F[r.tag], r) \in Seq(Byte)
           /\ Len(TaggedBytesOf(tags, F, r)) >= 1
  <1> DEFINE fields == F[r.tag]
             n == Len(fields)
  <1>1. U8(CodeOf(tags, r.tag)) \in Seq(Byte) /\ Len(U8(CodeOf(tags, r.tag))) = 1
    BY TagTyped DEF TaggedOK, TaggedLegal
  <1>2. FieldsOK(fields, [tag |-> r.tag]) /\ n \in Nat
    BY ListFields DEF TaggedOK, TaggedLegal, ListOK
  <1>3. n \in 0..n /\ Fills(fields, [tag |-> r.tag], n, r)
    BY <1>2 DEF TaggedLegal
  <1> HIDE DEF fields, n
  <1>4. RecordBytes(fields, r) \in Seq(Byte)
    <2>1. FlattenSeq(Bs(fields, r, n)) \in Seq(Byte)
      BY <1>2, <1>3, BsTyped DEF n
    <2> QED BY <2>1 DEF RecordBytes, n
  <1>5. /\ TaggedBytesOf(tags, F, r) \in Seq(Byte)
        /\ Len(TaggedBytesOf(tags, F, r)) = 1 + Len(RecordBytes(fields, r))
    BY <1>1, <1>4, ConcatTyped, Zenon DEF TaggedBytesOf, fields
  <1>6. Len(RecordBytes(fields, r)) \in Nat
    BY <1>4
  <1> QED BY <1>1, <1>4, <1>5, <1>6 DEF fields

LEMMA TaggedReads ==
    ASSUME FileOK, NEW p \in Nat, NEW tags, NEW F, TaggedOK(tags, F), NEW R, ReadsTagged(R, p, tags, F)
    PROVE  \A s : s \in R <=> TaggedLegal(tags, F, s.val) /\ Result(s, p, s.val, TaggedBytesOf(tags, F, s.val))
  <1>1. \A t : t \in Tag(p, tags) <=> InTable(tags, t.val) /\ Result(t, p, t.val, U8(CodeOf(tags, t.val)))
    BY TagReads DEF TaggedOK
  <1>2. \A s : s \in R <=> \E t \in Tag(p, tags) : s \in Fields(t.pos, F[t.val], [tag |-> t.val])
    BY DEF ReadsTagged
  <1>3. \A t : InTable(tags, t) => FieldsOK(F[t], [tag |-> t])
    BY ListFields DEF TaggedOK
  <1>4. \A t : InTable(tags, t) => U8(CodeOf(tags, t)) \in Seq(Byte)
    BY TagTyped DEF TaggedOK
  <1>5. ASSUME NEW s \in R
        PROVE  TaggedLegal(tags, F, s.val) /\ Result(s, p, s.val, TaggedBytesOf(tags, F, s.val))
    <2>1. PICK t \in Tag(p, tags) : s \in Fields(t.pos, F[t.val], [tag |-> t.val])
      BY <1>2, <1>5
    <2>2. InTable(tags, t.val) /\ Ends(p, U8(CodeOf(tags, t.val)), t.pos)
      BY <1>1, ResultIs, Zenon
    <2>3. t.pos \in Nat /\ t.pos <= end
      BY <2>2, EndsFacts
    <2> DEFINE fields == F[t.val]
               record == [tag |-> t.val]
               q == t.pos
    <2>4. FieldsOK(fields, record) /\ s \in Fields(q, fields, record) /\ q \in Nat /\ q <= end
      BY <1>3, <2>1, <2>2, <2>3
    <2> HIDE DEF fields, record, q
    <2>5. Fills(fields, record, Len(fields), s.val) /\ Result(s, q, s.val, RecordBytes(fields, s.val))
      BY <2>4, FieldsRead
    <2>6. s.val.tag = t.val
      <3>1. "tag" \in DOMAIN record /\ record.tag = t.val
        BY DEF record
      <3> DEFINE r == s.val
                 n == Len(fields)
      <3>2. Fills(fields, record, n, r)
        BY <2>5
      <3> HIDE DEF r, n
      <3>3. r["tag"] = record["tag"]
        <4>1. Keeps(record, r)
          BY <3>2, FillsKeeps
        <4> QED BY <3>1, <4>1, Zenon DEF Keeps
      <3>4. r.tag = record.tag
        BY <3>3
      <3> QED BY <3>1, <3>4 DEF r
    <2>7. TaggedLegal(tags, F, s.val)
      BY <2>2, <2>5, <2>6, Zenon DEF TaggedLegal, fields, record
    <2>8. U8(CodeOf(tags, t.val)) \in Seq(Byte) /\ RecordBytes(fields, s.val) \in Seq(Byte)
      <3>1. Ends(q, RecordBytes(fields, s.val), s.pos)
        BY <2>5, ResultIs, Zenon
      <3>2. RecordBytes(fields, s.val) \in Seq(Byte)
        BY <3>1, EndsFacts
      <3>3. U8(CodeOf(tags, t.val)) \in Seq(Byte)
        BY <1>4, <2>2, Zenon
      <3> QED BY <3>2, <3>3
    <2>9. Ends(p, U8(CodeOf(tags, t.val)) \o RecordBytes(fields, s.val), s.pos)
      <3>1. Ends(q, RecordBytes(fields, s.val), s.pos) /\ Ends(p, U8(CodeOf(tags, t.val)), q)
        BY <2>2, <2>5, ResultIs, Zenon DEF q
      <3> QED BY <2>8, <3>1, EndsJoins
    <2>10. Ends(p, TaggedBytesOf(tags, F, s.val), s.pos)
      BY <2>6, <2>9, Zenon DEF TaggedBytesOf, fields
    <2> QED BY <2>5, <2>7, <2>10, ResultIs, Zenon
  <1>6. ASSUME NEW s, TaggedLegal(tags, F, s.val), Result(s, p, s.val, TaggedBytesOf(tags, F, s.val))
        PROVE  s \in R
    <2> DEFINE r == s.val
               fields == F[r.tag]
               record == [tag |-> r.tag]
               b == U8(CodeOf(tags, r.tag))
               c == RecordBytes(fields, r)
    <2>1. InTable(tags, r.tag) /\ Fills(fields, record, Len(fields), r) /\ FieldsOK(fields, record)
      BY <1>3, <1>6, Zenon DEF TaggedLegal
    <2>2. Ends(p, b \o c, s.pos) /\ s = [val |-> r, pos |-> s.pos]
      BY <1>6, ResultIs, Zenon DEF TaggedBytesOf
    <2>3. b \in Seq(Byte) /\ c \in Seq(Byte)
      BY <1>6, TaggedTyped
    <2> HIDE DEF b, c
    <2>4. PICK m : Ends(p, b, m) /\ Ends(m, c, s.pos)
      BY <2>2, <2>3, EndsJoins
    <2>5. m \in Nat /\ m <= end
      BY <2>4, EndsFacts
    <2> DEFINE t == Res(r.tag, m)
    <2>6. t.val = r.tag /\ t.pos = m /\ Result(t, p, r.tag, b)
      BY <2>4, ResFacts
    <2> HIDE DEF t
    <2>7. t \in Tag(p, tags)
      BY <1>1, <2>1, <2>6, Zenon DEF b
    <2>8. Result(s, m, r, c)
      BY <2>2, <2>4, ResultIs, Zenon
    <2> HIDE DEF fields, record
    <2>9. s \in Fields(m, fields, record)
      <3>1. \A x : x \in Fields(m, fields, record)
                   <=> /\ Fills(fields, record, Len(fields), x.val)
                       /\ Result(x, m, x.val, RecordBytes(fields, x.val))
        BY <2>1, <2>5, FieldsRead
      <3> QED BY <2>1, <2>8, <3>1, Zenon DEF c
    <2>10. s \in Fields(t.pos, F[t.val], [tag |-> t.val])
      BY <2>6, <2>9, Zenon DEF fields, record
    <2> QED BY <1>2, <2>7, <2>10, Zenon
  <1> QED BY <1>5, <1>6

-----------------------------------------------------------------------------
(* What follows each tag: what is read is what is written                  *)

\* The fields read are in the file what the fields written are.
Matches(f, g) ==
    /\ Len(f) \in Nat /\ DOMAIN g = 1..Len(f)
    /\ \A i \in 1..Len(f) : f[i][1] = g[i][1] /\ \A v : HowBytes(f[i][2], v) = FieldBytes(g[i][2], v)

LEMMA MatchesBytes ==
    ASSUME NEW f, NEW g, Matches(f, g), NEW r
    PROVE  RecordBytes(f, r) = FieldsBytes(g, r)
  <1>1. \A i \in 1..Len(f) : FieldBytesOf(f, r, i) = FieldBytes(g[i][2], r[g[i][1]])
    BY DEF Matches, FieldBytesOf
  <1>2. Bs(f, r, Len(f)) = [i \in DOMAIN g |-> FieldBytes(g[i][2], r[g[i][1]])]
    BY <1>1 DEF Matches, Bs
  <1> QED BY <1>2, Zenon DEF RecordBytes, FieldsBytes

\* The ways that are read as they are written.
LEMMA HowsAgree ==
    ASSUME NEW v
    PROVE
      /\ HowBytes("u32", v) = FieldBytes("u32", v)
      /\ HowBytes("u64", v) = FieldBytes("u64", v)
      /\ HowBytes("u128", v) = FieldBytes("u128", v)
      /\ HowBytes("bool", v) = FieldBytes("bool", v)
      /\ HowBytes("opt", v) = FieldBytes("opt", v)
      /\ HowBytes("blob", v) = FieldBytes("blob", v)
      /\ HowBytes("ids", v) = FieldBytes("ids", v)
      /\ HowBytes("float", v) = FieldBytes("float", v)
      /\ HowBytes("pairs", v) = FieldBytes("pairs", v)
      /\ HowBytes("linkage", v) = FieldBytes("linkage", v)
      /\ HowBytes("abi", v) = FieldBytes("abi", v)
      /\ HowBytes("symbol", v) = FieldBytes("u32", v)
  <1>1. HowBytes("u32", v) = FieldBytes("u32", v)
    BY DEF HowBytes, FieldBytes, U32, BoolBytes
  <1>2. HowBytes("u64", v) = FieldBytes("u64", v)
    BY DEF HowBytes, FieldBytes, U32, BoolBytes
  <1>3. HowBytes("u128", v) = FieldBytes("u128", v)
    BY DEF HowBytes, FieldBytes, U32, BoolBytes
  <1>4. HowBytes("bool", v) = FieldBytes("bool", v)
    BY DEF HowBytes, FieldBytes, U32, BoolBytes
  <1>5. HowBytes("opt", v) = FieldBytes("opt", v)
    BY DEF HowBytes, FieldBytes, U32, BoolBytes
  <1>6. HowBytes("blob", v) = FieldBytes("blob", v)
    BY DEF HowBytes, FieldBytes, U32, BoolBytes
  <1>7. HowBytes("ids", v) = FieldBytes("ids", v)
    BY DEF HowBytes, FieldBytes, U32, BoolBytes
  <1>8. HowBytes("float", v) = FieldBytes("float", v)
    BY DEF HowBytes, FieldBytes, U32, BoolBytes
  <1>9. HowBytes("pairs", v) = FieldBytes("pairs", v)
    BY DEF HowBytes, FieldBytes, U32, BoolBytes
  <1>10. HowBytes("linkage", v) = FieldBytes("linkage", v)
    BY DEF HowBytes, FieldBytes, U32, BoolBytes
  <1>11. HowBytes("abi", v) = FieldBytes("abi", v)
    BY DEF HowBytes, FieldBytes, U32, BoolBytes
  <1>12. HowBytes("symbol", v) = FieldBytes("u32", v)
    BY DEF HowBytes, FieldBytes
  <1> QED BY <1>1, <1>2, <1>3, <1>4, <1>5, <1>6, <1>7, <1>8, <1>9, <1>10, <1>11, <1>12

SameHows == {"u32", "u64", "u128", "bool", "opt", "blob", "ids", "pairs", "float", "linkage"}
Plain(f) == ListOK(f) /\ DOMAIN f = 1..Len(f) /\ \A i \in 1..Len(f) : f[i][2] \in SameHows

LEMMA PlainMatches ==
    ASSUME NEW f, Plain(f)
    PROVE  ListOK(f) /\ Matches(f, f)
  <1>1. \A how \in SameHows : \A v : HowBytes(how, v) = FieldBytes(how, v)
    BY HowsAgree DEF SameHows
  <1> QED BY <1>1, Zenon DEF Plain, Matches, ListOK

LEMMA List0 == ListOK(<<>>) /\ Plain(<<>>)
  <1>1. Len(<<>>) = 0 /\ DOMAIN <<>> = 1..0 /\ 1..0 = {}
    OBVIOUS
  <1> QED BY <1>1, Zenon DEF ListOK, Plain

LEMMA List1 ==
    ASSUME NEW a, NEW u \in Hows, a # "tag"
    PROVE  ListOK(<<<<a, u>>>>) /\ (u \in SameHows => Plain(<<<<a, u>>>>))
  <1> DEFINE p1 == <<a, u>>
             l == <<p1>>
  <1>1. p1[1] = a /\ p1[2] = u
    OBVIOUS
  <1> HIDE DEF p1
  <1>2. Len(l) = 1 /\ DOMAIN l = 1..1 /\ 1..1 = {1}
    OBVIOUS
  <1>3. l[1] = p1
    OBVIOUS
  <1> HIDE DEF l
  <1>4. ListOK(l)
    BY <1>1, <1>2, <1>3 DEF ListOK
  <1>5. u \in SameHows => Plain(l)
    BY <1>1, <1>2, <1>3, <1>4 DEF Plain
  <1> QED BY <1>4, <1>5 DEF l, p1

LEMMA List2 ==
    ASSUME NEW a, NEW u \in Hows, a # "tag", NEW b, NEW v \in Hows, b # "tag",
           b # a
    PROVE  ListOK(<<<<a, u>>, <<b, v>>>>) /\ (u \in SameHows /\ v \in SameHows => Plain(<<<<a, u>>, <<b, v>>>>))
  <1> DEFINE p1 == <<a, u>>
             p2 == <<b, v>>
             l == <<p1, p2>>
  <1>1. p1[1] = a /\ p1[2] = u /\ p2[1] = b /\ p2[2] = v
    OBVIOUS
  <1> HIDE DEF p1, p2
  <1>2. Len(l) = 2 /\ DOMAIN l = 1..2 /\ 1..2 = {1, 2}
    OBVIOUS
  <1>3. l[1] = p1 /\ l[2] = p2
    OBVIOUS
  <1> HIDE DEF l
  <1>4. ListOK(l)
    BY <1>1, <1>2, <1>3 DEF ListOK
  <1>5. u \in SameHows /\ v \in SameHows => Plain(l)
    BY <1>1, <1>2, <1>3, <1>4 DEF Plain
  <1> QED BY <1>4, <1>5 DEF l, p1, p2

LEMMA List3 ==
    ASSUME NEW a, NEW u \in Hows, a # "tag", NEW b, NEW v \in Hows, b # "tag", NEW c, NEW w \in Hows, c # "tag",
           b # a, c # a, c # b
    PROVE  ListOK(<<<<a, u>>, <<b, v>>, <<c, w>>>>) /\ (u \in SameHows /\ v \in SameHows /\ w \in SameHows => Plain(<<<<a, u>>, <<b, v>>, <<c, w>>>>))
  <1> DEFINE p1 == <<a, u>>
             p2 == <<b, v>>
             p3 == <<c, w>>
             l == <<p1, p2, p3>>
  <1>1. p1[1] = a /\ p1[2] = u /\ p2[1] = b /\ p2[2] = v /\ p3[1] = c /\ p3[2] = w
    OBVIOUS
  <1> HIDE DEF p1, p2, p3
  <1>2. Len(l) = 3 /\ DOMAIN l = 1..3 /\ 1..3 = {1, 2, 3}
    OBVIOUS
  <1>3. l[1] = p1 /\ l[2] = p2 /\ l[3] = p3
    OBVIOUS
  <1> HIDE DEF l
  <1>4. ListOK(l)
    BY <1>1, <1>2, <1>3 DEF ListOK
  <1>5. u \in SameHows /\ v \in SameHows /\ w \in SameHows => Plain(l)
    BY <1>1, <1>2, <1>3, <1>4 DEF Plain
  <1> QED BY <1>4, <1>5 DEF l, p1, p2, p3

LEMMA List5 ==
    ASSUME NEW a, NEW u \in Hows, a # "tag", NEW b, NEW v \in Hows, b # "tag", NEW c, NEW w \in Hows, c # "tag", NEW d, NEW x \in Hows, d # "tag", NEW e, NEW y \in Hows, e # "tag",
           b # a, c # a, c # b, d # a, d # b, d # c, e # a, e # b, e # c, e # d
    PROVE  ListOK(<<<<a, u>>, <<b, v>>, <<c, w>>, <<d, x>>, <<e, y>>>>) /\ (u \in SameHows /\ v \in SameHows /\ w \in SameHows /\ x \in SameHows /\ y \in SameHows => Plain(<<<<a, u>>, <<b, v>>, <<c, w>>, <<d, x>>, <<e, y>>>>))
  <1> DEFINE p1 == <<a, u>>
             p2 == <<b, v>>
             p3 == <<c, w>>
             p4 == <<d, x>>
             p5 == <<e, y>>
             l == <<p1, p2, p3, p4, p5>>
  <1>1. p1[1] = a /\ p1[2] = u /\ p2[1] = b /\ p2[2] = v /\ p3[1] = c /\ p3[2] = w /\ p4[1] = d /\ p4[2] = x /\ p5[1] = e /\ p5[2] = y
    OBVIOUS
  <1> HIDE DEF p1, p2, p3, p4, p5
  <1>2. Len(l) = 5 /\ DOMAIN l = 1..5 /\ 1..5 = {1, 2, 3, 4, 5}
    OBVIOUS
  <1>3. l[1] = p1 /\ l[2] = p2 /\ l[3] = p3 /\ l[4] = p4 /\ l[5] = p5
    OBVIOUS
  <1> HIDE DEF l
  <1>4. ListOK(l)
    BY <1>1, <1>2, <1>3 DEF ListOK
  <1>5. u \in SameHows /\ v \in SameHows /\ w \in SameHows /\ x \in SameHows /\ y \in SameHows => Plain(l)
    BY <1>1, <1>2, <1>3, <1>4 DEF Plain
  <1> QED BY <1>4, <1>5 DEF l, p1, p2, p3, p4, p5

LEMMA PlainLists ==
    /\ Plain(<<>>)
    /\ Plain(<<<<"bits", "u32">>, <<"signed", "bool">>>>)
    /\ Plain(<<<<"bits", "float">>>>)
    /\ Plain(<<<<"pointee", "u32">>, <<"space", "u32">>>>)
    /\ Plain(<<<<"element", "u32">>, <<"length", "u64">>>>)
    /\ Plain(<<<<"fields", "ids">>>>)
    /\ Plain(<<<<"params", "ids">>, <<"variadic", "bool">>, <<"result", "u32">>>>)
    /\ Plain(<<<<"ty", "u32">>, <<"width", "u32">>, <<"bits", "u128">>>>)
    /\ Plain(<<<<"ty", "u32">>, <<"bits", "u64">>>>)
    /\ Plain(<<<<"pointee", "u32">>>>)
    /\ Plain(<<<<"bytes", "blob">>>>)
    /\ Plain(<<<<"ty", "u32">>, <<"elements", "ids">>>>)
    /\ Plain(<<<<"index", "u32">>>>)
    /\ Plain(<<<<"block", "u32">>, <<"index", "u32">>>>)
    /\ Plain(<<<<"target", "u32">>, <<"args", "ids">>>>)
    /\ Plain(<<<<"condition", "u32">>, <<"then_block", "u32">>, <<"then_args", "ids">>, <<"else_block", "u32">>, <<"else_args", "ids">>>>)
    /\ Plain(<<<<"value", "opt">>>>)
    /\ Plain(<<<<"constant", "u32">>>>)
    /\ Plain(<<<<"lhs", "u32">>, <<"rhs", "u32">>>>)
    /\ Plain(<<<<"ty", "u32">>>>)
    /\ Plain(<<<<"ty", "u32">>, <<"pointer", "u32">>>>)
    /\ Plain(<<<<"pointer", "u32">>, <<"value", "u32">>>>)
    /\ Plain(<<<<"pointer", "u32">>, <<"offset", "u32">>>>)
    /\ Plain(<<<<"to", "u32">>, <<"value", "u32">>>>)
    /\ Plain(<<<<"callee", "u32">>, <<"args", "ids">>>>)
    /\ Plain(<<<<"ty", "u32">>, <<"args", "ids">>>>)
    /\ Plain(<<<<"aggregate", "u32">>, <<"index", "u32">>>>)
    /\ Plain(<<<<"aggregate", "u32">>, <<"index", "u32">>, <<"value", "u32">>>>)
  <1> DEFINE H == SameHows
  <1>h. "u32" \in H /\ "bool" \in H /\ "float" \in H /\ "u64" \in H /\ "ids" \in H /\ "u128" \in H /\ "blob" \in H /\ "opt" \in H
    BY DEF SameHows
  <1>g. "u32" \in Hows /\ "bool" \in Hows /\ "float" \in Hows /\ "u64" \in Hows /\ "ids" \in Hows /\ "u128" \in Hows /\ "blob" \in Hows /\ "opt" \in Hows
    BY DEF Hows
  <1> HIDE DEF H
  <1>1. Plain(<<>>)
    BY <1>h, <1>g, List0 DEF H
  <1>2. Plain(<<<<"bits", "u32">>, <<"signed", "bool">>>>)
    BY <1>h, <1>g, List2 DEF H
  <1>3. Plain(<<<<"bits", "float">>>>)
    BY <1>h, <1>g, List1 DEF H
  <1>4. Plain(<<<<"pointee", "u32">>, <<"space", "u32">>>>)
    BY <1>h, <1>g, List2 DEF H
  <1>5. Plain(<<<<"element", "u32">>, <<"length", "u64">>>>)
    BY <1>h, <1>g, List2 DEF H
  <1>6. Plain(<<<<"fields", "ids">>>>)
    BY <1>h, <1>g, List1 DEF H
  <1>7. Plain(<<<<"params", "ids">>, <<"variadic", "bool">>, <<"result", "u32">>>>)
    BY <1>h, <1>g, List3 DEF H
  <1>8. Plain(<<<<"ty", "u32">>, <<"width", "u32">>, <<"bits", "u128">>>>)
    BY <1>h, <1>g, List3 DEF H
  <1>9. Plain(<<<<"ty", "u32">>, <<"bits", "u64">>>>)
    BY <1>h, <1>g, List2 DEF H
  <1>10. Plain(<<<<"pointee", "u32">>>>)
    BY <1>h, <1>g, List1 DEF H
  <1>11. Plain(<<<<"bytes", "blob">>>>)
    BY <1>h, <1>g, List1 DEF H
  <1>12. Plain(<<<<"ty", "u32">>, <<"elements", "ids">>>>)
    BY <1>h, <1>g, List2 DEF H
  <1>13. Plain(<<<<"index", "u32">>>>)
    BY <1>h, <1>g, List1 DEF H
  <1>14. Plain(<<<<"block", "u32">>, <<"index", "u32">>>>)
    BY <1>h, <1>g, List2 DEF H
  <1>15. Plain(<<<<"target", "u32">>, <<"args", "ids">>>>)
    BY <1>h, <1>g, List2 DEF H
  <1>16. Plain(<<<<"condition", "u32">>, <<"then_block", "u32">>, <<"then_args", "ids">>, <<"else_block", "u32">>, <<"else_args", "ids">>>>)
    BY <1>h, <1>g, List5 DEF H
  <1>17. Plain(<<<<"value", "opt">>>>)
    BY <1>h, <1>g, List1 DEF H
  <1>18. Plain(<<<<"constant", "u32">>>>)
    BY <1>h, <1>g, List1 DEF H
  <1>19. Plain(<<<<"lhs", "u32">>, <<"rhs", "u32">>>>)
    BY <1>h, <1>g, List2 DEF H
  <1>20. Plain(<<<<"ty", "u32">>>>)
    BY <1>h, <1>g, List1 DEF H
  <1>21. Plain(<<<<"ty", "u32">>, <<"pointer", "u32">>>>)
    BY <1>h, <1>g, List2 DEF H
  <1>22. Plain(<<<<"pointer", "u32">>, <<"value", "u32">>>>)
    BY <1>h, <1>g, List2 DEF H
  <1>23. Plain(<<<<"pointer", "u32">>, <<"offset", "u32">>>>)
    BY <1>h, <1>g, List2 DEF H
  <1>24. Plain(<<<<"to", "u32">>, <<"value", "u32">>>>)
    BY <1>h, <1>g, List2 DEF H
  <1>25. Plain(<<<<"callee", "u32">>, <<"args", "ids">>>>)
    BY <1>h, <1>g, List2 DEF H
  <1>26. Plain(<<<<"ty", "u32">>, <<"args", "ids">>>>)
    BY <1>h, <1>g, List2 DEF H
  <1>27. Plain(<<<<"aggregate", "u32">>, <<"index", "u32">>>>)
    BY <1>h, <1>g, List2 DEF H
  <1>28. Plain(<<<<"aggregate", "u32">>, <<"index", "u32">>, <<"value", "u32">>>>)
    BY <1>h, <1>g, List3 DEF H
  <1> QED BY <1>1, <1>2, <1>3, <1>4, <1>5, <1>6, <1>7, <1>8, <1>9, <1>10, <1>11, <1>12, <1>13, <1>14, <1>15, <1>16, <1>17, <1>18, <1>19, <1>20, <1>21, <1>22, <1>23, <1>24, <1>25, <1>26, <1>27, <1>28, Zenon

TypeFields == [t \in {TypeTags[i] : i \in 1..Len(TypeTags)} |-> ReadsType(t)]
LEMMA TypeLists ==
    \A t : InTable(TypeTags, t) => TypeFields[t] = ReadsType(t) /\ Plain(ReadsType(t)) /\ WritesType(t) = ReadsType(t)
  <1>1. ASSUME NEW t, InTable(TypeTags, t) PROVE TypeFields[t] = ReadsType(t)
    BY <1>1, Zenon DEF TypeFields, InTable
  <1>2. \A t : InTable(TypeTags, t) => t \in {"Void", "Int", "Float", "Pointer", "Array", "Struct", "Function"}
    BY DEF InTable, TypeTags
  <1>3. ReadsType("Void") = <<>> /\ WritesType("Void") = <<>>
    BY DEF ReadsType, WritesType
  <1>4. ReadsType("Int") = <<<<"bits", "u32">>, <<"signed", "bool">>>> /\ WritesType("Int") = <<<<"bits", "u32">>, <<"signed", "bool">>>>
    BY DEF ReadsType, WritesType
  <1>5. ReadsType("Float") = <<<<"bits", "float">>>> /\ WritesType("Float") = <<<<"bits", "float">>>>
    BY DEF ReadsType, WritesType
  <1>6. ReadsType("Pointer") = <<<<"pointee", "u32">>, <<"space", "u32">>>> /\ WritesType("Pointer") = <<<<"pointee", "u32">>, <<"space", "u32">>>>
    BY DEF ReadsType, WritesType
  <1>7. ReadsType("Array") = <<<<"element", "u32">>, <<"length", "u64">>>> /\ WritesType("Array") = <<<<"element", "u32">>, <<"length", "u64">>>>
    BY DEF ReadsType, WritesType
  <1>8. ReadsType("Struct") = <<<<"fields", "ids">>>> /\ WritesType("Struct") = <<<<"fields", "ids">>>>
    BY DEF ReadsType, WritesType
  <1>9. ReadsType("Function") = <<<<"params", "ids">>, <<"variadic", "bool">>, <<"result", "u32">>>> /\ WritesType("Function") = <<<<"params", "ids">>, <<"variadic", "bool">>, <<"result", "u32">>>>
    BY DEF ReadsType, WritesType
  <1>10. \A t \in {"Void", "Int", "Float", "Pointer", "Array", "Struct", "Function"} : Plain(ReadsType(t)) /\ WritesType(t) = ReadsType(t)
    <2>1. Plain(ReadsType("Void")) /\ WritesType("Void") = ReadsType("Void")
      BY <1>3, PlainLists, Zenon
    <2>2. Plain(ReadsType("Int")) /\ WritesType("Int") = ReadsType("Int")
      BY <1>4, PlainLists, Zenon
    <2>3. Plain(ReadsType("Float")) /\ WritesType("Float") = ReadsType("Float")
      BY <1>5, PlainLists, Zenon
    <2>4. Plain(ReadsType("Pointer")) /\ WritesType("Pointer") = ReadsType("Pointer")
      BY <1>6, PlainLists, Zenon
    <2>5. Plain(ReadsType("Array")) /\ WritesType("Array") = ReadsType("Array")
      BY <1>7, PlainLists, Zenon
    <2>6. Plain(ReadsType("Struct")) /\ WritesType("Struct") = ReadsType("Struct")
      BY <1>8, PlainLists, Zenon
    <2>7. Plain(ReadsType("Function")) /\ WritesType("Function") = ReadsType("Function")
      BY <1>9, PlainLists, Zenon
    <2> QED BY <2>1, <2>2, <2>3, <2>4, <2>5, <2>6, <2>7, Zenon
  <1> QED BY <1>1, <1>2, <1>10

ConstFields == [t \in {ConstTags[i] : i \in 1..Len(ConstTags)} |-> ReadsConst(t)]
LEMMA ConstLists ==
    \A t : InTable(ConstTags, t) => ConstFields[t] = ReadsConst(t) /\ Plain(ReadsConst(t)) /\ WritesConst(t) = ReadsConst(t)
  <1>1. ASSUME NEW t, InTable(ConstTags, t) PROVE ConstFields[t] = ReadsConst(t)
    BY <1>1, Zenon DEF ConstFields, InTable
  <1>2. \A t : InTable(ConstTags, t) => t \in {"Int", "Float", "Null", "String", "Aggregate"}
    BY DEF InTable, ConstTags
  <1>3. ReadsConst("Int") = <<<<"ty", "u32">>, <<"width", "u32">>, <<"bits", "u128">>>> /\ WritesConst("Int") = <<<<"ty", "u32">>, <<"width", "u32">>, <<"bits", "u128">>>>
    BY DEF ReadsConst, WritesConst
  <1>4. ReadsConst("Float") = <<<<"ty", "u32">>, <<"bits", "u64">>>> /\ WritesConst("Float") = <<<<"ty", "u32">>, <<"bits", "u64">>>>
    BY DEF ReadsConst, WritesConst
  <1>5. ReadsConst("Null") = <<<<"pointee", "u32">>>> /\ WritesConst("Null") = <<<<"pointee", "u32">>>>
    BY DEF ReadsConst, WritesConst
  <1>6. ReadsConst("String") = <<<<"bytes", "blob">>>> /\ WritesConst("String") = <<<<"bytes", "blob">>>>
    BY DEF ReadsConst, WritesConst
  <1>7. ReadsConst("Aggregate") = <<<<"ty", "u32">>, <<"elements", "ids">>>> /\ WritesConst("Aggregate") = <<<<"ty", "u32">>, <<"elements", "ids">>>>
    BY DEF ReadsConst, WritesConst
  <1>8. \A t \in {"Int", "Float", "Null", "String", "Aggregate"} : Plain(ReadsConst(t)) /\ WritesConst(t) = ReadsConst(t)
    <2>1. Plain(ReadsConst("Int")) /\ WritesConst("Int") = ReadsConst("Int")
      BY <1>3, PlainLists, Zenon
    <2>2. Plain(ReadsConst("Float")) /\ WritesConst("Float") = ReadsConst("Float")
      BY <1>4, PlainLists, Zenon
    <2>3. Plain(ReadsConst("Null")) /\ WritesConst("Null") = ReadsConst("Null")
      BY <1>5, PlainLists, Zenon
    <2>4. Plain(ReadsConst("String")) /\ WritesConst("String") = ReadsConst("String")
      BY <1>6, PlainLists, Zenon
    <2>5. Plain(ReadsConst("Aggregate")) /\ WritesConst("Aggregate") = ReadsConst("Aggregate")
      BY <1>7, PlainLists, Zenon
    <2> QED BY <2>1, <2>2, <2>3, <2>4, <2>5, Zenon
  <1> QED BY <1>1, <1>2, <1>8

KindFields == [t \in {ValueTags[i] : i \in 1..Len(ValueTags)} |-> ReadsKind(t)]
LEMMA KindLists ==
    \A t : InTable(ValueTags, t) => KindFields[t] = ReadsKind(t) /\ Plain(ReadsKind(t)) /\ WritesKind(t) = ReadsKind(t)
  <1>1. ASSUME NEW t, InTable(ValueTags, t) PROVE KindFields[t] = ReadsKind(t)
    BY <1>1, Zenon DEF KindFields, InTable
  <1>2. \A t : InTable(ValueTags, t) => t \in {"Reserved", "Param", "BlockParam", "Inst"}
    BY DEF InTable, ValueTags
  <1>3. ReadsKind("Reserved") = <<>> /\ WritesKind("Reserved") = <<>>
    BY DEF ReadsKind, WritesKind
  <1>4. ReadsKind("Param") = <<<<"index", "u32">>>> /\ WritesKind("Param") = <<<<"index", "u32">>>>
    BY DEF ReadsKind, WritesKind
  <1>5. ReadsKind("BlockParam") = <<<<"block", "u32">>, <<"index", "u32">>>> /\ WritesKind("BlockParam") = <<<<"block", "u32">>, <<"index", "u32">>>>
    BY DEF ReadsKind, WritesKind
  <1>6. ReadsKind("Inst") = <<<<"block", "u32">>, <<"index", "u32">>>> /\ WritesKind("Inst") = <<<<"block", "u32">>, <<"index", "u32">>>>
    BY DEF ReadsKind, WritesKind
  <1>7. \A t \in {"Reserved", "Param", "BlockParam", "Inst"} : Plain(ReadsKind(t)) /\ WritesKind(t) = ReadsKind(t)
    <2>1. Plain(ReadsKind("Reserved")) /\ WritesKind("Reserved") = ReadsKind("Reserved")
      BY <1>3, PlainLists, Zenon
    <2>2. Plain(ReadsKind("Param")) /\ WritesKind("Param") = ReadsKind("Param")
      BY <1>4, PlainLists, Zenon
    <2>3. Plain(ReadsKind("BlockParam")) /\ WritesKind("BlockParam") = ReadsKind("BlockParam")
      BY <1>5, PlainLists, Zenon
    <2>4. Plain(ReadsKind("Inst")) /\ WritesKind("Inst") = ReadsKind("Inst")
      BY <1>6, PlainLists, Zenon
    <2> QED BY <2>1, <2>2, <2>3, <2>4, Zenon
  <1> QED BY <1>1, <1>2, <1>7

TermFields == [t \in {TermTags[i] : i \in 1..Len(TermTags)} |-> ReadsTerm(t)]
LEMMA TermLists ==
    \A t : InTable(TermTags, t) => TermFields[t] = ReadsTerm(t) /\ Plain(ReadsTerm(t)) /\ WritesTerm(t) = ReadsTerm(t)
  <1>1. ASSUME NEW t, InTable(TermTags, t) PROVE TermFields[t] = ReadsTerm(t)
    BY <1>1, Zenon DEF TermFields, InTable
  <1>2. \A t : InTable(TermTags, t) => t \in {"None", "Jump", "Branch", "Return", "Unreachable"}
    BY DEF InTable, TermTags
  <1>3. ReadsTerm("None") = <<>> /\ WritesTerm("None") = <<>>
    BY DEF ReadsTerm, WritesTerm
  <1>4. ReadsTerm("Jump") = <<<<"target", "u32">>, <<"args", "ids">>>> /\ WritesTerm("Jump") = <<<<"target", "u32">>, <<"args", "ids">>>>
    BY DEF ReadsTerm, WritesTerm
  <1>5. ReadsTerm("Branch") = <<<<"condition", "u32">>, <<"then_block", "u32">>, <<"then_args", "ids">>, <<"else_block", "u32">>, <<"else_args", "ids">>>> /\ WritesTerm("Branch") = <<<<"condition", "u32">>, <<"then_block", "u32">>, <<"then_args", "ids">>, <<"else_block", "u32">>, <<"else_args", "ids">>>>
    BY DEF ReadsTerm, WritesTerm
  <1>6. ReadsTerm("Return") = <<<<"value", "opt">>>> /\ WritesTerm("Return") = <<<<"value", "opt">>>>
    BY DEF ReadsTerm, WritesTerm
  <1>7. ReadsTerm("Unreachable") = <<>> /\ WritesTerm("Unreachable") = <<>>
    BY DEF ReadsTerm, WritesTerm
  <1>8. \A t \in {"None", "Jump", "Branch", "Return", "Unreachable"} : Plain(ReadsTerm(t)) /\ WritesTerm(t) = ReadsTerm(t)
    <2>1. Plain(ReadsTerm("None")) /\ WritesTerm("None") = ReadsTerm("None")
      BY <1>3, PlainLists, Zenon
    <2>2. Plain(ReadsTerm("Jump")) /\ WritesTerm("Jump") = ReadsTerm("Jump")
      BY <1>4, PlainLists, Zenon
    <2>3. Plain(ReadsTerm("Branch")) /\ WritesTerm("Branch") = ReadsTerm("Branch")
      BY <1>5, PlainLists, Zenon
    <2>4. Plain(ReadsTerm("Return")) /\ WritesTerm("Return") = ReadsTerm("Return")
      BY <1>6, PlainLists, Zenon
    <2>5. Plain(ReadsTerm("Unreachable")) /\ WritesTerm("Unreachable") = ReadsTerm("Unreachable")
      BY <1>7, PlainLists, Zenon
    <2> QED BY <2>1, <2>2, <2>3, <2>4, <2>5, Zenon
  <1> QED BY <1>1, <1>2, <1>8

InstFields == [t \in {Opcodes[i] : i \in 1..Len(Opcodes)} |-> ReadsInst(t)]
LEMMA InstLists ==
    \A t : InTable(Opcodes, t) => InstFields[t] = ReadsInst(t) /\ Plain(ReadsInst(t)) /\ WritesInst(t) = ReadsInst(t)
  <1>1. ASSUME NEW t, InTable(Opcodes, t) PROVE InstFields[t] = ReadsInst(t)
    BY <1>1, Zenon DEF InstFields, InTable
  <1>2. \A t : InTable(Opcodes, t) => t \in {"const", "add", "sub", "mul", "div", "rem", "and", "or", "xor", "shl", "shr", "eq", "ne", "lt", "le", "gt", "ge", "alloca", "load", "store", "ptr_offset", "ext", "trunc", "int_to_float", "float_to_int", "ptr_cast", "call", "construct", "extract", "insert"}
    BY DEF InTable, Opcodes
  <1>3. ReadsInst("const") = <<<<"constant", "u32">>>> /\ WritesInst("const") = <<<<"constant", "u32">>>>
    BY DEF ReadsInst, WritesInst, Binary
  <1>4. ReadsInst("add") = <<<<"lhs", "u32">>, <<"rhs", "u32">>>> /\ WritesInst("add") = <<<<"lhs", "u32">>, <<"rhs", "u32">>>>
    BY DEF ReadsInst, WritesInst, Binary
  <1>5. ReadsInst("sub") = <<<<"lhs", "u32">>, <<"rhs", "u32">>>> /\ WritesInst("sub") = <<<<"lhs", "u32">>, <<"rhs", "u32">>>>
    BY DEF ReadsInst, WritesInst, Binary
  <1>6. ReadsInst("mul") = <<<<"lhs", "u32">>, <<"rhs", "u32">>>> /\ WritesInst("mul") = <<<<"lhs", "u32">>, <<"rhs", "u32">>>>
    BY DEF ReadsInst, WritesInst, Binary
  <1>7. ReadsInst("div") = <<<<"lhs", "u32">>, <<"rhs", "u32">>>> /\ WritesInst("div") = <<<<"lhs", "u32">>, <<"rhs", "u32">>>>
    BY DEF ReadsInst, WritesInst, Binary
  <1>8. ReadsInst("rem") = <<<<"lhs", "u32">>, <<"rhs", "u32">>>> /\ WritesInst("rem") = <<<<"lhs", "u32">>, <<"rhs", "u32">>>>
    BY DEF ReadsInst, WritesInst, Binary
  <1>9. ReadsInst("and") = <<<<"lhs", "u32">>, <<"rhs", "u32">>>> /\ WritesInst("and") = <<<<"lhs", "u32">>, <<"rhs", "u32">>>>
    BY DEF ReadsInst, WritesInst, Binary
  <1>10. ReadsInst("or") = <<<<"lhs", "u32">>, <<"rhs", "u32">>>> /\ WritesInst("or") = <<<<"lhs", "u32">>, <<"rhs", "u32">>>>
    BY DEF ReadsInst, WritesInst, Binary
  <1>11. ReadsInst("xor") = <<<<"lhs", "u32">>, <<"rhs", "u32">>>> /\ WritesInst("xor") = <<<<"lhs", "u32">>, <<"rhs", "u32">>>>
    BY DEF ReadsInst, WritesInst, Binary
  <1>12. ReadsInst("shl") = <<<<"lhs", "u32">>, <<"rhs", "u32">>>> /\ WritesInst("shl") = <<<<"lhs", "u32">>, <<"rhs", "u32">>>>
    BY DEF ReadsInst, WritesInst, Binary
  <1>13. ReadsInst("shr") = <<<<"lhs", "u32">>, <<"rhs", "u32">>>> /\ WritesInst("shr") = <<<<"lhs", "u32">>, <<"rhs", "u32">>>>
    BY DEF ReadsInst, WritesInst, Binary
  <1>14. ReadsInst("eq") = <<<<"lhs", "u32">>, <<"rhs", "u32">>>> /\ WritesInst("eq") = <<<<"lhs", "u32">>, <<"rhs", "u32">>>>
    BY DEF ReadsInst, WritesInst, Binary
  <1>15. ReadsInst("ne") = <<<<"lhs", "u32">>, <<"rhs", "u32">>>> /\ WritesInst("ne") = <<<<"lhs", "u32">>, <<"rhs", "u32">>>>
    BY DEF ReadsInst, WritesInst, Binary
  <1>16. ReadsInst("lt") = <<<<"lhs", "u32">>, <<"rhs", "u32">>>> /\ WritesInst("lt") = <<<<"lhs", "u32">>, <<"rhs", "u32">>>>
    BY DEF ReadsInst, WritesInst, Binary
  <1>17. ReadsInst("le") = <<<<"lhs", "u32">>, <<"rhs", "u32">>>> /\ WritesInst("le") = <<<<"lhs", "u32">>, <<"rhs", "u32">>>>
    BY DEF ReadsInst, WritesInst, Binary
  <1>18. ReadsInst("gt") = <<<<"lhs", "u32">>, <<"rhs", "u32">>>> /\ WritesInst("gt") = <<<<"lhs", "u32">>, <<"rhs", "u32">>>>
    BY DEF ReadsInst, WritesInst, Binary
  <1>19. ReadsInst("ge") = <<<<"lhs", "u32">>, <<"rhs", "u32">>>> /\ WritesInst("ge") = <<<<"lhs", "u32">>, <<"rhs", "u32">>>>
    BY DEF ReadsInst, WritesInst, Binary
  <1>20. ReadsInst("alloca") = <<<<"ty", "u32">>>> /\ WritesInst("alloca") = <<<<"ty", "u32">>>>
    BY DEF ReadsInst, WritesInst, Binary
  <1>21. ReadsInst("load") = <<<<"ty", "u32">>, <<"pointer", "u32">>>> /\ WritesInst("load") = <<<<"ty", "u32">>, <<"pointer", "u32">>>>
    BY DEF ReadsInst, WritesInst, Binary
  <1>22. ReadsInst("store") = <<<<"pointer", "u32">>, <<"value", "u32">>>> /\ WritesInst("store") = <<<<"pointer", "u32">>, <<"value", "u32">>>>
    BY DEF ReadsInst, WritesInst, Binary
  <1>23. ReadsInst("ptr_offset") = <<<<"pointer", "u32">>, <<"offset", "u32">>>> /\ WritesInst("ptr_offset") = <<<<"pointer", "u32">>, <<"offset", "u32">>>>
    BY DEF ReadsInst, WritesInst, Binary
  <1>24. ReadsInst("ext") = <<<<"to", "u32">>, <<"value", "u32">>>> /\ WritesInst("ext") = <<<<"to", "u32">>, <<"value", "u32">>>>
    BY DEF ReadsInst, WritesInst, Binary
  <1>25. ReadsInst("trunc") = <<<<"to", "u32">>, <<"value", "u32">>>> /\ WritesInst("trunc") = <<<<"to", "u32">>, <<"value", "u32">>>>
    BY DEF ReadsInst, WritesInst, Binary
  <1>26. ReadsInst("int_to_float") = <<<<"to", "u32">>, <<"value", "u32">>>> /\ WritesInst("int_to_float") = <<<<"to", "u32">>, <<"value", "u32">>>>
    BY DEF ReadsInst, WritesInst, Binary
  <1>27. ReadsInst("float_to_int") = <<<<"to", "u32">>, <<"value", "u32">>>> /\ WritesInst("float_to_int") = <<<<"to", "u32">>, <<"value", "u32">>>>
    BY DEF ReadsInst, WritesInst, Binary
  <1>28. ReadsInst("ptr_cast") = <<<<"to", "u32">>, <<"value", "u32">>>> /\ WritesInst("ptr_cast") = <<<<"to", "u32">>, <<"value", "u32">>>>
    BY DEF ReadsInst, WritesInst, Binary
  <1>29. ReadsInst("call") = <<<<"callee", "u32">>, <<"args", "ids">>>> /\ WritesInst("call") = <<<<"callee", "u32">>, <<"args", "ids">>>>
    BY DEF ReadsInst, WritesInst, Binary
  <1>30. ReadsInst("construct") = <<<<"ty", "u32">>, <<"args", "ids">>>> /\ WritesInst("construct") = <<<<"ty", "u32">>, <<"args", "ids">>>>
    BY DEF ReadsInst, WritesInst, Binary
  <1>31. ReadsInst("extract") = <<<<"aggregate", "u32">>, <<"index", "u32">>>> /\ WritesInst("extract") = <<<<"aggregate", "u32">>, <<"index", "u32">>>>
    BY DEF ReadsInst, WritesInst, Binary
  <1>32. ReadsInst("insert") = <<<<"aggregate", "u32">>, <<"index", "u32">>, <<"value", "u32">>>> /\ WritesInst("insert") = <<<<"aggregate", "u32">>, <<"index", "u32">>, <<"value", "u32">>>>
    BY DEF ReadsInst, WritesInst, Binary
  <1>33. \A t \in {"const", "add", "sub", "mul", "div", "rem", "and", "or", "xor", "shl", "shr", "eq", "ne", "lt", "le", "gt", "ge", "alloca", "load", "store", "ptr_offset", "ext", "trunc", "int_to_float", "float_to_int", "ptr_cast", "call", "construct", "extract", "insert"} : Plain(ReadsInst(t)) /\ WritesInst(t) = ReadsInst(t)
    <2>1. Plain(ReadsInst("const")) /\ WritesInst("const") = ReadsInst("const")
      BY <1>3, PlainLists, Zenon
    <2>2. Plain(ReadsInst("add")) /\ WritesInst("add") = ReadsInst("add")
      BY <1>4, PlainLists, Zenon
    <2>3. Plain(ReadsInst("sub")) /\ WritesInst("sub") = ReadsInst("sub")
      BY <1>5, PlainLists, Zenon
    <2>4. Plain(ReadsInst("mul")) /\ WritesInst("mul") = ReadsInst("mul")
      BY <1>6, PlainLists, Zenon
    <2>5. Plain(ReadsInst("div")) /\ WritesInst("div") = ReadsInst("div")
      BY <1>7, PlainLists, Zenon
    <2>6. Plain(ReadsInst("rem")) /\ WritesInst("rem") = ReadsInst("rem")
      BY <1>8, PlainLists, Zenon
    <2>7. Plain(ReadsInst("and")) /\ WritesInst("and") = ReadsInst("and")
      BY <1>9, PlainLists, Zenon
    <2>8. Plain(ReadsInst("or")) /\ WritesInst("or") = ReadsInst("or")
      BY <1>10, PlainLists, Zenon
    <2>9. Plain(ReadsInst("xor")) /\ WritesInst("xor") = ReadsInst("xor")
      BY <1>11, PlainLists, Zenon
    <2>10. Plain(ReadsInst("shl")) /\ WritesInst("shl") = ReadsInst("shl")
      BY <1>12, PlainLists, Zenon
    <2>11. Plain(ReadsInst("shr")) /\ WritesInst("shr") = ReadsInst("shr")
      BY <1>13, PlainLists, Zenon
    <2>12. Plain(ReadsInst("eq")) /\ WritesInst("eq") = ReadsInst("eq")
      BY <1>14, PlainLists, Zenon
    <2>13. Plain(ReadsInst("ne")) /\ WritesInst("ne") = ReadsInst("ne")
      BY <1>15, PlainLists, Zenon
    <2>14. Plain(ReadsInst("lt")) /\ WritesInst("lt") = ReadsInst("lt")
      BY <1>16, PlainLists, Zenon
    <2>15. Plain(ReadsInst("le")) /\ WritesInst("le") = ReadsInst("le")
      BY <1>17, PlainLists, Zenon
    <2>16. Plain(ReadsInst("gt")) /\ WritesInst("gt") = ReadsInst("gt")
      BY <1>18, PlainLists, Zenon
    <2>17. Plain(ReadsInst("ge")) /\ WritesInst("ge") = ReadsInst("ge")
      BY <1>19, PlainLists, Zenon
    <2>18. Plain(ReadsInst("alloca")) /\ WritesInst("alloca") = ReadsInst("alloca")
      BY <1>20, PlainLists, Zenon
    <2>19. Plain(ReadsInst("load")) /\ WritesInst("load") = ReadsInst("load")
      BY <1>21, PlainLists, Zenon
    <2>20. Plain(ReadsInst("store")) /\ WritesInst("store") = ReadsInst("store")
      BY <1>22, PlainLists, Zenon
    <2>21. Plain(ReadsInst("ptr_offset")) /\ WritesInst("ptr_offset") = ReadsInst("ptr_offset")
      BY <1>23, PlainLists, Zenon
    <2>22. Plain(ReadsInst("ext")) /\ WritesInst("ext") = ReadsInst("ext")
      BY <1>24, PlainLists, Zenon
    <2>23. Plain(ReadsInst("trunc")) /\ WritesInst("trunc") = ReadsInst("trunc")
      BY <1>25, PlainLists, Zenon
    <2>24. Plain(ReadsInst("int_to_float")) /\ WritesInst("int_to_float") = ReadsInst("int_to_float")
      BY <1>26, PlainLists, Zenon
    <2>25. Plain(ReadsInst("float_to_int")) /\ WritesInst("float_to_int") = ReadsInst("float_to_int")
      BY <1>27, PlainLists, Zenon
    <2>26. Plain(ReadsInst("ptr_cast")) /\ WritesInst("ptr_cast") = ReadsInst("ptr_cast")
      BY <1>28, PlainLists, Zenon
    <2>27. Plain(ReadsInst("call")) /\ WritesInst("call") = ReadsInst("call")
      BY <1>29, PlainLists, Zenon
    <2>28. Plain(ReadsInst("construct")) /\ WritesInst("construct") = ReadsInst("construct")
      BY <1>30, PlainLists, Zenon
    <2>29. Plain(ReadsInst("extract")) /\ WritesInst("extract") = ReadsInst("extract")
      BY <1>31, PlainLists, Zenon
    <2>30. Plain(ReadsInst("insert")) /\ WritesInst("insert") = ReadsInst("insert")
      BY <1>32, PlainLists, Zenon
    <2> QED BY <2>1, <2>2, <2>3, <2>4, <2>5, <2>6, <2>7, <2>8, <2>9, <2>10, <2>11, <2>12, <2>13, <2>14, <2>15, <2>16, <2>17, <2>18, <2>19, <2>20, <2>21, <2>22, <2>23, <2>24, <2>25, <2>26, <2>27, <2>28, <2>29, <2>30, Zenon
  <1> QED BY <1>1, <1>2, <1>33

-----------------------------------------------------------------------------
(* The tagged records of a file                                            *)

TypeLegal(r) == TaggedLegal(TypeTags, TypeFields, r)
TypeWritten(r) == TaggedBytes(TypeTags, WritesType, r)
LEMMA TypeTable == TaggedOK(TypeTags, TypeFields)
  <1>1. \A t : InTable(TypeTags, t) => ListOK(TypeFields[t])
    BY TypeLists, PlainMatches
  <1> QED BY <1>1, SmallTables DEF TaggedOK

LEMMA TypeTyped ==
    ASSUME FileOK, NEW r, TypeLegal(r)
    PROVE  /\ TypeWritten(r) = TaggedBytesOf(TypeTags, TypeFields, r)
           /\ TypeWritten(r) \in Seq(Byte) /\ Len(TypeWritten(r)) >= 1
  <1>1. InTable(TypeTags, r.tag)
    BY DEF TypeLegal, TaggedLegal
  <1>2. TypeFields[r.tag] = ReadsType(r.tag) /\ Plain(ReadsType(r.tag)) /\ WritesType(r.tag) = ReadsType(r.tag)
    BY <1>1, TypeLists
  <1>3. RecordBytes(TypeFields[r.tag], r) = FieldsBytes(WritesType(r.tag), r)
    <2>1. Matches(ReadsType(r.tag), ReadsType(r.tag))
      BY <1>2, PlainMatches
    <2>2. RecordBytes(ReadsType(r.tag), r) = FieldsBytes(ReadsType(r.tag), r)
      BY <2>1, MatchesBytes
    <2> QED BY <1>2, <2>2
  <1>4. TypeWritten(r) = TaggedBytesOf(TypeTags, TypeFields, r)
    BY <1>3, Zenon DEF TypeWritten, TaggedBytes, TaggedBytesOf
  <1>5. /\ TaggedBytesOf(TypeTags, TypeFields, r) \in Seq(Byte)
        /\ Len(TaggedBytesOf(TypeTags, TypeFields, r)) >= 1
    BY TypeTable, TaggedTyped DEF TypeLegal
  <1> QED BY <1>4, <1>5

LEMMA TypeReads ==
    ASSUME FileOK, NEW p \in Nat
    PROVE  \A s : s \in Tagged(p, TypeTags, ReadsType) <=> TypeLegal(s.val) /\ Result(s, p, s.val, TypeWritten(s.val))
  <1> DEFINE R == Tagged(p, TypeTags, ReadsType)
  <1>1. \A t \in Tag(p, TypeTags) : InTable(TypeTags, t.val)
    BY SmallTables, TagReads
  <1>2. \A s : s \in R <=> \E t \in Tag(p, TypeTags) : s \in Fields(t.pos, ReadsType(t.val), [tag |-> t.val])
    BY Zenon DEF Tagged, Then
  <1>3. \A t \in Tag(p, TypeTags) : TypeFields[t.val] = ReadsType(t.val)
    BY <1>1, TypeLists
  <1> HIDE DEF R
  <1>4. ReadsTagged(R, p, TypeTags, TypeFields)
    BY <1>2, <1>3, Zenon DEF ReadsTagged
  <1>5. \A s : s \in R <=> /\ TaggedLegal(TypeTags, TypeFields, s.val)
                           /\ Result(s, p, s.val, TaggedBytesOf(TypeTags, TypeFields, s.val))
    BY <1>4, TypeTable, TaggedReads
  <1>6. \A r : TypeLegal(r) => TypeWritten(r) = TaggedBytesOf(TypeTags, TypeFields, r)
    BY TypeTyped
  <1> QED BY <1>5, <1>6, Zenon DEF R, TypeLegal

ConstLegal(r) == TaggedLegal(ConstTags, ConstFields, r)
ConstWritten(r) == TaggedBytes(ConstTags, WritesConst, r)
LEMMA ConstTable == TaggedOK(ConstTags, ConstFields)
  <1>1. \A t : InTable(ConstTags, t) => ListOK(ConstFields[t])
    BY ConstLists, PlainMatches
  <1> QED BY <1>1, SmallTables DEF TaggedOK

LEMMA ConstTyped ==
    ASSUME FileOK, NEW r, ConstLegal(r)
    PROVE  /\ ConstWritten(r) = TaggedBytesOf(ConstTags, ConstFields, r)
           /\ ConstWritten(r) \in Seq(Byte) /\ Len(ConstWritten(r)) >= 1
  <1>1. InTable(ConstTags, r.tag)
    BY DEF ConstLegal, TaggedLegal
  <1>2. ConstFields[r.tag] = ReadsConst(r.tag) /\ Plain(ReadsConst(r.tag)) /\ WritesConst(r.tag) = ReadsConst(r.tag)
    BY <1>1, ConstLists
  <1>3. RecordBytes(ConstFields[r.tag], r) = FieldsBytes(WritesConst(r.tag), r)
    <2>1. Matches(ReadsConst(r.tag), ReadsConst(r.tag))
      BY <1>2, PlainMatches
    <2>2. RecordBytes(ReadsConst(r.tag), r) = FieldsBytes(ReadsConst(r.tag), r)
      BY <2>1, MatchesBytes
    <2> QED BY <1>2, <2>2
  <1>4. ConstWritten(r) = TaggedBytesOf(ConstTags, ConstFields, r)
    BY <1>3, Zenon DEF ConstWritten, TaggedBytes, TaggedBytesOf
  <1>5. /\ TaggedBytesOf(ConstTags, ConstFields, r) \in Seq(Byte)
        /\ Len(TaggedBytesOf(ConstTags, ConstFields, r)) >= 1
    BY ConstTable, TaggedTyped DEF ConstLegal
  <1> QED BY <1>4, <1>5

LEMMA ConstReads ==
    ASSUME FileOK, NEW p \in Nat
    PROVE  \A s : s \in Tagged(p, ConstTags, ReadsConst) <=> ConstLegal(s.val) /\ Result(s, p, s.val, ConstWritten(s.val))
  <1> DEFINE R == Tagged(p, ConstTags, ReadsConst)
  <1>1. \A t \in Tag(p, ConstTags) : InTable(ConstTags, t.val)
    BY SmallTables, TagReads
  <1>2. \A s : s \in R <=> \E t \in Tag(p, ConstTags) : s \in Fields(t.pos, ReadsConst(t.val), [tag |-> t.val])
    BY Zenon DEF Tagged, Then
  <1>3. \A t \in Tag(p, ConstTags) : ConstFields[t.val] = ReadsConst(t.val)
    BY <1>1, ConstLists
  <1> HIDE DEF R
  <1>4. ReadsTagged(R, p, ConstTags, ConstFields)
    BY <1>2, <1>3, Zenon DEF ReadsTagged
  <1>5. \A s : s \in R <=> /\ TaggedLegal(ConstTags, ConstFields, s.val)
                           /\ Result(s, p, s.val, TaggedBytesOf(ConstTags, ConstFields, s.val))
    BY <1>4, ConstTable, TaggedReads
  <1>6. \A r : ConstLegal(r) => ConstWritten(r) = TaggedBytesOf(ConstTags, ConstFields, r)
    BY ConstTyped
  <1> QED BY <1>5, <1>6, Zenon DEF R, ConstLegal

KindLegal(r) == TaggedLegal(ValueTags, KindFields, r)
KindWritten(r) == TaggedBytes(ValueTags, WritesKind, r)
LEMMA KindTable == TaggedOK(ValueTags, KindFields)
  <1>1. \A t : InTable(ValueTags, t) => ListOK(KindFields[t])
    BY KindLists, PlainMatches
  <1> QED BY <1>1, SmallTables DEF TaggedOK

LEMMA KindTyped ==
    ASSUME FileOK, NEW r, KindLegal(r)
    PROVE  /\ KindWritten(r) = TaggedBytesOf(ValueTags, KindFields, r)
           /\ KindWritten(r) \in Seq(Byte) /\ Len(KindWritten(r)) >= 1
  <1>1. InTable(ValueTags, r.tag)
    BY DEF KindLegal, TaggedLegal
  <1>2. KindFields[r.tag] = ReadsKind(r.tag) /\ Plain(ReadsKind(r.tag)) /\ WritesKind(r.tag) = ReadsKind(r.tag)
    BY <1>1, KindLists
  <1>3. RecordBytes(KindFields[r.tag], r) = FieldsBytes(WritesKind(r.tag), r)
    <2>1. Matches(ReadsKind(r.tag), ReadsKind(r.tag))
      BY <1>2, PlainMatches
    <2>2. RecordBytes(ReadsKind(r.tag), r) = FieldsBytes(ReadsKind(r.tag), r)
      BY <2>1, MatchesBytes
    <2> QED BY <1>2, <2>2
  <1>4. KindWritten(r) = TaggedBytesOf(ValueTags, KindFields, r)
    BY <1>3, Zenon DEF KindWritten, TaggedBytes, TaggedBytesOf
  <1>5. /\ TaggedBytesOf(ValueTags, KindFields, r) \in Seq(Byte)
        /\ Len(TaggedBytesOf(ValueTags, KindFields, r)) >= 1
    BY KindTable, TaggedTyped DEF KindLegal
  <1> QED BY <1>4, <1>5

LEMMA KindReads ==
    ASSUME FileOK, NEW p \in Nat
    PROVE  \A s : s \in Tagged(p, ValueTags, ReadsKind) <=> KindLegal(s.val) /\ Result(s, p, s.val, KindWritten(s.val))
  <1> DEFINE R == Tagged(p, ValueTags, ReadsKind)
  <1>1. \A t \in Tag(p, ValueTags) : InTable(ValueTags, t.val)
    BY SmallTables, TagReads
  <1>2. \A s : s \in R <=> \E t \in Tag(p, ValueTags) : s \in Fields(t.pos, ReadsKind(t.val), [tag |-> t.val])
    BY Zenon DEF Tagged, Then
  <1>3. \A t \in Tag(p, ValueTags) : KindFields[t.val] = ReadsKind(t.val)
    BY <1>1, KindLists
  <1> HIDE DEF R
  <1>4. ReadsTagged(R, p, ValueTags, KindFields)
    BY <1>2, <1>3, Zenon DEF ReadsTagged
  <1>5. \A s : s \in R <=> /\ TaggedLegal(ValueTags, KindFields, s.val)
                           /\ Result(s, p, s.val, TaggedBytesOf(ValueTags, KindFields, s.val))
    BY <1>4, KindTable, TaggedReads
  <1>6. \A r : KindLegal(r) => KindWritten(r) = TaggedBytesOf(ValueTags, KindFields, r)
    BY KindTyped
  <1> QED BY <1>5, <1>6, Zenon DEF R, KindLegal

TermLegal(r) == TaggedLegal(TermTags, TermFields, r)
TermWritten(r) == TaggedBytes(TermTags, WritesTerm, r)
LEMMA TermTable == TaggedOK(TermTags, TermFields)
  <1>1. \A t : InTable(TermTags, t) => ListOK(TermFields[t])
    BY TermLists, PlainMatches
  <1> QED BY <1>1, SmallTables DEF TaggedOK

LEMMA TermTyped ==
    ASSUME FileOK, NEW r, TermLegal(r)
    PROVE  /\ TermWritten(r) = TaggedBytesOf(TermTags, TermFields, r)
           /\ TermWritten(r) \in Seq(Byte) /\ Len(TermWritten(r)) >= 1
  <1>1. InTable(TermTags, r.tag)
    BY DEF TermLegal, TaggedLegal
  <1>2. TermFields[r.tag] = ReadsTerm(r.tag) /\ Plain(ReadsTerm(r.tag)) /\ WritesTerm(r.tag) = ReadsTerm(r.tag)
    BY <1>1, TermLists
  <1>3. RecordBytes(TermFields[r.tag], r) = FieldsBytes(WritesTerm(r.tag), r)
    <2>1. Matches(ReadsTerm(r.tag), ReadsTerm(r.tag))
      BY <1>2, PlainMatches
    <2>2. RecordBytes(ReadsTerm(r.tag), r) = FieldsBytes(ReadsTerm(r.tag), r)
      BY <2>1, MatchesBytes
    <2> QED BY <1>2, <2>2
  <1>4. TermWritten(r) = TaggedBytesOf(TermTags, TermFields, r)
    BY <1>3, Zenon DEF TermWritten, TaggedBytes, TaggedBytesOf
  <1>5. /\ TaggedBytesOf(TermTags, TermFields, r) \in Seq(Byte)
        /\ Len(TaggedBytesOf(TermTags, TermFields, r)) >= 1
    BY TermTable, TaggedTyped DEF TermLegal
  <1> QED BY <1>4, <1>5

LEMMA TermReads ==
    ASSUME FileOK, NEW p \in Nat
    PROVE  \A s : s \in Tagged(p, TermTags, ReadsTerm) <=> TermLegal(s.val) /\ Result(s, p, s.val, TermWritten(s.val))
  <1> DEFINE R == Tagged(p, TermTags, ReadsTerm)
  <1>1. \A t \in Tag(p, TermTags) : InTable(TermTags, t.val)
    BY SmallTables, TagReads
  <1>2. \A s : s \in R <=> \E t \in Tag(p, TermTags) : s \in Fields(t.pos, ReadsTerm(t.val), [tag |-> t.val])
    BY Zenon DEF Tagged, Then
  <1>3. \A t \in Tag(p, TermTags) : TermFields[t.val] = ReadsTerm(t.val)
    BY <1>1, TermLists
  <1> HIDE DEF R
  <1>4. ReadsTagged(R, p, TermTags, TermFields)
    BY <1>2, <1>3, Zenon DEF ReadsTagged
  <1>5. \A s : s \in R <=> /\ TaggedLegal(TermTags, TermFields, s.val)
                           /\ Result(s, p, s.val, TaggedBytesOf(TermTags, TermFields, s.val))
    BY <1>4, TermTable, TaggedReads
  <1>6. \A r : TermLegal(r) => TermWritten(r) = TaggedBytesOf(TermTags, TermFields, r)
    BY TermTyped
  <1> QED BY <1>5, <1>6, Zenon DEF R, TermLegal

InstLegal(r) == TaggedLegal(Opcodes, InstFields, r)
InstWritten(r) == TaggedBytes(Opcodes, WritesInst, r)
LEMMA InstTable == TaggedOK(Opcodes, InstFields)
  <1>1. \A t : InTable(Opcodes, t) => ListOK(InstFields[t])
    BY InstLists, PlainMatches
  <1> QED BY <1>1, OpcodeTable DEF TaggedOK

LEMMA InstTyped ==
    ASSUME FileOK, NEW r, InstLegal(r)
    PROVE  /\ InstWritten(r) = TaggedBytesOf(Opcodes, InstFields, r)
           /\ InstWritten(r) \in Seq(Byte) /\ Len(InstWritten(r)) >= 1
  <1>1. InTable(Opcodes, r.tag)
    BY DEF InstLegal, TaggedLegal
  <1>2. InstFields[r.tag] = ReadsInst(r.tag) /\ Plain(ReadsInst(r.tag)) /\ WritesInst(r.tag) = ReadsInst(r.tag)
    BY <1>1, InstLists
  <1>3. RecordBytes(InstFields[r.tag], r) = FieldsBytes(WritesInst(r.tag), r)
    <2>1. Matches(ReadsInst(r.tag), ReadsInst(r.tag))
      BY <1>2, PlainMatches
    <2>2. RecordBytes(ReadsInst(r.tag), r) = FieldsBytes(ReadsInst(r.tag), r)
      BY <2>1, MatchesBytes
    <2> QED BY <1>2, <2>2
  <1>4. InstWritten(r) = TaggedBytesOf(Opcodes, InstFields, r)
    BY <1>3, Zenon DEF InstWritten, TaggedBytes, TaggedBytesOf
  <1>5. /\ TaggedBytesOf(Opcodes, InstFields, r) \in Seq(Byte)
        /\ Len(TaggedBytesOf(Opcodes, InstFields, r)) >= 1
    BY InstTable, TaggedTyped DEF InstLegal
  <1> QED BY <1>4, <1>5

LEMMA InstReads ==
    ASSUME FileOK, NEW p \in Nat
    PROVE  \A s : s \in Tagged(p, Opcodes, ReadsInst) <=> InstLegal(s.val) /\ Result(s, p, s.val, InstWritten(s.val))
  <1> DEFINE R == Tagged(p, Opcodes, ReadsInst)
  <1>1. \A t \in Tag(p, Opcodes) : InTable(Opcodes, t.val)
    BY OpcodeTable, TagReads
  <1>2. \A s : s \in R <=> \E t \in Tag(p, Opcodes) : s \in Fields(t.pos, ReadsInst(t.val), [tag |-> t.val])
    BY Zenon DEF Tagged, Then
  <1>3. \A t \in Tag(p, Opcodes) : InstFields[t.val] = ReadsInst(t.val)
    BY <1>1, InstLists
  <1> HIDE DEF R
  <1>4. ReadsTagged(R, p, Opcodes, InstFields)
    BY <1>2, <1>3, Zenon DEF ReadsTagged
  <1>5. \A s : s \in R <=> /\ TaggedLegal(Opcodes, InstFields, s.val)
                           /\ Result(s, p, s.val, TaggedBytesOf(Opcodes, InstFields, s.val))
    BY <1>4, InstTable, TaggedReads
  <1>6. \A r : InstLegal(r) => InstWritten(r) = TaggedBytesOf(Opcodes, InstFields, r)
    BY InstTyped
  <1> QED BY <1>5, <1>6, Zenon DEF R, InstLegal

-----------------------------------------------------------------------------
(* The records without a tag                                               *)

\* Bytes of a few fields.
LEMMA FewFields ==
    ASSUME FileOK, NEW record, NEW fields, FieldsOK(fields, record), NEW r,
           Fills(fields, record, Len(fields), r)
    PROVE  LET b(i) == FieldBytesOf(fields, r, i)
           IN  /\ \A i \in 1..Len(fields) : b(i) \in Seq(Byte)
               /\ Len(fields) = 2 => RecordBytes(fields, r) = b(1) \o b(2)
               /\ Len(fields) = 3 => RecordBytes(fields, r) = b(1) \o b(2) \o b(3)
               /\ Len(fields) = 4 => RecordBytes(fields, r) = b(1) \o b(2) \o b(3) \o b(4)
  <1> DEFINE n == Len(fields)
             c == Bs(fields, r, n)
  <1>1. n \in Nat /\ n \in 0..n
    BY DEF FieldsOK
  <1>2. c \in Seq(Seq(Byte))
    <2> HIDE DEF n
    <2> QED BY <1>1, BsTyped DEF n
  <1>3. Len(c) = n /\ \A i \in 1..n : c[i] = FieldBytesOf(fields, r, i)
    BY <1>1 DEF Bs
  <1>4. RecordBytes(fields, r) = FlattenSeq(c)
    BY DEF RecordBytes
  <1> HIDE DEF c, n
  <1>5. \A i \in 1..n : c[i] \in Seq(Byte)
    BY <1>2, <1>3
  <1>6. /\ n = 2 => FlattenSeq(c) = c[1] \o c[2]
        /\ n = 3 => FlattenSeq(c) = c[1] \o c[2] \o c[3]
        /\ n = 4 => FlattenSeq(c) = c[1] \o c[2] \o c[3] \o c[4]
    BY <1>2, <1>3, FlattenFew
  <1>7. /\ n = 2 => c[1] = FieldBytesOf(fields, r, 1) /\ c[2] = FieldBytesOf(fields, r, 2)
        /\ n = 3 => /\ c[1] = FieldBytesOf(fields, r, 1) /\ c[2] = FieldBytesOf(fields, r, 2)
                    /\ c[3] = FieldBytesOf(fields, r, 3)
        /\ n = 4 => /\ c[1] = FieldBytesOf(fields, r, 1) /\ c[2] = FieldBytesOf(fields, r, 2)
                    /\ c[3] = FieldBytesOf(fields, r, 3) /\ c[4] = FieldBytesOf(fields, r, 4)
    BY <1>3
  <1> QED BY <1>3, <1>4, <1>5, <1>6, <1>7, Zenon DEF n

HeaderFields == <<<<"magic", "u8">>, <<"major", "u16">>, <<"minor", "u16">>, <<"flags", "u32">>>>
ModuleFields == <<<<"major", "u32">>, <<"minor", "u32">>, <<"name", "opt">>>>
BlockFields == <<<<"name", "opt symbol">>, <<"params", "pairs">>>>
EmptyFunction == [values |-> <<>>, blocks |-> <<>>]
EmptyBlock == [insts |-> <<>>, term |-> [tag |-> "None"]]

LEMMA HeaderForm ==
    /\ FieldsOK(HeaderFields, [tag |-> "Header"]) /\ Len(HeaderFields) = 4
    /\ \A r : /\ FieldBytesOf(HeaderFields, r, 1) = Number(r.magic, 1)
              /\ FieldBytesOf(HeaderFields, r, 2) = Number(r.major, W16)
              /\ FieldBytesOf(HeaderFields, r, 3) = Number(r.minor, W16)
              /\ FieldBytesOf(HeaderFields, r, 4) = U32(r.flags)
  <1> DEFINE p1 == <<"magic", "u8">>
             p2 == <<"major", "u16">>
             p3 == <<"minor", "u16">>
             p4 == <<"flags", "u32">>
             l == <<p1, p2, p3, p4>>
  <1>1. /\ p1[1] = "magic" /\ p1[2] = "u8" /\ p2[1] = "major" /\ p2[2] = "u16"
        /\ p3[1] = "minor" /\ p3[2] = "u16" /\ p4[1] = "flags" /\ p4[2] = "u32"
    OBVIOUS
  <1> HIDE DEF p1, p2, p3, p4
  <1>2. Len(l) = 4 /\ 1..4 = {1, 2, 3, 4} /\ l[1] = p1 /\ l[2] = p2 /\ l[3] = p3 /\ l[4] = p4
    OBVIOUS
  <1>3. l = HeaderFields
    BY DEF HeaderFields, p1, p2, p3, p4
  <1> HIDE DEF l
  <1>4. ListOK(l)
    <2>1. \A i \in 1..4 : l[i][2] \in Hows
      BY <1>1, <1>2 DEF Hows
    <2>2. \A i \in 1..4 : l[i][1] # "tag"
      BY <1>1, <1>2
    <2>3. \A i, j \in 1..4 : l[i][1] = l[j][1] => i = j
      BY <1>1, <1>2
    <2>4. 4 \in Nat
      OBVIOUS
    <2> QED BY <1>2, <2>1, <2>2, <2>3, <2>4, Zenon DEF ListOK
  <1>5. FieldsOK(l, [tag |-> "Header"])
    BY <1>4, ListFields
  <1>6. \A r : /\ FieldBytesOf(l, r, 1) = HowBytes("u8", r["magic"])
               /\ FieldBytesOf(l, r, 2) = HowBytes("u16", r["major"])
               /\ FieldBytesOf(l, r, 3) = HowBytes("u16", r["minor"])
               /\ FieldBytesOf(l, r, 4) = HowBytes("u32", r["flags"])
    BY <1>1, <1>2, Zenon DEF FieldBytesOf
  <1>7. \A v : HowBytes("u8", v) = Number(v, 1) /\ HowBytes("u16", v) = Number(v, W16) /\ HowBytes("u32", v) = U32(v)
    BY FieldForms, Zenon DEF U32
  <1>8. \A r : r["magic"] = r.magic /\ r["major"] = r.major /\ r["minor"] = r.minor /\ r["flags"] = r.flags
    OBVIOUS
  <1> QED BY <1>2, <1>3, <1>5, <1>6, <1>7, <1>8, Zenon

LEMMA ModuleForm ==
    /\ FieldsOK(ModuleFields, [tag |-> "Module"]) /\ Len(ModuleFields) = 3
    /\ \A r : /\ FieldBytesOf(ModuleFields, r, 1) = U32(r.major)
              /\ FieldBytesOf(ModuleFields, r, 2) = U32(r.minor)
              /\ FieldBytesOf(ModuleFields, r, 3) = Opt(r.name)
  <1> DEFINE p1 == <<"major", "u32">>
             p2 == <<"minor", "u32">>
             p3 == <<"name", "opt">>
             l == <<p1, p2, p3>>
  <1>1. /\ p1[1] = "major" /\ p1[2] = "u32" /\ p2[1] = "minor" /\ p2[2] = "u32"
        /\ p3[1] = "name" /\ p3[2] = "opt"
    OBVIOUS
  <1> HIDE DEF p1, p2, p3
  <1>2. Len(l) = 3 /\ 1..3 = {1, 2, 3} /\ l[1] = p1 /\ l[2] = p2 /\ l[3] = p3
    OBVIOUS
  <1>3. l = ModuleFields
    BY DEF ModuleFields, p1, p2, p3
  <1> HIDE DEF l
  <1>4. ListOK(l)
    <2>1. \A i \in 1..3 : l[i][2] \in Hows
      BY <1>1, <1>2 DEF Hows
    <2>2. \A i \in 1..3 : l[i][1] # "tag"
      BY <1>1, <1>2
    <2>3. \A i, j \in 1..3 : l[i][1] = l[j][1] => i = j
      BY <1>1, <1>2
    <2>4. 3 \in Nat
      OBVIOUS
    <2> QED BY <1>2, <2>1, <2>2, <2>3, <2>4, Zenon DEF ListOK
  <1>5. FieldsOK(l, [tag |-> "Module"])
    BY <1>4, ListFields
  <1>6. \A r : /\ FieldBytesOf(l, r, 1) = HowBytes("u32", r["major"])
               /\ FieldBytesOf(l, r, 2) = HowBytes("u32", r["minor"])
               /\ FieldBytesOf(l, r, 3) = HowBytes("opt", r["name"])
    BY <1>1, <1>2, Zenon DEF FieldBytesOf
  <1>7. \A v : HowBytes("u32", v) = U32(v) /\ HowBytes("opt", v) = Opt(v)
    BY FieldForms, Zenon DEF U32
  <1>8. \A r : r["major"] = r.major /\ r["minor"] = r.minor /\ r["name"] = r.name
    OBVIOUS
  <1> QED BY <1>2, <1>3, <1>5, <1>6, <1>7, <1>8, Zenon

LEMMA BlockForm ==
    /\ FieldsOK(BlockFields, EmptyBlock) /\ Len(BlockFields) = 2
    /\ \A r : /\ FieldBytesOf(BlockFields, r, 1) = Opt(r.name)
              /\ FieldBytesOf(BlockFields, r, 2) = List(r.params, Pair)
    /\ \A r : (\A i \in 1..2 : Legal(BlockFields[i][2], r[BlockFields[i][1]]))
              <=> OptSymLegal(r.name) /\ PairsLegal(r.params)
  <1> DEFINE p1 == <<"name", "opt symbol">>
             p2 == <<"params", "pairs">>
             l == <<p1, p2>>
  <1>1. p1[1] = "name" /\ p1[2] = "opt symbol" /\ p2[1] = "params" /\ p2[2] = "pairs"
    OBVIOUS
  <1> HIDE DEF p1, p2
  <1>2. Len(l) = 2 /\ 1..2 = {1, 2} /\ l[1] = p1 /\ l[2] = p2
    OBVIOUS
  <1>3. l = BlockFields
    BY DEF BlockFields, p1, p2
  <1> HIDE DEF l
  <1>4. DOMAIN EmptyBlock = {"insts", "term"} /\ EmptyBlock = [x \in DOMAIN EmptyBlock |-> EmptyBlock[x]]
    BY DEF EmptyBlock
  <1>5. FieldsOK(l, EmptyBlock)
    <2>1. \A i \in 1..2 : l[i][2] \in Hows
      BY <1>1, <1>2 DEF Hows
    <2>2. \A i \in 1..2 : l[i][1] \notin DOMAIN EmptyBlock
      BY <1>1, <1>2, <1>4
    <2>3. \A i, j \in 1..2 : l[i][1] = l[j][1] => i = j
      BY <1>1, <1>2
    <2>4. 2 \in Nat
      OBVIOUS
    <2> QED BY <1>2, <1>4, <2>1, <2>2, <2>3, <2>4 DEF FieldsOK
  <1>6. \A r : /\ FieldBytesOf(l, r, 1) = HowBytes("opt symbol", r["name"])
               /\ FieldBytesOf(l, r, 2) = HowBytes("pairs", r["params"])
    BY <1>1, <1>2, Zenon DEF FieldBytesOf
  <1>7. \A v : HowBytes("opt symbol", v) = Opt(v) /\ HowBytes("pairs", v) = List(v, Pair)
    BY FieldForms, Zenon
  <1>8. \A r : r["name"] = r.name /\ r["params"] = r.params
    OBVIOUS
  <1>9. \A v : (Legal("opt symbol", v) <=> OptSymLegal(v)) /\ (Legal("pairs", v) <=> PairsLegal(v))
    BY DEF Legal
  <1>10. \A r : (\A i \in 1..2 : Legal(l[i][2], r[l[i][1]]))
                <=> OptSymLegal(r.name) /\ PairsLegal(r.params)
    <2> SUFFICES ASSUME NEW r
                 PROVE  (\A i \in 1..2 : Legal(l[i][2], r[l[i][1]])) <=> OptSymLegal(r.name) /\ PairsLegal(r.params)
      OBVIOUS
    <2>1. Legal(l[1][2], r[l[1][1]]) <=> OptSymLegal(r.name)
      BY <1>1, <1>2, <1>8, <1>9, Zenon
    <2>2. Legal(l[2][2], r[l[2][1]]) <=> PairsLegal(r.params)
      BY <1>1, <1>2, <1>8, <1>9, Zenon
    <2> QED BY <1>2, <2>1, <2>2, Zenon
  <1> QED BY <1>2, <1>3, <1>5, <1>6, <1>7, <1>8, <1>10, Zenon

\* The names of the signature are apart, and none of them is a list that is filled later.
LEMMA SignatureForm ==
    /\ FieldsOK(ReadsSignature, EmptyFunction) /\ Len(ReadsSignature) = 6
    /\ Matches(ReadsSignature, WritesSignature)
    /\ Names(ReadsSignature, 6) = {"symbol", "linkage", "abi", "variadic", "result", "params"}
    /\ \A r : (\A i \in 1..6 : Legal(ReadsSignature[i][2], r[ReadsSignature[i][1]]))
              <=> /\ SymLegal(r.symbol) /\ InTable(LinkageTags, r.linkage) /\ AbiLegal(r.abi)
                  /\ IsBool(r.variadic) /\ FitsIn(r.result, W32) /\ PairsLegal(r.params)
  <1> DEFINE p1 == <<"symbol", "symbol">>
             p2 == <<"linkage", "linkage">>
             p3 == <<"abi", "abi">>
             p4 == <<"variadic", "bool">>
             p5 == <<"result", "u32">>
             p6 == <<"params", "pairs">>
             q1 == <<"symbol", "u32">>
             l == <<p1, p2, p3, p4, p5, p6>>
             w == <<q1, p2, p3, p4, p5, p6>>
  <1>1. /\ p1[1] = "symbol" /\ p1[2] = "symbol" /\ p2[1] = "linkage" /\ p2[2] = "linkage"
        /\ p3[1] = "abi" /\ p3[2] = "abi" /\ p4[1] = "variadic" /\ p4[2] = "bool"
        /\ p5[1] = "result" /\ p5[2] = "u32" /\ p6[1] = "params" /\ p6[2] = "pairs"
        /\ q1[1] = "symbol" /\ q1[2] = "u32"
    OBVIOUS
  <1> HIDE DEF p1, p2, p3, p4, p5, p6, q1
  <1>2. /\ Len(l) = 6 /\ DOMAIN w = 1..6 /\ 1..6 = {1, 2, 3, 4, 5, 6}
        /\ l[1] = p1 /\ l[2] = p2 /\ l[3] = p3 /\ l[4] = p4 /\ l[5] = p5 /\ l[6] = p6
        /\ w[1] = q1 /\ w[2] = p2 /\ w[3] = p3 /\ w[4] = p4 /\ w[5] = p5 /\ w[6] = p6
    OBVIOUS
  <1>3. l = ReadsSignature /\ w = WritesSignature
    BY DEF ReadsSignature, WritesSignature, p1, p2, p3, p4, p5, p6, q1
  <1> HIDE DEF l, w
  <1>4. DOMAIN EmptyFunction = {"values", "blocks"}
        /\ EmptyFunction = [x \in DOMAIN EmptyFunction |-> EmptyFunction[x]]
    BY DEF EmptyFunction
  <1>5. FieldsOK(l, EmptyFunction)
    <2>1. \A i \in 1..6 : l[i][2] \in Hows
      BY <1>1, <1>2 DEF Hows
    <2>2. \A i \in 1..6 : l[i][1] \notin DOMAIN EmptyFunction
      BY <1>1, <1>2, <1>4
    <2>3. \A i, j \in 1..6 : l[i][1] = l[j][1] => i = j
      BY <1>1, <1>2
    <2>4. 6 \in Nat
      OBVIOUS
    <2> QED BY <1>2, <1>4, <2>1, <2>2, <2>3, <2>4 DEF FieldsOK
  <1>6. Matches(l, w)
    <2>1. \A v : /\ HowBytes("symbol", v) = FieldBytes("u32", v)
                 /\ HowBytes("linkage", v) = FieldBytes("linkage", v)
                 /\ HowBytes("abi", v) = FieldBytes("abi", v)
                 /\ HowBytes("bool", v) = FieldBytes("bool", v)
                 /\ HowBytes("u32", v) = FieldBytes("u32", v)
                 /\ HowBytes("pairs", v) = FieldBytes("pairs", v)
      BY HowsAgree
    <2>2. \A i \in 1..6 : l[i][1] = w[i][1]
      BY <1>1, <1>2
    <2> DEFINE Same(i) == \A v : HowBytes(l[i][2], v) = FieldBytes(w[i][2], v)
    <2> HIDE DEF Same
    <2>3. Same(1) /\ Same(2) /\ Same(3) /\ Same(4) /\ Same(5) /\ Same(6)
      <3>1. Same(1)
        <4>1. l[1][2] = "symbol" /\ w[1][2] = "u32"
          BY <1>1, <1>2
        <4> QED BY <2>1, <4>1, Zenon DEF Same
      <3>2. Same(2)
        <4>1. l[2][2] = "linkage" /\ w[2][2] = "linkage"
          BY <1>1, <1>2
        <4> QED BY <2>1, <4>1, Zenon DEF Same
      <3>3. Same(3)
        <4>1. l[3][2] = "abi" /\ w[3][2] = "abi"
          BY <1>1, <1>2
        <4> QED BY <2>1, <4>1, Zenon DEF Same
      <3>4. Same(4)
        <4>1. l[4][2] = "bool" /\ w[4][2] = "bool"
          BY <1>1, <1>2
        <4> QED BY <2>1, <4>1, Zenon DEF Same
      <3>5. Same(5)
        <4>1. l[5][2] = "u32" /\ w[5][2] = "u32"
          BY <1>1, <1>2
        <4> QED BY <2>1, <4>1, Zenon DEF Same
      <3>6. Same(6)
        <4>1. l[6][2] = "pairs" /\ w[6][2] = "pairs"
          BY <1>1, <1>2
        <4> QED BY <2>1, <4>1, Zenon DEF Same
      <3> QED BY <3>1, <3>2, <3>3, <3>4, <3>5, <3>6
    <2>4. \A i \in 1..6 : Same(i)
      BY <2>3
    <2>5. 6 \in Nat
      OBVIOUS
    <2> QED BY <1>2, <2>2, <2>4, <2>5, Zenon DEF Matches, Same
  <1>7. Names(l, 6) = {"symbol", "linkage", "abi", "variadic", "result", "params"}
    BY <1>1, <1>2 DEF Names
  <1>8. \A r : (\A i \in 1..6 : Legal(l[i][2], r[l[i][1]]))
               <=> /\ SymLegal(r.symbol) /\ InTable(LinkageTags, r.linkage) /\ AbiLegal(r.abi)
                   /\ IsBool(r.variadic) /\ FitsIn(r.result, W32) /\ PairsLegal(r.params)
    <2> SUFFICES ASSUME NEW r
                 PROVE  (\A i \in 1..6 : Legal(l[i][2], r[l[i][1]]))
                        <=> /\ SymLegal(r.symbol) /\ InTable(LinkageTags, r.linkage) /\ AbiLegal(r.abi)
                            /\ IsBool(r.variadic) /\ FitsIn(r.result, W32) /\ PairsLegal(r.params)
      OBVIOUS
    <2>1. /\ Legal("symbol", r.symbol) <=> SymLegal(r.symbol)
          /\ Legal("linkage", r.linkage) <=> InTable(LinkageTags, r.linkage)
          /\ Legal("abi", r.abi) <=> AbiLegal(r.abi)
          /\ Legal("bool", r.variadic) <=> IsBool(r.variadic)
          /\ Legal("u32", r.result) <=> FitsIn(r.result, W32)
          /\ Legal("pairs", r.params) <=> PairsLegal(r.params)
      BY DEF Legal
    <2>2. /\ r["symbol"] = r.symbol /\ r["linkage"] = r.linkage /\ r["abi"] = r.abi
          /\ r["variadic"] = r.variadic /\ r["result"] = r.result /\ r["params"] = r.params
      OBVIOUS
    <2>3. /\ Legal(l[1][2], r[l[1][1]]) <=> SymLegal(r.symbol)
          /\ Legal(l[2][2], r[l[2][1]]) <=> InTable(LinkageTags, r.linkage)
          /\ Legal(l[3][2], r[l[3][1]]) <=> AbiLegal(r.abi)
          /\ Legal(l[4][2], r[l[4][1]]) <=> IsBool(r.variadic)
          /\ Legal(l[5][2], r[l[5][1]]) <=> FitsIn(r.result, W32)
          /\ Legal(l[6][2], r[l[6][1]]) <=> PairsLegal(r.params)
      <3>1. Legal(l[1][2], r[l[1][1]]) <=> SymLegal(r.symbol)
        BY <1>1, <1>2, <2>1, <2>2, Zenon
      <3>2. Legal(l[2][2], r[l[2][1]]) <=> InTable(LinkageTags, r.linkage)
        BY <1>1, <1>2, <2>1, <2>2, Zenon
      <3>3. Legal(l[3][2], r[l[3][1]]) <=> AbiLegal(r.abi)
        BY <1>1, <1>2, <2>1, <2>2, Zenon
      <3>4. Legal(l[4][2], r[l[4][1]]) <=> IsBool(r.variadic)
        BY <1>1, <1>2, <2>1, <2>2, Zenon
      <3>5. Legal(l[5][2], r[l[5][1]]) <=> FitsIn(r.result, W32)
        BY <1>1, <1>2, <2>1, <2>2, Zenon
      <3>6. Legal(l[6][2], r[l[6][1]]) <=> PairsLegal(r.params)
        BY <1>1, <1>2, <2>1, <2>2, Zenon
      <3> QED BY <3>1, <3>2, <3>3, <3>4, <3>5, <3>6
    <2> QED BY <1>2, <2>3, Zenon
  <1> QED BY <1>2, <1>3, <1>5, <1>6, <1>7, <1>8, Zenon


-----------------------------------------------------------------------------
(* The entries                                                             *)

\* What is read in two parts.
LEMMA TwoParts ==
    ASSUME FileOK, NEW p, NEW b \in Seq(Byte), NEW c \in Seq(Byte), NEW v, NEW w
    PROVE  \A q : Ends(p, b \o c, q) <=> \E m : /\ Result(Res(v, m), p, v, b)
                                                /\ Result(Res(w, q), m, w, c)
  <1>1. \A q : Ends(p, b \o c, q) <=> \E m : Ends(p, b, m) /\ Ends(m, c, q)
    BY EndsJoins
  <1>2. \A m : Ends(p, b, m) <=> Result(Res(v, m), p, v, b)
    BY ResFacts
  <1>3. \A m, q : Ends(m, c, q) <=> Result(Res(w, q), m, w, c)
    BY ResFacts
  <1> QED BY <1>1, <1>2, <1>3, Zenon

LEMMA TwoResults ==
    ASSUME FileOK, NEW p, NEW b \in Seq(Byte), NEW c \in Seq(Byte), NEW s, NEW t, NEW v, NEW w,
           Result(s, p, v, b), Result(t, s.pos, w, c)
    PROVE  Ends(p, b \o c, t.pos) /\ Ends(p, b, s.pos) /\ Ends(s.pos, c, t.pos)
  <1> DEFINE m == s.pos
             q == t.pos
  <1>1. Ends(p, b, m) /\ Ends(m, c, q)
    BY ResultIs, Zenon
  <1> HIDE DEF m, q
  <1>2. Ends(p, b \o c, q)
    BY <1>1, EndsJoins
  <1> QED BY <1>1, <1>2 DEF m, q

LEMMA SymbolRead ==
    ASSUME FileOK, pos \in Nat
    PROVE  \A s : s \in SymbolEntry
                  <=> /\ BlobLegal(s.val) /\ Utf8(s.val) /\ InternedAt(out.symbols, s.val)
                      /\ Result(s, pos, s.val, List(s.val, U8))
  <1>1. \A s : s \in SymbolEntry
               <=> s \in Blob(pos) /\ Utf8(s.val) /\ InternedAt(out.symbols, s.val)
    BY Zenon DEF SymbolEntry, Ensure
  <1>2. \A s : s \in Blob(pos) <=> BlobLegal(s.val) /\ Result(s, pos, s.val, List(s.val, U8))
    BY BlobReads
  <1> QED BY <1>1, <1>2, Zenon

LEMMA TypeRead ==
    ASSUME FileOK, pos \in Nat
    PROVE  \A s : s \in TypeEntry
                  <=> /\ TypeLegal(s.val) /\ TypeOk(s.val, Len(out.types))
                      /\ Result(s, pos, s.val, TypeBytes(s.val))
  <1>1. \A s : s \in TypeEntry
               <=> s \in Tagged(pos, TypeTags, ReadsType) /\ TypeOk(s.val, Len(out.types))
    BY Zenon DEF TypeEntry, Ensure
  <1>2. \A s : s \in Tagged(pos, TypeTags, ReadsType)
               <=> TypeLegal(s.val) /\ Result(s, pos, s.val, TypeWritten(s.val))
    BY TypeReads
  <1>3. \A v : TypeWritten(v) = TypeBytes(v)
    BY Zenon DEF TypeWritten, TypeBytes
  <1> QED BY <1>1, <1>2, <1>3, Zenon

ConstOk(c) == (c.tag = "Int" => Masked(c)) /\ InternedAt(out.constants, c)
LEMMA ConstantRead ==
    ASSUME FileOK, pos \in Nat
    PROVE  \A s : s \in ConstantEntry
                  <=> /\ ConstLegal(s.val) /\ ConstOk(s.val)
                      /\ Result(s, pos, s.val, ConstBytes(s.val))
  <1>1. \A s : s \in ConstantEntry <=> s \in Tagged(pos, ConstTags, ReadsConst) /\ ConstOk(s.val)
    BY Zenon DEF ConstantEntry, Ensure, ConstOk
  <1>2. \A s : s \in Tagged(pos, ConstTags, ReadsConst)
               <=> ConstLegal(s.val) /\ Result(s, pos, s.val, ConstWritten(s.val))
    BY ConstReads
  <1>3. \A v : ConstWritten(v) = ConstBytes(v)
    BY Zenon DEF ConstWritten, ConstBytes
  <1> QED BY <1>1, <1>2, <1>3, Zenon

LEMMA TermRead ==
    ASSUME FileOK, pos \in Nat
    PROVE  \A s : s \in TermEntry <=> TermLegal(s.val) /\ Result(s, pos, s.val, TermWritten(s.val))
  BY TermReads, Zenon DEF TermEntry

\* The head of a function: its signature, and the number of its values.
Signed(f) == Fills(ReadsSignature, EmptyFunction, 6, f)
SignatureBytes(f) == FieldsBytes(WritesSignature, f)
LEMMA SignatureReads ==
    ASSUME FileOK, NEW p \in Nat, p <= end
    PROVE  /\ \A s : s \in Fields(p, ReadsSignature, EmptyFunction)
                     <=> Signed(s.val) /\ Result(s, p, s.val, SignatureBytes(s.val))
           /\ \A f : Signed(f) => SignatureBytes(f) \in Seq(Byte)
  <1>1. FieldsOK(ReadsSignature, EmptyFunction) /\ Len(ReadsSignature) = 6
    BY SignatureForm
  <1>2. \A s : s \in Fields(p, ReadsSignature, EmptyFunction)
               <=> /\ Fills(ReadsSignature, EmptyFunction, Len(ReadsSignature), s.val)
                   /\ Result(s, p, s.val, RecordBytes(ReadsSignature, s.val))
    BY <1>1, FieldsRead
  <1>3. \A r : RecordBytes(ReadsSignature, r) = SignatureBytes(r)
    BY SignatureForm, MatchesBytes, Zenon DEF SignatureBytes
  <1>4. \A f : Signed(f) => FlattenSeq(Bs(ReadsSignature, f, 6)) \in Seq(Byte)
    <2>1. 6 \in 0..Len(ReadsSignature)
      BY <1>1
    <2> QED BY <1>1, <2>1, BsTyped, Zenon DEF Signed
  <1>5. \A f : RecordBytes(ReadsSignature, f) = FlattenSeq(Bs(ReadsSignature, f, 6))
    BY <1>1, Zenon DEF RecordBytes
  <1> QED BY <1>1, <1>2, <1>3, <1>4, <1>5, Zenon DEF Signed

IsHead(s, f, n) ==
    /\ Signed(f) /\ FitsIn(n, W32) /\ n * MIN_VALUE_LEN <= end - s.pos
    /\ Ends(pos, SignatureBytes(f) \o U32(n), s.pos)
    /\ s = Res([function |-> f, values |-> n], s.pos)
LEMMA FunctionRead ==
    ASSUME FileOK, pos \in Nat, pos <= end
    PROVE  \A s : s \in FunctionEntry <=> \E f, n : IsHead(s, f, n)
  <1> DEFINE R == Fields(pos, ReadsSignature, EmptyFunction)
             N(q) == Count(q, MIN_VALUE_LEN)
  <1>1. \A s : s \in FunctionEntry
               <=> \E f \in R : \E n \in N(f.pos) : s = Res([function |-> f.val, values |-> n.val], n.pos)
    <2> DEFINE V(f, n) == Res([function |-> f.val, values |-> n.val], n.pos)
               H(f) == UNION {{V(f, n)} : n \in N(f.pos)}
    <2>1. FunctionEntry = UNION {H(f) : f \in R}
      BY Zenon DEF FunctionEntry, Then, Good, Res, EmptyFunction
    <2> HIDE DEF R, N, V
    <2>2. ASSUME NEW f, NEW s PROVE s \in H(f) <=> \E n \in N(f.pos) : s = V(f, n)
      <3>1. ASSUME s \in H(f) PROVE \E n \in N(f.pos) : s = V(f, n)
        BY <3>1, Zenon
      <3>2. ASSUME NEW n \in N(f.pos), s = V(f, n) PROVE s \in H(f)
        <4>1. s \in {V(f, n)} /\ {V(f, n)} \in {{V(f, k)} : k \in N(f.pos)}
          BY <3>2, Zenon
        <4> QED BY <4>1, Zenon
      <3> QED BY <3>1, <3>2, Zenon
    <2> HIDE DEF H
    <2>3. \A s : s \in FunctionEntry <=> \E f \in R : \E n \in N(f.pos) : s = V(f, n)
      <3> SUFFICES ASSUME NEW s PROVE s \in FunctionEntry <=> \E f \in R : \E n \in N(f.pos) : s = V(f, n)
        OBVIOUS
      <3>1. ASSUME s \in FunctionEntry PROVE \E f \in R : s \in H(f)
        BY <2>1, <3>1, Zenon
      <3>2. ASSUME NEW f \in R, s \in H(f) PROVE s \in FunctionEntry
        <4>1. H(f) \in {H(k) : k \in R}
          BY Zenon
        <4> QED BY <2>1, <3>2, <4>1, Zenon
      <3> QED BY <2>2, <3>1, <3>2, Zenon
    <2> QED BY <2>3 DEF V
  <1>2. /\ \A s : s \in R <=> Signed(s.val) /\ Result(s, pos, s.val, SignatureBytes(s.val))
        /\ \A f : Signed(f) => SignatureBytes(f) \in Seq(Byte)
    BY SignatureReads
  <1>3. \A q \in Nat : \A s : s \in N(q) <=> /\ FitsIn(s.val, W32) /\ Result(s, q, s.val, U32(s.val))
                                             /\ s.val * MIN_VALUE_LEN <= end - s.pos
    <2> MIN_VALUE_LEN \in Nat
      BY DEF MIN_VALUE_LEN, W32
    <2> QED BY CountReads
  <1>4. \A n : FitsIn(n, W32) => U32(n) \in Seq(Byte)
    BY NumberTyped, Sizes DEF U32
  <1> HIDE DEF R, N
  <1>5. ASSUME NEW s, s \in FunctionEntry PROVE \E f, n : IsHead(s, f, n)
    <2>1. PICK f \in R : \E n \in N(f.pos) : s = Res([function |-> f.val, values |-> n.val], n.pos)
      BY <1>1, <1>5
    <2>2. PICK n \in N(f.pos) : s = Res([function |-> f.val, values |-> n.val], n.pos)
      BY <2>1
    <2>3. Signed(f.val) /\ Result(f, pos, f.val, SignatureBytes(f.val)) /\ SignatureBytes(f.val) \in Seq(Byte)
      BY <1>2
    <2>4. f.pos \in Nat
      <3>1. Ends(pos, SignatureBytes(f.val), f.pos)
        BY <2>3, ResultIs, Zenon
      <3> HIDE DEF FileOK
      <3> QED BY <3>1, EndsFacts
    <2>5. FitsIn(n.val, W32) /\ Result(n, f.pos, n.val, U32(n.val)) /\ n.val * MIN_VALUE_LEN <= end - n.pos
      BY <1>3, <2>2, <2>4, Zenon
    <2>6. Ends(pos, SignatureBytes(f.val) \o U32(n.val), n.pos)
      BY <1>4, <2>3, <2>5, TwoResults
    <2>7. s.pos = n.pos
      BY <2>2, ResFacts, Zenon
    <2> QED BY <2>2, <2>3, <2>5, <2>6, <2>7, Zenon DEF IsHead
  <1>6. ASSUME NEW s, NEW f, NEW n, IsHead(s, f, n) PROVE s \in FunctionEntry
    <2>1. SignatureBytes(f) \in Seq(Byte) /\ U32(n) \in Seq(Byte)
      BY <1>2, <1>4, <1>6, Zenon DEF IsHead
    <2>2. PICK m : Result(Res(f, m), pos, f, SignatureBytes(f)) /\ Result(Res(n, s.pos), m, n, U32(n))
      <3>1. Ends(pos, SignatureBytes(f) \o U32(n), s.pos)
        BY <1>6, Zenon DEF IsHead
      <3> DEFINE q == s.pos
      <3> HIDE DEF q
      <3>2. Ends(pos, SignatureBytes(f) \o U32(n), q)
        BY <3>1 DEF q
      <3>3. \E m : Result(Res(f, m), pos, f, SignatureBytes(f)) /\ Result(Res(n, q), m, n, U32(n))
        BY <2>1, <3>2, TwoParts
      <3> QED BY <3>3 DEF q
    <2> DEFINE q == s.pos
    <2>a. Signed(f) /\ FitsIn(n, W32) /\ n * MIN_VALUE_LEN <= end - q
          /\ s = Res([function |-> f, values |-> n], q)
      BY <1>6, Zenon DEF IsHead
    <2>b. /\ Result(Res(n, q), m, n, U32(n))
          /\ Res(f, m).val = f /\ Res(f, m).pos = m /\ Res(n, q).val = n /\ Res(n, q).pos = q
      BY <2>2, ResFacts
    <2> HIDE DEF q
    <2>3. Res(f, m) \in R
      BY <1>2, <2>a, <2>2, <2>b, Zenon
    <2>4. m \in Nat
      <3>1. Ends(m, U32(n), q)
        BY <2>b, ResFacts, Zenon
      <3> QED BY <3>1, EndsFacts
    <2>5. Res(n, q) \in N(m)
      <3> DEFINE x == Res(n, q)
      <3>1. x.val = n /\ x.pos = q /\ Result(x, m, n, U32(n))
        BY <2>b
      <3> HIDE DEF x
      <3>2. x \in N(m)
        BY <1>3, <2>a, <2>4, <3>1, Zenon
      <3> QED BY <3>2 DEF x
    <2>6. \E g \in R : \E k \in N(g.pos) : s = Res([function |-> g.val, values |-> k.val], k.pos)
      <3> DEFINE x == Res(n, q)
                 y == Res(f, m)
      <3>1. y \in R /\ y.val = f /\ y.pos = m /\ x \in N(m) /\ x.val = n /\ x.pos = q
        BY <2>b, <2>3, <2>5
      <3> HIDE DEF x, y
      <3>2. s = Res([function |-> y.val, values |-> x.val], x.pos) /\ x \in N(y.pos)
        BY <2>a, <3>1, Zenon
      <3> QED BY <3>1, <3>2, Zenon
    <2> QED BY <1>1, <2>6
  <1> QED BY <1>5, <1>6, Zenon


\* The head of a block.
Blocked(b) == Fills(BlockFields, EmptyBlock, 2, b)
BlockHead(b) == Opt(b.name) \o List(b.params, Pair)
LEMMA BlockHeads ==
    ASSUME FileOK, NEW p \in Nat, p <= end
    PROVE  /\ \A s : s \in Fields(p, BlockFields, EmptyBlock)
                     <=> Blocked(s.val) /\ Result(s, p, s.val, BlockHead(s.val))
           /\ \A b : Blocked(b) => BlockHead(b) \in Seq(Byte)
           /\ \A b : Blocked(b) => Opt(b.name) \in Seq(Byte) /\ List(b.params, Pair) \in Seq(Byte)
  <1>1. FieldsOK(BlockFields, EmptyBlock) /\ Len(BlockFields) = 2
    BY BlockForm
  <1>2. \A s : s \in Fields(p, BlockFields, EmptyBlock)
               <=> /\ Fills(BlockFields, EmptyBlock, Len(BlockFields), s.val)
                   /\ Result(s, p, s.val, RecordBytes(BlockFields, s.val))
    BY <1>1, FieldsRead
  <1>3. ASSUME NEW b, Blocked(b)
        PROVE  /\ RecordBytes(BlockFields, b) = BlockHead(b)
               /\ Opt(b.name) \in Seq(Byte) /\ List(b.params, Pair) \in Seq(Byte)
               /\ BlockHead(b) \in Seq(Byte)
    <2> DEFINE d == FieldBytesOf(BlockFields, b, 1)
               e == FieldBytesOf(BlockFields, b, 2)
    <2>1. Fills(BlockFields, EmptyBlock, Len(BlockFields), b)
      BY <1>1, <1>3, Zenon DEF Blocked
    <2>2. /\ \A i \in 1..Len(BlockFields) : FieldBytesOf(BlockFields, b, i) \in Seq(Byte)
          /\ Len(BlockFields) = 2 => RecordBytes(BlockFields, b) = d \o e
      BY <1>1, <2>1, FewFields
    <2>3. d \in Seq(Byte) /\ e \in Seq(Byte) /\ RecordBytes(BlockFields, b) = d \o e
      <3> HIDE DEF d, e
      <3>1. 1 \in 1..Len(BlockFields) /\ 2 \in 1..Len(BlockFields)
        BY <1>1
      <3> QED BY <1>1, <2>2, <3>1, Zenon DEF d, e
    <2>4. d = Opt(b.name) /\ e = List(b.params, Pair)
      BY BlockForm, Zenon
    <2> HIDE DEF d, e
    <2>5. d \o e \in Seq(Byte)
      BY <2>3
    <2> QED BY <2>3, <2>4, <2>5, Zenon DEF BlockHead
  <1> QED BY <1>1, <1>2, <1>3, Zenon DEF Blocked

IsBlock(s, f, n) ==
    /\ Blocked(f) /\ FitsIn(n, W32) /\ n * MIN_INSTRUCTION_LEN <= end - s.pos
    /\ Ends(pos, BlockHead(f) \o U32(n), s.pos)
    /\ s = Res([block |-> f, insts |-> n], s.pos)
LEMMA BlockRead ==
    ASSUME FileOK, pos \in Nat, pos <= end
    PROVE  \A s : s \in BlockEntry <=> \E f, n : IsBlock(s, f, n)
  <1> DEFINE R == Fields(pos, BlockFields, EmptyBlock)
             N(q) == Count(q, MIN_INSTRUCTION_LEN)
  <1>1. \A s : s \in BlockEntry
               <=> \E f \in R : \E n \in N(f.pos) : s = Res([block |-> f.val, insts |-> n.val], n.pos)
    <2> DEFINE V(f, n) == Res([block |-> f.val, insts |-> n.val], n.pos)
               H(f) == UNION {{V(f, n)} : n \in N(f.pos)}
    <2>1. BlockEntry = UNION {H(f) : f \in R}
      BY Zenon DEF BlockEntry, BlockFields, EmptyBlock, Then, Good, Res
    <2> HIDE DEF R, N, V
    <2>2. ASSUME NEW f, NEW s PROVE s \in H(f) <=> \E n \in N(f.pos) : s = V(f, n)
      <3>1. ASSUME s \in H(f) PROVE \E n \in N(f.pos) : s = V(f, n)
        BY <3>1, Zenon
      <3>2. ASSUME NEW n \in N(f.pos), s = V(f, n) PROVE s \in H(f)
        <4>1. s \in {V(f, n)} /\ {V(f, n)} \in {{V(f, k)} : k \in N(f.pos)}
          BY <3>2, Zenon
        <4> QED BY <4>1, Zenon
      <3> QED BY <3>1, <3>2, Zenon
    <2> HIDE DEF H
    <2>3. \A s : s \in BlockEntry <=> \E f \in R : \E n \in N(f.pos) : s = V(f, n)
      <3> SUFFICES ASSUME NEW s PROVE s \in BlockEntry <=> \E f \in R : \E n \in N(f.pos) : s = V(f, n)
        OBVIOUS
      <3>1. ASSUME s \in BlockEntry PROVE \E f \in R : s \in H(f)
        BY <2>1, <3>1, Zenon
      <3>2. ASSUME NEW f \in R, s \in H(f) PROVE s \in BlockEntry
        <4>1. H(f) \in {H(k) : k \in R}
          BY Zenon
        <4> QED BY <2>1, <3>2, <4>1, Zenon
      <3> QED BY <2>2, <3>1, <3>2, Zenon
    <2> QED BY <2>3 DEF V
  <1>2. /\ \A s : s \in R <=> Blocked(s.val) /\ Result(s, pos, s.val, BlockHead(s.val))
        /\ \A f : Blocked(f) => BlockHead(f) \in Seq(Byte)
    BY BlockHeads
  <1>3. \A q \in Nat : \A s : s \in N(q) <=> FitsIn(s.val, W32) /\ Result(s, q, s.val, U32(s.val)) /\ s.val * MIN_INSTRUCTION_LEN <= end - s.pos
    <2> MIN_INSTRUCTION_LEN \in Nat
      BY DEF MIN_INSTRUCTION_LEN, W32
    <2> QED BY CountReads
  <1>4. \A n : FitsIn(n, W32) => U32(n) \in Seq(Byte)
    BY NumberTyped, Sizes DEF U32
  <1> HIDE DEF R, N
  <1>5. ASSUME NEW s, s \in BlockEntry PROVE \E f, n : IsBlock(s, f, n)
    <2>1. PICK f \in R : \E n \in N(f.pos) : s = Res([block |-> f.val, insts |-> n.val], n.pos)
      BY <1>1, <1>5
    <2>2. PICK n \in N(f.pos) : s = Res([block |-> f.val, insts |-> n.val], n.pos)
      BY <2>1
    <2>3. Blocked(f.val) /\ Result(f, pos, f.val, BlockHead(f.val)) /\ BlockHead(f.val) \in Seq(Byte)
      BY <1>2, Zenon
    <2>4. f.pos \in Nat
      <3>1. Ends(pos, BlockHead(f.val), f.pos)
        BY <2>3, ResultIs, Zenon
      <3> QED BY <3>1, EndsFacts
    <2>5. FitsIn(n.val, W32) /\ Result(n, f.pos, n.val, U32(n.val)) /\ n.val * MIN_INSTRUCTION_LEN <= end - n.pos
      BY <1>3, <2>2, <2>4, Zenon
    <2>6. Ends(pos, BlockHead(f.val) \o U32(n.val), n.pos)
      BY <1>4, <2>3, <2>5, TwoResults
    <2>7. s.pos = n.pos
      BY <2>2, ResFacts, Zenon
    <2> QED BY <2>2, <2>3, <2>5, <2>6, <2>7, Zenon DEF IsBlock
  <1>6. ASSUME NEW s, NEW f, NEW n, IsBlock(s, f, n) PROVE s \in BlockEntry
    <2> DEFINE q == s.pos
    <2>1. /\ Blocked(f) /\ FitsIn(n, W32) /\ n * MIN_INSTRUCTION_LEN <= end - s.pos
          /\ Ends(pos, BlockHead(f) \o U32(n), q)
          /\ s = Res([block |-> f, insts |-> n], q)
      BY <1>6, Zenon DEF IsBlock
    <2> HIDE DEF q
    <2>2. BlockHead(f) \in Seq(Byte) /\ U32(n) \in Seq(Byte)
      BY <1>2, <1>4, <2>1, Zenon
    <2>3. PICK m : Result(Res(f, m), pos, f, BlockHead(f)) /\ Result(Res(n, q), m, n, U32(n))
      BY <2>1, <2>2, TwoParts
    <2> DEFINE x == Res(n, q)
               y == Res(f, m)
    <2>4. x.val = n /\ x.pos = q /\ y.val = f /\ y.pos = m
      BY ResFacts
    <2>5. m \in Nat
      <3>1. Ends(m, U32(n), q)
        BY <2>3, ResFacts, Zenon
      <3> QED BY <3>1, EndsFacts
    <2>6. Result(y, pos, f, BlockHead(f)) /\ Result(x, m, n, U32(n))
      BY <2>3
    <2>7. s.pos = q
      BY DEF q
    <2> HIDE DEF x, y
    <2>8. y \in R /\ x \in N(m)
      BY <1>2, <1>3, <2>1, <2>4, <2>5, <2>6, <2>7, Zenon
    <2>9. s = Res([block |-> y.val, insts |-> x.val], x.pos) /\ x \in N(y.pos)
      BY <2>1, <2>4, <2>8, Zenon
    <2> QED BY <1>1, <2>8, <2>9, Zenon
  <1> QED BY <1>5, <1>6, Zenon

\* An instruction.
IsInst(s, f, n) ==
    /\ InstLegal(f) /\ OptLegal(n)
    /\ Ends(pos, InstWritten(f) \o Opt(n), s.pos)
    /\ s = Res([kind |-> f, result |-> n], s.pos)
LEMMA InstRead ==
    ASSUME FileOK, pos \in Nat
    PROVE  \A s : s \in InstEntry <=> \E f, n : IsInst(s, f, n)
  <1> DEFINE R == Tagged(pos, Opcodes, ReadsInst)
             N(q) == OptU32(q)
  <1>1. \A s : s \in InstEntry
               <=> \E f \in R : \E n \in N(f.pos) : s = Res([kind |-> f.val, result |-> n.val], n.pos)
    <2> DEFINE V(f, n) == Res([kind |-> f.val, result |-> n.val], n.pos)
               H(f) == UNION {{V(f, n)} : n \in N(f.pos)}
    <2>1. InstEntry = UNION {H(f) : f \in R}
      BY Zenon DEF InstEntry, Then, Good, Res
    <2> HIDE DEF R, N, V
    <2>2. ASSUME NEW f, NEW s PROVE s \in H(f) <=> \E n \in N(f.pos) : s = V(f, n)
      <3>1. ASSUME s \in H(f) PROVE \E n \in N(f.pos) : s = V(f, n)
        BY <3>1, Zenon
      <3>2. ASSUME NEW n \in N(f.pos), s = V(f, n) PROVE s \in H(f)
        <4>1. s \in {V(f, n)} /\ {V(f, n)} \in {{V(f, k)} : k \in N(f.pos)}
          BY <3>2, Zenon
        <4> QED BY <4>1, Zenon
      <3> QED BY <3>1, <3>2, Zenon
    <2> HIDE DEF H
    <2>3. \A s : s \in InstEntry <=> \E f \in R : \E n \in N(f.pos) : s = V(f, n)
      <3> SUFFICES ASSUME NEW s PROVE s \in InstEntry <=> \E f \in R : \E n \in N(f.pos) : s = V(f, n)
        OBVIOUS
      <3>1. ASSUME s \in InstEntry PROVE \E f \in R : s \in H(f)
        BY <2>1, <3>1, Zenon
      <3>2. ASSUME NEW f \in R, s \in H(f) PROVE s \in InstEntry
        <4>1. H(f) \in {H(k) : k \in R}
          BY Zenon
        <4> QED BY <2>1, <3>2, <4>1, Zenon
      <3> QED BY <2>2, <3>1, <3>2, Zenon
    <2> QED BY <2>3 DEF V
  <1>2. /\ \A s : s \in R <=> InstLegal(s.val) /\ Result(s, pos, s.val, InstWritten(s.val))
        /\ \A f : InstLegal(f) => InstWritten(f) \in Seq(Byte)
    BY InstReads, InstTyped, Zenon
  <1>3. \A q \in Nat : \A s : s \in N(q) <=> OptLegal(s.val) /\ Result(s, q, s.val, Opt(s.val))
    BY OptReads
  <1>4. \A n : OptLegal(n) => Opt(n) \in Seq(Byte)
    BY OptTyped, Zenon
  <1> HIDE DEF R, N
  <1>5. ASSUME NEW s, s \in InstEntry PROVE \E f, n : IsInst(s, f, n)
    <2>1. PICK f \in R : \E n \in N(f.pos) : s = Res([kind |-> f.val, result |-> n.val], n.pos)
      BY <1>1, <1>5
    <2>2. PICK n \in N(f.pos) : s = Res([kind |-> f.val, result |-> n.val], n.pos)
      BY <2>1
    <2>3. InstLegal(f.val) /\ Result(f, pos, f.val, InstWritten(f.val)) /\ InstWritten(f.val) \in Seq(Byte)
      BY <1>2, Zenon
    <2>4. f.pos \in Nat
      <3>1. Ends(pos, InstWritten(f.val), f.pos)
        BY <2>3, ResultIs, Zenon
      <3> QED BY <3>1, EndsFacts
    <2>5. OptLegal(n.val) /\ Result(n, f.pos, n.val, Opt(n.val))
      BY <1>3, <2>2, <2>4, Zenon
    <2>6. Ends(pos, InstWritten(f.val) \o Opt(n.val), n.pos)
      BY <1>4, <2>3, <2>5, TwoResults
    <2>7. s.pos = n.pos
      BY <2>2, ResFacts, Zenon
    <2> QED BY <2>2, <2>3, <2>5, <2>6, <2>7, Zenon DEF IsInst
  <1>6. ASSUME NEW s, NEW f, NEW n, IsInst(s, f, n) PROVE s \in InstEntry
    <2> DEFINE q == s.pos
    <2>1. /\ InstLegal(f) /\ OptLegal(n)
          /\ Ends(pos, InstWritten(f) \o Opt(n), q)
          /\ s = Res([kind |-> f, result |-> n], q)
      BY <1>6, Zenon DEF IsInst
    <2> HIDE DEF q
    <2>2. InstWritten(f) \in Seq(Byte) /\ Opt(n) \in Seq(Byte)
      BY <1>2, <1>4, <2>1, Zenon
    <2>3. PICK m : Result(Res(f, m), pos, f, InstWritten(f)) /\ Result(Res(n, q), m, n, Opt(n))
      BY <2>1, <2>2, TwoParts
    <2> DEFINE x == Res(n, q)
               y == Res(f, m)
    <2>4. x.val = n /\ x.pos = q /\ y.val = f /\ y.pos = m
      BY ResFacts
    <2>5. m \in Nat
      <3>1. Ends(m, Opt(n), q)
        BY <2>3, ResFacts, Zenon
      <3> QED BY <3>1, EndsFacts
    <2>6. Result(y, pos, f, InstWritten(f)) /\ Result(x, m, n, Opt(n))
      BY <2>3
    <2>7. s.pos = q
      BY DEF q
    <2> HIDE DEF x, y
    <2>8. y \in R /\ x \in N(m)
      BY <1>2, <1>3, <2>1, <2>4, <2>5, <2>6, <2>7, Zenon
    <2>9. s = Res([kind |-> y.val, result |-> x.val], x.pos) /\ x \in N(y.pos)
      BY <2>1, <2>4, <2>8, Zenon
    <2> QED BY <1>1, <2>8, <2>9, Zenon
  <1> QED BY <1>5, <1>6, Zenon

\* A value after its type.
ValueRest(q, t) ==
    Then(Tagged(q, ValueTags, ReadsKind), LAMBDA k :
    Then(OptSymbol(k.pos), LAMBDA n :
        Good([ty |-> t, kind |-> k.val, name |-> n.val], n.pos)))
IsRest(s, p, t, f, n) ==
    /\ KindLegal(f) /\ OptSymLegal(n)
    /\ Ends(p, KindWritten(f) \o Opt(n), s.pos)
    /\ s = Res([ty |-> t, kind |-> f, name |-> n], s.pos)
LEMMA ValueRestRead ==
    ASSUME FileOK, NEW p \in Nat, NEW t
    PROVE  \A s : s \in ValueRest(p, t) <=> \E f, n : IsRest(s, p, t, f, n)
  <1> DEFINE R == Tagged(p, ValueTags, ReadsKind)
             N(q) == OptSymbol(q)
  <1>1. \A s : s \in ValueRest(p, t)
               <=> \E f \in R : \E n \in N(f.pos) : s = Res([ty |-> t, kind |-> f.val, name |-> n.val], n.pos)
    <2> DEFINE V(f, n) == Res([ty |-> t, kind |-> f.val, name |-> n.val], n.pos)
               H(f) == UNION {{V(f, n)} : n \in N(f.pos)}
    <2>1. ValueRest(p, t) = UNION {H(f) : f \in R}
      BY Zenon DEF ValueRest, Then, Good, Res
    <2> HIDE DEF R, N, V
    <2>2. ASSUME NEW f, NEW s PROVE s \in H(f) <=> \E n \in N(f.pos) : s = V(f, n)
      <3>1. ASSUME s \in H(f) PROVE \E n \in N(f.pos) : s = V(f, n)
        BY <3>1, Zenon
      <3>2. ASSUME NEW n \in N(f.pos), s = V(f, n) PROVE s \in H(f)
        <4>1. s \in {V(f, n)} /\ {V(f, n)} \in {{V(f, k)} : k \in N(f.pos)}
          BY <3>2, Zenon
        <4> QED BY <4>1, Zenon
      <3> QED BY <3>1, <3>2, Zenon
    <2> HIDE DEF H
    <2>3. \A s : s \in ValueRest(p, t) <=> \E f \in R : \E n \in N(f.pos) : s = V(f, n)
      <3> SUFFICES ASSUME NEW s PROVE s \in ValueRest(p, t) <=> \E f \in R : \E n \in N(f.pos) : s = V(f, n)
        OBVIOUS
      <3>1. ASSUME s \in ValueRest(p, t) PROVE \E f \in R : s \in H(f)
        BY <2>1, <3>1, Zenon
      <3>2. ASSUME NEW f \in R, s \in H(f) PROVE s \in ValueRest(p, t)
        <4>1. H(f) \in {H(k) : k \in R}
          BY Zenon
        <4> QED BY <2>1, <3>2, <4>1, Zenon
      <3> QED BY <2>2, <3>1, <3>2, Zenon
    <2> QED BY <2>3 DEF V
  <1>2. /\ \A s : s \in R <=> KindLegal(s.val) /\ Result(s, p, s.val, KindWritten(s.val))
        /\ \A f : KindLegal(f) => KindWritten(f) \in Seq(Byte)
    BY KindReads, KindTyped, Zenon
  <1>3. \A q \in Nat : \A s : s \in N(q) <=> OptSymLegal(s.val) /\ Result(s, q, s.val, Opt(s.val))
    BY SymbolReads
  <1>4. \A n : OptSymLegal(n) => Opt(n) \in Seq(Byte)
    BY OptTyped, Zenon DEF OptSymLegal
  <1> HIDE DEF R, N
  <1>5. ASSUME NEW s, s \in ValueRest(p, t) PROVE \E f, n : IsRest(s, p, t, f, n)
    <2>1. PICK f \in R : \E n \in N(f.pos) : s = Res([ty |-> t, kind |-> f.val, name |-> n.val], n.pos)
      BY <1>1, <1>5
    <2>2. PICK n \in N(f.pos) : s = Res([ty |-> t, kind |-> f.val, name |-> n.val], n.pos)
      BY <2>1
    <2>3. KindLegal(f.val) /\ Result(f, p, f.val, KindWritten(f.val)) /\ KindWritten(f.val) \in Seq(Byte)
      BY <1>2, Zenon
    <2>4. f.pos \in Nat
      <3>1. Ends(p, KindWritten(f.val), f.pos)
        BY <2>3, ResultIs, Zenon
      <3> QED BY <3>1, EndsFacts
    <2>5. OptSymLegal(n.val) /\ Result(n, f.pos, n.val, Opt(n.val))
      BY <1>3, <2>2, <2>4, Zenon
    <2>6. Ends(p, KindWritten(f.val) \o Opt(n.val), n.pos)
      BY <1>4, <2>3, <2>5, TwoResults
    <2>7. s.pos = n.pos
      BY <2>2, ResFacts, Zenon
    <2> QED BY <2>2, <2>3, <2>5, <2>6, <2>7, Zenon DEF IsRest
  <1>6. ASSUME NEW s, NEW f, NEW n, IsRest(s, p, t, f, n) PROVE s \in ValueRest(p, t)
    <2> DEFINE q == s.pos
    <2>1. /\ KindLegal(f) /\ OptSymLegal(n)
          /\ Ends(p, KindWritten(f) \o Opt(n), q)
          /\ s = Res([ty |-> t, kind |-> f, name |-> n], q)
      BY <1>6, Zenon DEF IsRest
    <2> HIDE DEF q
    <2>2. KindWritten(f) \in Seq(Byte) /\ Opt(n) \in Seq(Byte)
      BY <1>2, <1>4, <2>1, Zenon
    <2>3. PICK m : Result(Res(f, m), p, f, KindWritten(f)) /\ Result(Res(n, q), m, n, Opt(n))
      BY <2>1, <2>2, TwoParts
    <2> DEFINE x == Res(n, q)
               y == Res(f, m)
    <2>4. x.val = n /\ x.pos = q /\ y.val = f /\ y.pos = m
      BY ResFacts
    <2>5. m \in Nat
      <3>1. Ends(m, Opt(n), q)
        BY <2>3, ResFacts, Zenon
      <3> QED BY <3>1, EndsFacts
    <2>6. Result(y, p, f, KindWritten(f)) /\ Result(x, m, n, Opt(n))
      BY <2>3
    <2>7. s.pos = q
      BY DEF q
    <2> HIDE DEF x, y
    <2>8. y \in R /\ x \in N(m)
      BY <1>2, <1>3, <2>1, <2>4, <2>5, <2>6, <2>7, Zenon
    <2>9. s = Res([ty |-> t, kind |-> y.val, name |-> x.val], x.pos) /\ x \in N(y.pos)
      BY <2>1, <2>4, <2>8, Zenon
    <2> QED BY <1>1, <2>8, <2>9, Zenon
  <1> QED BY <1>5, <1>6, Zenon

IsValue(s, t, k, n) ==
    /\ FitsIn(t, W32) /\ KindLegal(k) /\ OptSymLegal(n)
    /\ Ends(pos, U32(t) \o (KindWritten(k) \o Opt(n)), s.pos)
    /\ s = Res([ty |-> t, kind |-> k, name |-> n], s.pos)
LEMMA ValueRead ==
    ASSUME FileOK, pos \in Nat
    PROVE  \A s : s \in ValueEntry <=> \E t, k, n : IsValue(s, t, k, n)
  <1> DEFINE R == Fixed(pos, W32)
             H(t) == ValueRest(t.pos, t.val)
  <1>1. ValueEntry = UNION {H(t) : t \in R}
    BY Zenon DEF ValueEntry, Then, ValueRest
  <1>2. \A t : t \in R <=> FitsIn(t.val, W32) /\ Result(t, pos, t.val, U32(t.val))
    BY Sizes, FixedReads DEF U32
  <1>3. /\ \A t : FitsIn(t, W32) => U32(t) \in Seq(Byte)
        /\ \A k, n : KindLegal(k) /\ OptSymLegal(n) => KindWritten(k) \o Opt(n) \in Seq(Byte)
    <2>1. \A t : FitsIn(t, W32) => U32(t) \in Seq(Byte)
      BY NumberTyped, Sizes DEF U32
    <2>2. \A k, n : KindLegal(k) /\ OptSymLegal(n) => KindWritten(k) \in Seq(Byte) /\ Opt(n) \in Seq(Byte)
      BY KindTyped, OptTyped, Zenon DEF OptSymLegal
    <2> QED BY <2>1, <2>2, ConcatTyped, Zenon
  <1>4. \A q \in Nat : \A t, s : s \in ValueRest(q, t) <=> \E k, n : IsRest(s, q, t, k, n)
    BY ValueRestRead
  <1> HIDE DEF R
  <1>5. ASSUME NEW s, s \in ValueEntry PROVE \E t, k, n : IsValue(s, t, k, n)
    <2>1. PICK t \in R : s \in ValueRest(t.pos, t.val)
      BY <1>1, <1>5, Zenon
    <2>2. FitsIn(t.val, W32) /\ Result(t, pos, t.val, U32(t.val)) /\ U32(t.val) \in Seq(Byte)
      BY <1>2, <1>3, Zenon
    <2> DEFINE m == t.pos
               q == s.pos
    <2>3. Ends(pos, U32(t.val), m)
      BY <2>2, ResultIs, Zenon
    <2> HIDE DEF m, q
    <2>4. m \in Nat
      BY <2>3, EndsFacts
    <2>5. PICK k, n : IsRest(s, m, t.val, k, n)
      BY <1>4, <2>1, <2>4, Zenon DEF m
    <2>6. /\ KindLegal(k) /\ OptSymLegal(n) /\ Ends(m, KindWritten(k) \o Opt(n), q)
          /\ s = Res([ty |-> t.val, kind |-> k, name |-> n], q)
      BY <2>5, Zenon DEF IsRest, q
    <2>7. Ends(pos, U32(t.val) \o (KindWritten(k) \o Opt(n)), q)
      <3> DEFINE b == U32(t.val)
                 c == KindWritten(k) \o Opt(n)
      <3>1. b \in Seq(Byte) /\ c \in Seq(Byte)
        BY <1>3, <2>2, <2>6, Zenon
      <3>2. Ends(pos, b, m) /\ Ends(m, c, q)
        BY <2>3, <2>6
      <3> HIDE DEF b, c
      <3>3. Ends(pos, b \o c, q)
        BY <3>1, <3>2, EndsJoins
      <3> QED BY <3>3 DEF b, c
    <2> QED BY <2>2, <2>6, <2>7, Zenon DEF IsValue, q
  <1>6. ASSUME NEW s, NEW t, NEW k, NEW n, IsValue(s, t, k, n) PROVE s \in ValueEntry
    <2> DEFINE b == U32(t)
               c == KindWritten(k) \o Opt(n)
               q == s.pos
    <2>1. /\ FitsIn(t, W32) /\ KindLegal(k) /\ OptSymLegal(n) /\ Ends(pos, b \o c, q)
          /\ s = Res([ty |-> t, kind |-> k, name |-> n], q)
      BY <1>6, Zenon DEF IsValue
    <2>2. b \in Seq(Byte) /\ c \in Seq(Byte)
      BY <1>3, <2>1, Zenon
    <2> HIDE DEF b, c, q
    <2>3. PICK m : Ends(pos, b, m) /\ Ends(m, c, q)
      BY <2>1, <2>2, EndsJoins
    <2> DEFINE y == Res(t, m)
    <2>4. y.val = t /\ y.pos = m /\ Result(y, pos, t, b) /\ m \in Nat
      BY <2>3, EndsFacts, ResFacts
    <2> HIDE DEF y
    <2>5. y \in R
      BY <1>2, <2>1, <2>4, Zenon DEF b
    <2>6. IsRest(s, m, t, k, n)
      BY <2>1, <2>3, Zenon DEF IsRest, c, q
    <2>7. s \in ValueRest(m, t)
      BY <1>4, <2>4, <2>6, Zenon
    <2>8. s \in H(y)
      BY <2>4, <2>7, Zenon
    <2> HIDE DEF H
    <2>9. H(y) \in {H(x) : x \in R}
      BY <2>5, Zenon
    <2> QED BY <1>1, <2>8, <2>9, Zenon
  <1> QED BY <1>5, <1>6, Zenon


\* The header, whatever the minor version.
LEMMA OneByte == \A v \in Byte : Number(v, 1) = <<v>> /\ FitsIn(v, 1)
  <1> SUFFICES ASSUME NEW v \in Byte PROVE Number(v, 1) = <<v>> /\ FitsIn(v, 1)
    OBVIOUS
  <1>1. v \in Nat /\ v < 256 /\ v % 256 = v
    BY DEF Byte
  <1>2. IsNumber(Number(v, 1), v, 1)
    BY <1>1, Sizes, NumberFacts, Zenon
  <1>3. Number(v, 1) \in Seq(Byte) /\ Len(Number(v, 1)) = 1 /\ Number(v, 1)[1] = v
    BY <1>1, <1>2 DEF IsNumber
  <1> DEFINE n == Number(v, 1)
  <1> HIDE DEF n
  <1>4. n = <<v>>
    BY <1>3 DEF n
  <1> QED BY <1>1, <1>4, FitsByte DEF n

\* A record is made of what it keeps and of its fields.
LEMMA FillsRecord ==
    ASSUME NEW fields, NEW record, NEW n, NEW r,
           r = [x \in DOMAIN record \cup Names(fields, n) |-> r[x]],
           \A x \in DOMAIN record : r[x] = record[x],
           \A i \in 1..n : Legal(fields[i][2], r[fields[i][1]])
    PROVE  Fills(fields, record, n, r)
  <1> DEFINE D == DOMAIN record \cup Names(fields, n)
             e(x) == IF x \in DOMAIN record THEN record[x] ELSE r[x]
  <1>1. \A x \in D : r[x] = e(x)
    BY Zenon
  <1> HIDE DEF e
  <1>2. r = [x \in D |-> e(x)]
    BY <1>1
  <1> HIDE DEF D
  <1>3. r = [x \in D |-> IF x \in DOMAIN record THEN record[x] ELSE r[x]]
    BY <1>2, Zenon DEF e
  <1> QED BY <1>3, Zenon DEF Fills, D

HeaderBytes(minor) == <<MAGIC>> \o Number(FORMAT_MAJOR, W16) \o Number(minor, W16) \o U32(0)
LEMMA HeaderTyped ==
    ASSUME NEW minor, FitsIn(minor, W16)
    PROVE  /\ HeaderBytes(minor) \in Seq(Byte) /\ Len(HeaderBytes(minor)) = 5
           /\ <<MAGIC>> = Number(MAGIC, 1) /\ FitsIn(MAGIC, 1)
           /\ FitsIn(FORMAT_MAJOR, W16) /\ FitsIn(0, W32)
           /\ <<MAGIC>> \in Seq(Byte) /\ Number(FORMAT_MAJOR, W16) \in Seq(Byte)
           /\ Number(minor, W16) \in Seq(Byte) /\ U32(0) \in Seq(Byte)
           /\ Number(minor, W16) = <<minor>>
  <1>1. FitsIn(FORMAT_MAJOR, W16) /\ FitsIn(0, W32)
    BY DEF FitsIn, FORMAT_MAJOR, W16, W32
  <1>2. MAGIC \in Byte /\ W16 = 1
    BY DEF MAGIC, Byte, W16
  <1>3. <<MAGIC>> = Number(MAGIC, 1) /\ FitsIn(MAGIC, 1)
    BY <1>2, OneByte
  <1>4. minor \in Byte
    BY <1>2 DEF FitsIn, Byte
  <1>5. Number(minor, W16) = <<minor>>
    BY <1>2, <1>4, OneByte
  <1> DEFINE a == <<MAGIC>>
             b == Number(FORMAT_MAJOR, W16)
             c == Number(minor, W16)
             d == U32(0)
  <1>6. /\ a \in Seq(Byte) /\ Len(a) = 1 /\ b \in Seq(Byte) /\ Len(b) = 1
        /\ c \in Seq(Byte) /\ Len(c) = 1 /\ d \in Seq(Byte) /\ Len(d) = 2
    <2>1. W32 = 2
      BY DEF W32
    <2>2. a \in Seq(Byte) /\ Len(a) = 1
      BY <1>2
    <2>3. b \in Seq(Byte) /\ Len(b) = W16 /\ c \in Seq(Byte) /\ Len(c) = W16 /\ d \in Seq(Byte) /\ Len(d) = W32
      BY <1>1, NumberTyped, Sizes DEF U32
    <2> HIDE DEF a, b, c, d
    <2> QED BY <1>2, <2>1, <2>2, <2>3
  <1>7. HeaderBytes(minor) = ((a \o b) \o c) \o d
    BY DEF HeaderBytes
  <1> HIDE DEF a, b, c, d
  <1>8. /\ ((a \o b) \o c) \o d \in Seq(Byte)
        /\ Len(((a \o b) \o c) \o d) = 5
    <2> DEFINE x == a \o b
               y == x \o c
               z == y \o d
    <2>1. x \in Seq(Byte) /\ Len(x) = 2
      BY <1>6, ConcatTyped
    <2> HIDE DEF x
    <2>a. y \in Seq(Byte) /\ Len(y) = Len(x) + Len(c)
      BY <1>6, <2>1, ConcatTyped, Zenon
    <2> HIDE DEF y
    <2>2. y \in Seq(Byte) /\ Len(y) = 3
      BY <1>6, <2>1, <2>a
    <2>b. z \in Seq(Byte) /\ Len(z) = Len(y) + Len(d)
      BY <1>6, <2>2, ConcatTyped, Zenon
    <2> HIDE DEF z
    <2>3. z \in Seq(Byte) /\ Len(z) = 5
      BY <1>6, <2>2, <2>b
    <2> QED BY <2>3 DEF x, y, z
  <1> QED BY <1>1, <1>3, <1>5, <1>6, <1>7, <1>8 DEF a, b, c, d

HeaderGood(h) == h.magic = MAGIC /\ h.major = FORMAT_MAJOR /\ h.flags = 0 /\ sumFits
LEMMA HeaderIs ==
    ASSUME FileOK
    PROVE  \A s : s \in HeaderEntry
                  <=> /\ Fills(HeaderFields, [tag |-> "Header"], 4, s.val) /\ HeaderGood(s.val)
                      /\ Result(s, 0, s.val, RecordBytes(HeaderFields, s.val))
  <1>1. FieldsOK(HeaderFields, [tag |-> "Header"]) /\ Len(HeaderFields) = 4
    BY HeaderForm
  <1>2. 0 \in Nat /\ 0 <= end
    BY DEF FileOK
  <1>3. \A s : s \in Fields(0, HeaderFields, [tag |-> "Header"])
               <=> /\ Fills(HeaderFields, [tag |-> "Header"], Len(HeaderFields), s.val)
                   /\ Result(s, 0, s.val, RecordBytes(HeaderFields, s.val))
    BY <1>1, <1>2, FieldsRead
  <1>4. \A s : s \in HeaderEntry <=> s \in Fields(0, HeaderFields, [tag |-> "Header"]) /\ HeaderGood(s.val)
    BY Zenon DEF HeaderEntry, Ensure, HeaderFields, HeaderGood
  <1> QED BY <1>1, <1>3, <1>4, Zenon

LEMMA HeaderRecord ==
    ASSUME FileOK, NEW h, Fills(HeaderFields, [tag |-> "Header"], 4, h)
    PROVE  /\ FitsIn(h.minor, W16)
           /\ RecordBytes(HeaderFields, h)
              = Number(h.magic, 1) \o Number(h.major, W16) \o Number(h.minor, W16) \o U32(h.flags)
  <1>1. FieldsOK(HeaderFields, [tag |-> "Header"]) /\ Len(HeaderFields) = 4
    BY HeaderForm
  <1> DEFINE b(i) == FieldBytesOf(HeaderFields, h, i)
  <1>2. Fills(HeaderFields, [tag |-> "Header"], Len(HeaderFields), h)
    BY <1>1
  <1>3. RecordBytes(HeaderFields, h) = b(1) \o b(2) \o b(3) \o b(4)
    BY <1>1, <1>2, FewFields
  <1>4. b(1) = Number(h.magic, 1) /\ b(2) = Number(h.major, W16) /\ b(3) = Number(h.minor, W16) /\ b(4) = U32(h.flags)
    BY HeaderForm, Zenon
  <1>5. Legal("u16", h.minor)
    <2>1. \A i \in 1..4 : Legal(HeaderFields[i][2], h[HeaderFields[i][1]])
      BY DEF Fills
    <2>2. HeaderFields[3][1] = "minor" /\ HeaderFields[3][2] = "u16" /\ 3 \in 1..4
      BY DEF HeaderFields
    <2> QED BY <2>1, <2>2
  <1>6. FitsIn(h.minor, W16)
    BY <1>5 DEF Legal
  <1> HIDE DEF b
  <1> QED BY <1>3, <1>4, <1>6

LEMMA HeaderRead ==
    ASSUME FileOK, NEW s \in HeaderEntry
    PROVE  /\ sumFits /\ FitsIn(s.val.minor, W16)
           /\ Ends(0, HeaderBytes(s.val.minor), s.pos)
  <1> DEFINE h == s.val
  <1>1. /\ Fills(HeaderFields, [tag |-> "Header"], 4, h) /\ HeaderGood(h)
        /\ Result(s, 0, h, RecordBytes(HeaderFields, h))
    BY HeaderIs, Zenon
  <1>2. Ends(0, RecordBytes(HeaderFields, h), s.pos)
    BY <1>1, ResultIs, Zenon
  <1> HIDE DEF h
  <1>3. FitsIn(h.minor, W16) /\ RecordBytes(HeaderFields, h)
              = Number(h.magic, 1) \o Number(h.major, W16) \o Number(h.minor, W16) \o U32(h.flags)
    BY <1>1, HeaderRecord
  <1>4. <<MAGIC>> = Number(MAGIC, 1)
    BY <1>3, HeaderTyped
  <1>5. RecordBytes(HeaderFields, h) = HeaderBytes(h.minor)
    BY <1>1, <1>3, <1>4, Zenon DEF HeaderGood, HeaderBytes
  <1> QED BY <1>1, <1>2, <1>3, <1>5, Zenon DEF h, HeaderGood

LEMMA HeaderReads ==
    ASSUME FileOK, sumFits, NEW q, Ends(0, HeaderBytes(FORMAT_MINOR), q)
    PROVE  \E s \in HeaderEntry : s.pos = q
  <1> DEFINE h == [tag |-> "Header", magic |-> MAGIC, major |-> FORMAT_MAJOR, minor |-> FORMAT_MINOR, flags |-> 0]
             D == {"tag", "magic", "major", "minor", "flags"}
  <1>1. /\ h = [x \in D |-> h[x]] /\ h["tag"] = "Header"
        /\ h["magic"] = MAGIC /\ h["major"] = FORMAT_MAJOR /\ h["minor"] = FORMAT_MINOR /\ h["flags"] = 0
        /\ h.magic = MAGIC /\ h.major = FORMAT_MAJOR /\ h.minor = FORMAT_MINOR /\ h.flags = 0
    OBVIOUS
  <1> HIDE DEF h
  <1>2. FitsIn(FORMAT_MINOR, W16)
    BY DEF FitsIn, FORMAT_MINOR, W16
  <1>3. FitsIn(MAGIC, 1) /\ FitsIn(FORMAT_MAJOR, W16) /\ FitsIn(0, W32) /\ <<MAGIC>> = Number(MAGIC, 1)
    BY <1>2, HeaderTyped
  <1>4. \A i \in 1..4 : Legal(HeaderFields[i][2], h[HeaderFields[i][1]])
    <2>1. /\ HeaderFields[1][1] = "magic" /\ HeaderFields[1][2] = "u8"
          /\ HeaderFields[2][1] = "major" /\ HeaderFields[2][2] = "u16"
          /\ HeaderFields[3][1] = "minor" /\ HeaderFields[3][2] = "u16"
          /\ HeaderFields[4][1] = "flags" /\ HeaderFields[4][2] = "u32"
      BY DEF HeaderFields
    <2>2. Legal("u8", MAGIC) /\ Legal("u16", FORMAT_MAJOR) /\ Legal("u16", FORMAT_MINOR) /\ Legal("u32", 0)
      BY <1>2, <1>3 DEF Legal
    <2> QED BY <1>1, <2>1, <2>2
  <1>5. D = DOMAIN [tag |-> "Header"] \cup Names(HeaderFields, 4)
    <2>1. 1..4 = {1, 2, 3, 4} /\ DOMAIN [tag |-> "Header"] = {"tag"}
      OBVIOUS
    <2>2. Names(HeaderFields, 4) = {"magic", "major", "minor", "flags"}
      BY <2>1 DEF Names, HeaderFields
    <2> QED BY <2>1, <2>2
  <1> HIDE DEF D
  <1>6. Fills(HeaderFields, [tag |-> "Header"], 4, h)
    <2>1. h = [x \in DOMAIN [tag |-> "Header"] \cup Names(HeaderFields, 4) |-> h[x]]
      BY <1>1, <1>5
    <2>2. \A x \in DOMAIN [tag |-> "Header"] : h[x] = [tag |-> "Header"][x]
      BY <1>1
    <2> QED BY <1>4, <2>1, <2>2, FillsRecord
  <1>7. RecordBytes(HeaderFields, h) = HeaderBytes(FORMAT_MINOR)
    <2>1. RecordBytes(HeaderFields, h)
          = Number(h.magic, 1) \o Number(h.major, W16) \o Number(h.minor, W16) \o U32(h.flags)
      BY <1>6, HeaderRecord
    <2> QED BY <1>1, <1>3, <2>1, Zenon DEF HeaderBytes
  <1> DEFINE s == Res(h, q)
  <1>8. s.val = h /\ s.pos = q /\ Result(s, 0, h, HeaderBytes(FORMAT_MINOR))
    BY ResFacts
  <1> HIDE DEF s
  <1>9. HeaderGood(h)
    BY <1>1 DEF HeaderGood
  <1>10. s \in HeaderEntry
    BY <1>6, <1>7, <1>8, <1>9, HeaderIs, Zenon
  <1> QED BY <1>8, <1>10


\* The tag of a section and its length.
SectionHead(i, n) == <<SectionTags[i]>> \o Number(n, W64)
LEMMA SectionTagBytes ==
    \A i \in 1..5 : SectionTags[i] \in Byte /\ FitsIn(SectionTags[i], 1) /\ Number(SectionTags[i], 1) = <<SectionTags[i]>>
  <1>1. \A i \in 1..5 : SectionTags[i] \in Byte
    BY DEF SectionTags, Byte
  <1> QED BY <1>1, OneByte

LEMMA HeadTyped ==
    ASSUME NEW i \in 1..5, NEW n, FitsIn(n, W64)
    PROVE  /\ <<SectionTags[i]>> \in Seq(Byte) /\ Number(n, W64) \in Seq(Byte)
           /\ SectionHead(i, n) \in Seq(Byte) /\ Len(SectionHead(i, n)) = 4
  <1>1. <<SectionTags[i]>> \in Seq(Byte) /\ Len(<<SectionTags[i]>>) = 1
    BY SectionTagBytes
  <1>2. Number(n, W64) \in Seq(Byte) /\ Len(Number(n, W64)) = 3
    BY NumberTyped, Sizes DEF W64
  <1> DEFINE a == <<SectionTags[i]>>
             b == Number(n, W64)
  <1>3. a \o b \in Seq(Byte) /\ Len(a \o b) = Len(a) + Len(b)
    BY <1>1, <1>2, ConcatTyped, Zenon
  <1> QED BY <1>1, <1>2, <1>3 DEF SectionHead

IsLen(s, n) ==
    /\ FitsIn(n, W64) /\ Ends(pos, SectionHead(section, n), s.pos) /\ s = Res(n, s.pos)
LEMMA SectionLenRead ==
    ASSUME FileOK, pos \in Nat, section \in 1..5
    PROVE  \A s : s \in SectionLen <=> \E n : IsLen(s, n)
  <1> DEFINE R == Fixed(pos, 1)
             tag == SectionTags[section]
             T == Ensure(R, LAMBDA v : v = tag)
             H(t) == Fixed(t.pos, W64)
  <1>1. SectionLen = UNION {H(t) : t \in T}
    BY Zenon DEF SectionLen, Then
  <1>2. \A t : t \in T <=> t \in R /\ t.val = tag
    BY Zenon DEF Ensure
  <1>3. \A t : t \in R <=> FitsIn(t.val, 1) /\ Result(t, pos, t.val, Number(t.val, 1))
    BY Sizes, FixedReads
  <1>4. FitsIn(tag, 1) /\ Number(tag, 1) = <<tag>> /\ <<tag>> \in Seq(Byte)
    BY SectionTagBytes
  <1>5. \A q \in Nat : \A s : s \in Fixed(q, W64) <=> FitsIn(s.val, W64) /\ Result(s, q, s.val, Number(s.val, W64))
    BY Sizes, FixedReads
  <1>6. \A n : FitsIn(n, W64) => Number(n, W64) \in Seq(Byte)
    BY Sizes, NumberTyped
  <1>7. \A n : SectionHead(section, n) = <<tag>> \o Number(n, W64)
    BY DEF SectionHead
  <1> HIDE DEF R, T, tag
  <1>8. \A t : t \in T <=> t.val = tag /\ Result(t, pos, tag, <<tag>>)
    BY <1>2, <1>3, <1>4, Zenon
  <1>9. ASSUME NEW s, s \in SectionLen PROVE \E n : IsLen(s, n)
    <2>1. PICK t \in T : s \in Fixed(t.pos, W64)
      BY <1>1, <1>9, Zenon
    <2>2. Result(t, pos, tag, <<tag>>)
      BY <1>8, Zenon
    <2>3. t.pos \in Nat
      <3>1. Ends(pos, <<tag>>, t.pos)
        BY <2>2, ResultIs, Zenon
      <3> QED BY <3>1, EndsFacts
    <2>4. FitsIn(s.val, W64) /\ Result(s, t.pos, s.val, Number(s.val, W64))
      BY <1>5, <2>1, <2>3, Zenon
    <2>5. Ends(pos, <<tag>> \o Number(s.val, W64), s.pos)
      BY <1>4, <1>6, <2>2, <2>4, TwoResults
    <2>6. s = Res(s.val, s.pos)
      BY <2>4, ResultIs, Zenon DEF Res
    <2> QED BY <1>7, <2>4, <2>5, <2>6, Zenon DEF IsLen
  <1>10. ASSUME NEW s, NEW n, IsLen(s, n) PROVE s \in SectionLen
    <2> DEFINE q == s.pos
    <2>1. FitsIn(n, W64) /\ Ends(pos, <<tag>> \o Number(n, W64), q) /\ s = Res(n, q)
      BY <1>7, <1>10, Zenon DEF IsLen
    <2>2. Number(n, W64) \in Seq(Byte)
      BY <1>6, <2>1, Zenon
    <2> HIDE DEF q
    <2>3. PICK m : Result(Res(tag, m), pos, tag, <<tag>>) /\ Result(Res(n, q), m, n, Number(n, W64))
      BY <1>4, <2>1, <2>2, TwoParts
    <2> DEFINE y == Res(tag, m)
    <2>4. y.val = tag /\ y.pos = m /\ s.val = n /\ s.pos = q
      BY <2>1, ResFacts
    <2>5. Result(y, pos, tag, <<tag>>) /\ Result(s, m, n, Number(n, W64))
      BY <2>1, <2>3
    <2> HIDE DEF y
    <2>6. m \in Nat
      <3>1. Ends(m, Number(n, W64), q)
        BY <2>3, ResFacts, Zenon
      <3> QED BY <3>1, EndsFacts
    <2>7. y \in T /\ s \in Fixed(m, W64)
      BY <1>5, <1>8, <2>1, <2>4, <2>5, <2>6, Zenon
    <2>8. s \in H(y)
      BY <2>4, <2>7, Zenon
    <2> HIDE DEF H
    <2>9. H(y) \in {H(x) : x \in T}
      BY <2>7, Zenon
    <2> QED BY <1>1, <2>8, <2>9, Zenon
  <1> QED BY <1>9, <1>10, Zenon

IsSection(s, n) ==
    /\ FitsIn(n, W64) /\ Ends(pos, SectionHead(section, n), s.pos)
    /\ n <= end - s.pos /\ s = Res(s.pos + n, s.pos)
LEMMA SectionRead ==
    ASSUME FileOK, pos \in Nat, section \in 1..5
    PROVE  \A s : s \in SectionEntry <=> \E n : IsSection(s, n)
  <1> DEFINE H(n) == IF n.val <= end - n.pos THEN Good(n.pos + n.val, n.pos) ELSE {}
  <1>1. SectionEntry = UNION {H(n) : n \in SectionLen}
    BY Zenon DEF SectionEntry, Then
  <1>2. \A n, s : s \in H(n) <=> n.val <= end - n.pos /\ s = Res(n.pos + n.val, n.pos)
    BY Zenon DEF Good, Res
  <1> HIDE DEF H
  <1>3. \A s : s \in SectionLen <=> \E n : IsLen(s, n)
    BY SectionLenRead
  <1>4. ASSUME NEW s, s \in SectionEntry PROVE \E n : IsSection(s, n)
    <2>1. PICK x \in SectionLen : s \in H(x)
      BY <1>1, <1>4, Zenon
    <2>2. PICK n : IsLen(x, n)
      BY <1>3, <2>1, Zenon
    <2>3. FitsIn(n, W64) /\ Ends(pos, SectionHead(section, n), x.pos) /\ x.val = n
      BY <2>2, ResFacts, Zenon DEF IsLen
    <2>4. x.val <= end - x.pos /\ s = Res(x.pos + x.val, x.pos)
      BY <1>2, <2>1, Zenon
    <2>5. s.pos = x.pos
      BY <2>4, ResFacts, Zenon
    <2> QED BY <2>3, <2>4, <2>5, Zenon DEF IsSection
  <1>5. ASSUME NEW s, NEW n, IsSection(s, n) PROVE s \in SectionEntry
    <2> DEFINE q == s.pos
               x == Res(n, q)
    <2>1. FitsIn(n, W64) /\ Ends(pos, SectionHead(section, n), q) /\ n <= end - q /\ s = Res(q + n, q)
      BY <1>5, Zenon DEF IsSection
    <2> HIDE DEF q
    <2>2. x.val = n /\ x.pos = q
      BY ResFacts
    <2>3. x = Res(n, q)
      OBVIOUS
    <2> HIDE DEF x
    <2>4. x \in SectionLen
      BY <1>3, <2>1, <2>2, <2>3, Zenon DEF IsLen
    <2>5. s \in H(x) /\ H(x) \in {H(y) : y \in SectionLen}
      BY <1>2, <2>1, <2>2, <2>4, Zenon
    <2> QED BY <1>1, <2>5, Zenon
  <1> QED BY <1>4, <1>5, Zenon

\* The number of entries of a table.
MinLen(i) == <<0, MIN_SYMBOL_LEN, MIN_TYPE_LEN, MIN_CONSTANT_LEN, MIN_FUNCTION_LEN>>[i]
LEMMA MinLens ==
    /\ MinLen(2) = 2 /\ MinLen(3) = 1 /\ MinLen(4) = 3 /\ MinLen(5) = 13
    /\ \A i \in 2..5 : MinLen(i) \in Nat
  BY DEF MinLen, MIN_SYMBOL_LEN, MIN_TYPE_LEN, MIN_CONSTANT_LEN, MIN_FUNCTION_LEN, W32

LEMMA CountRead ==
    ASSUME FileOK, pos \in Nat, section \in 2..5
    PROVE  \A s : s \in CountEntry
                  <=> /\ FitsIn(s.val, W32) /\ Result(s, pos, s.val, U32(s.val))
                      /\ s.val * MinLen(section) <= end - s.pos
                      /\ section = 3 => s.val >= SCALAR_TYPES
  <1> DEFINE n == MinLen(section)
  <1>1. n \in Nat
    BY MinLens
  <1>2. \A s : s \in CountEntry <=> s \in Count(pos, n) /\ (section = 3 => s.val >= SCALAR_TYPES)
    BY Zenon DEF CountEntry, Ensure, MinLen
  <1> HIDE DEF n
  <1>3. \A s : s \in Count(pos, n)
                  <=> /\ FitsIn(s.val, W32) /\ Result(s, pos, s.val, U32(s.val))
                      /\ s.val * n <= end - s.pos
    BY <1>1, CountReads
  <1> QED BY <1>2, <1>3, Zenon DEF n

\* The attributes of the module.
ModuleBytes(m) == U32(m.major) \o U32(m.minor) \o Opt(m.name)
ModuleLegal(m) == FitsIn(m.major, W32) /\ FitsIn(m.minor, W32) /\ OptLegal(m.name)
LEMMA ModuleTyped ==
    ASSUME NEW m, ModuleLegal(m)
    PROVE  /\ ModuleBytes(m) \in Seq(Byte)
           /\ U32(m.major) \in Seq(Byte) /\ U32(m.minor) \in Seq(Byte) /\ Opt(m.name) \in Seq(Byte)
  <1>1. U32(m.major) \in Seq(Byte) /\ U32(m.minor) \in Seq(Byte)
    BY NumberTyped, Sizes DEF ModuleLegal, U32
  <1>2. Opt(m.name) \in Seq(Byte)
    BY OptTyped DEF ModuleLegal
  <1>3. U32(m.major) \o U32(m.minor) \in Seq(Byte)
    BY <1>1, ConcatTyped, Zenon
  <1> QED BY <1>1, <1>2, <1>3, ConcatTyped, Zenon DEF ModuleBytes

LEMMA ModuleIs ==
    ASSUME FileOK, pos \in Nat, pos <= end
    PROVE  \A s : s \in ModuleEntry
                  <=> /\ Fills(ModuleFields, [tag |-> "Module"], 3, s.val) /\ s.val.major = 1
                      /\ Result(s, pos, s.val, RecordBytes(ModuleFields, s.val))
  <1>1. FieldsOK(ModuleFields, [tag |-> "Module"]) /\ Len(ModuleFields) = 3
    BY ModuleForm
  <1>3. \A s : s \in Fields(pos, ModuleFields, [tag |-> "Module"])
               <=> /\ Fills(ModuleFields, [tag |-> "Module"], Len(ModuleFields), s.val)
                   /\ Result(s, pos, s.val, RecordBytes(ModuleFields, s.val))
    BY <1>1, FieldsRead
  <1>4. \A s : s \in ModuleEntry <=> s \in Fields(pos, ModuleFields, [tag |-> "Module"]) /\ s.val.major = 1
    BY Zenon DEF ModuleEntry, Ensure, ModuleFields
  <1> QED BY <1>1, <1>3, <1>4, Zenon

LEMMA ModuleNames ==
    /\ ModuleFields[1][1] = "major" /\ ModuleFields[1][2] = "u32"
    /\ ModuleFields[2][1] = "minor" /\ ModuleFields[2][2] = "u32"
    /\ ModuleFields[3][1] = "name" /\ ModuleFields[3][2] = "opt"
  BY DEF ModuleFields

LEMMA ModuleRecord ==
    ASSUME FileOK, NEW m, Fills(ModuleFields, [tag |-> "Module"], 3, m)
    PROVE  ModuleLegal(m) /\ RecordBytes(ModuleFields, m) = ModuleBytes(m)
  <1>1. FieldsOK(ModuleFields, [tag |-> "Module"]) /\ Len(ModuleFields) = 3
    BY ModuleForm
  <1> DEFINE b(i) == FieldBytesOf(ModuleFields, m, i)
  <1>2. Fills(ModuleFields, [tag |-> "Module"], Len(ModuleFields), m)
    BY <1>1
  <1>3. RecordBytes(ModuleFields, m) = b(1) \o b(2) \o b(3)
    BY <1>1, <1>2, FewFields
  <1>4. b(1) = U32(m.major) /\ b(2) = U32(m.minor) /\ b(3) = Opt(m.name)
    BY ModuleForm, Zenon
  <1>5. Legal("u32", m.major) /\ Legal("u32", m.minor) /\ Legal("opt", m.name)
    <2>1. \A i \in 1..3 : Legal(ModuleFields[i][2], m[ModuleFields[i][1]])
      BY DEF Fills
    <2>2. 1 \in 1..3 /\ 2 \in 1..3 /\ 3 \in 1..3
      OBVIOUS
    <2> QED BY <2>1, <2>2, ModuleNames
  <1>6. ModuleLegal(m)
    BY <1>5 DEF Legal, ModuleLegal
  <1> HIDE DEF b
  <1> QED BY <1>3, <1>4, <1>6, Zenon DEF ModuleBytes

LEMMA ModuleRead ==
    ASSUME FileOK, pos \in Nat, pos <= end, NEW s \in ModuleEntry
    PROVE  /\ ModuleLegal(s.val) /\ s.val.major = 1
           /\ Ends(pos, ModuleBytes(s.val), s.pos)
  <1> DEFINE m == s.val
  <1>1. /\ Fills(ModuleFields, [tag |-> "Module"], 3, m) /\ m.major = 1
        /\ Result(s, pos, m, RecordBytes(ModuleFields, m))
    BY ModuleIs, Zenon
  <1>2. Ends(pos, RecordBytes(ModuleFields, m), s.pos)
    BY <1>1, ResultIs, Zenon
  <1> HIDE DEF m
  <1>3. ModuleLegal(m) /\ RecordBytes(ModuleFields, m) = ModuleBytes(m)
    BY <1>1, ModuleRecord
  <1> QED BY <1>1, <1>2, <1>3, Zenon DEF m

LEMMA ModuleReads ==
    ASSUME FileOK, pos \in Nat, pos <= end, NEW d, ModuleLegal(d), d.major = 1,
           NEW q, Ends(pos, ModuleBytes(d), q)
    PROVE  \E s \in ModuleEntry : /\ s.pos = q /\ s.val.major = d.major
                                  /\ s.val.minor = d.minor /\ s.val.name = d.name
  <1> DEFINE m == [tag |-> "Module", major |-> d.major, minor |-> d.minor, name |-> d.name]
             D == {"tag", "major", "minor", "name"}
  <1>1. /\ m = [x \in D |-> m[x]] /\ m["tag"] = "Module"
        /\ m["major"] = d.major /\ m["minor"] = d.minor /\ m["name"] = d.name
        /\ m.major = d.major /\ m.minor = d.minor /\ m.name = d.name
    OBVIOUS
  <1> HIDE DEF m
  <1>2. \A i \in 1..3 : Legal(ModuleFields[i][2], m[ModuleFields[i][1]])
    <2>1. Legal("u32", d.major) /\ Legal("u32", d.minor) /\ Legal("opt", d.name)
      BY DEF Legal, ModuleLegal
    <2> QED BY <1>1, <2>1, ModuleNames
  <1>3. D = DOMAIN [tag |-> "Module"] \cup Names(ModuleFields, 3)
    <2>1. 1..3 = {1, 2, 3} /\ DOMAIN [tag |-> "Module"] = {"tag"}
      OBVIOUS
    <2>2. Names(ModuleFields, 3) = {"major", "minor", "name"}
      BY <2>1, ModuleNames DEF Names
    <2> QED BY <2>1, <2>2
  <1> HIDE DEF D
  <1>4. Fills(ModuleFields, [tag |-> "Module"], 3, m)
    <2>1. m = [x \in DOMAIN [tag |-> "Module"] \cup Names(ModuleFields, 3) |-> m[x]]
      BY <1>1, <1>3
    <2>2. \A x \in DOMAIN [tag |-> "Module"] : m[x] = [tag |-> "Module"][x]
      BY <1>1
    <2> QED BY <1>2, <2>1, <2>2, FillsRecord
  <1>5. RecordBytes(ModuleFields, m) = ModuleBytes(d)
    <2>1. RecordBytes(ModuleFields, m) = ModuleBytes(m)
      BY <1>4, ModuleRecord
    <2> QED BY <1>1, <2>1, Zenon DEF ModuleBytes
  <1> DEFINE s == Res(m, q)
  <1>6. s.val = m /\ s.pos = q /\ Result(s, pos, m, ModuleBytes(d))
    BY ResFacts
  <1> HIDE DEF s
  <1>7. s \in ModuleEntry
    BY <1>1, <1>4, <1>5, <1>6, ModuleIs, Zenon
  <1>8. s.pos = q /\ s.val.major = d.major /\ s.val.minor = d.minor /\ s.val.name = d.name
    BY <1>1, <1>6
  <1> QED BY <1>7, <1>8


-----------------------------------------------------------------------------
(* A read has one result at most                                           *)

One(R) == \A s, t \in R : s = t

LEMMA FixedOne == \A p, w : One(Fixed(p, w))
  BY DEF One, Fixed, Good
LEMMA EnsureOne ==
    ASSUME NEW R, One(R), NEW Q, Q \subseteq R
    PROVE  One(Q)
  BY Zenon DEF One
\* What g makes of the one result there is.
LEMMA OneFrom ==
    ASSUME NEW R, One(R), NEW g, NEW Q, \A s \in Q : \E n \in R : s = g[n]
    PROVE  One(Q)
  <1> SUFFICES ASSUME NEW s \in Q, NEW t \in Q PROVE s = t
    BY DEF One
  <1>1. PICK n \in R : s = g[n]
    OBVIOUS
  <1>2. PICK m \in R : t = g[m]
    OBVIOUS
  <1>3. n = m
    BY DEF One
  <1> QED BY <1>1, <1>2, <1>3
LEMMA TagOne == \A p, tags : One(Tag(p, tags))
  <1> SUFFICES ASSUME NEW p, NEW tags, NEW s \in Tag(p, tags), NEW t \in Tag(p, tags) PROVE s = t
    BY DEF One
  <1>1. PICK a \in Fixed(p, 1) : s = [a EXCEPT !.val = tags[a.val + 1]]
    BY DEF Tag, Ensure
  <1>2. PICK b \in Fixed(p, 1) : t = [b EXCEPT !.val = tags[b.val + 1]]
    BY DEF Tag, Ensure
  <1>3. a = b
    BY FixedOne DEF One
  <1> QED BY <1>1, <1>2, <1>3
LEMMA BoolOne == \A p : One(Bool(p))
  BY TagOne DEF Bool
LEMMA OptOne == \A p : One(OptU32(p))
  <1> SUFFICES ASSUME NEW p, NEW s \in OptU32(p), NEW t \in OptU32(p) PROVE s = t
    BY DEF One
  <1> DEFINE next(r) == IF r.val THEN Fixed(r.pos, W32) ELSE Good(None, r.pos)
  <1>1. PICK a \in Bool(p) : s \in next(a)
    BY DEF OptU32, Then
  <1>2. PICK b \in Bool(p) : t \in next(b)
    BY DEF OptU32, Then
  <1>3. a = b
    BY BoolOne DEF One
  <1>4. One(next(a))
    <2>1. One(Good(None, a.pos))
      BY DEF One, Good
    <2> QED BY <2>1, FixedOne
  <1> QED BY <1>1, <1>2, <1>3, <1>4, Zenon DEF One
LEMMA CountOne == \A p, least : One(Count(p, least))
  BY FixedOne DEF Count, One
LEMMA SymbolOne == \A p : One(Symbol(p)) /\ One(OptSymbol(p))
  BY FixedOne, OptOne DEF Symbol, OptSymbol, Ensure, One
LEMMA ListsOne == \A p : One(IdList(p)) /\ One(Blob(p)) /\ One(Pairs(p))
  <1> TAKE p
  <1>1. One(IdList(p))
    <2> DEFINE got(n) == [val |-> [i \in 1..n.val |-> UInt(n.pos + (i - 1) * W32, W32)], pos |-> n.pos + n.val * W32]
    <2>1. \A s : s \in IdList(p) <=> \E n \in Count(p, W32) : s = got(n)
      BY Zenon DEF IdList, FixedList, Then, Good, ID_LEN
    <2> DEFINE g == [n \in Count(p, W32) |-> got(n)]
    <2>2. \A s \in IdList(p) : \E n \in Count(p, W32) : s = g[n]
      <3>1. \A n \in Count(p, W32) : g[n] = got(n)
        OBVIOUS
      <3> HIDE DEF g, got
      <3> QED BY <2>1, <3>1, Zenon
    <2> HIDE DEF g, got
    <2> QED BY <2>2, CountOne, OneFrom
  <1>2. One(Blob(p))
    <2> DEFINE got(n) == [val |-> [i \in 1..n.val |-> UInt(n.pos + (i - 1) * 1, 1)], pos |-> n.pos + n.val * 1]
    <2>1. \A s : s \in Blob(p) <=> \E n \in Count(p, 1) : s = got(n)
      BY Zenon DEF Blob, FixedList, Then, Good
    <2> DEFINE g == [n \in Count(p, 1) |-> got(n)]
    <2>2. \A s \in Blob(p) : \E n \in Count(p, 1) : s = g[n]
      <3>1. \A n \in Count(p, 1) : g[n] = got(n)
        OBVIOUS
      <3> HIDE DEF g, got
      <3> QED BY <2>1, <3>1, Zenon
    <2> HIDE DEF g, got
    <2> QED BY <2>2, CountOne, OneFrom
  <1>3. One(Pairs(p))
    <2> DEFINE got(n) == [val |-> [i \in 1..n.val |-> [value |-> UInt(n.pos + (i - 1) * MIN_PARAM_LEN, W32), ty |-> UInt(n.pos + (i - 1) * MIN_PARAM_LEN + W32, W32)]], pos |-> n.pos + n.val * MIN_PARAM_LEN]
    <2>1. \A s : s \in Pairs(p) <=> \E n \in Count(p, MIN_PARAM_LEN) : s = got(n)
      BY Zenon DEF Pairs, FixedList, Then, Good
    <2> DEFINE g == [n \in Count(p, MIN_PARAM_LEN) |-> got(n)]
    <2>2. \A s \in Pairs(p) : \E n \in Count(p, MIN_PARAM_LEN) : s = g[n]
      <3>1. \A n \in Count(p, MIN_PARAM_LEN) : g[n] = got(n)
        OBVIOUS
      <3> HIDE DEF g, got
      <3> QED BY <2>1, <3>1, Zenon
    <2> HIDE DEF g, got
    <2> QED BY <2>2, CountOne, OneFrom
  <1> QED BY <1>1, <1>2, <1>3
LEMMA AbiOne == \A p : One(AbiAt(p))
  <1> SUFFICES ASSUME NEW p, NEW s \in AbiAt(p), NEW t \in AbiAt(p) PROVE s = t
    BY DEF One
  <1> DEFINE custom(r) == Then(Symbol(r.pos), LAMBDA y : Good([tag |-> "Custom", symbol |-> y.val], y.pos))
             next(r) == IF r.val # "Custom" THEN Good([tag |-> r.val], r.pos) ELSE custom(r)
  <1>1. PICK a \in Tag(p, AbiTags) : s \in next(a)
    BY DEF AbiAt, Then
  <1>2. PICK b \in Tag(p, AbiTags) : t \in next(b)
    BY DEF AbiAt, Then
  <1>3. a = b
    BY TagOne DEF One
  <1>4. One(next(a))
    <2>1. One(Good([tag |-> a.val], a.pos))
      BY DEF One, Good
    <2>2. One(custom(a))
      <3> DEFINE got(y) == [val |-> [tag |-> "Custom", symbol |-> y.val], pos |-> y.pos]
      <3>1. \A x : x \in custom(a) <=> \E y \in Symbol(a.pos) : x = got(y)
        BY Zenon DEF Then, Good
      <3> DEFINE g == [y \in Symbol(a.pos) |-> got(y)]
      <3>2. \A x \in custom(a) : \E y \in Symbol(a.pos) : x = g[y]
        <4>1. \A y \in Symbol(a.pos) : g[y] = got(y)
          OBVIOUS
        <4> HIDE DEF g, got, custom
        <4> QED BY <3>1, <4>1, Zenon
      <3> HIDE DEF g, got, custom
      <3> QED BY <3>2, SymbolOne, OneFrom
    <2> QED BY <2>1, <2>2, Zenon
  <1> HIDE DEF next
  <1> QED BY <1>1, <1>2, <1>3, <1>4, Zenon DEF One

LEMMA FieldOne ==
    ASSUME NEW how \in Hows, NEW p
    PROVE  One(Field(how, p))
  <1>1. One(Field("u8", p))
    BY FieldForms, FixedOne
  <1>2. One(Field("u16", p))
    BY FieldForms, FixedOne
  <1>3. One(Field("u32", p))
    BY FieldForms, FixedOne
  <1>4. One(Field("u64", p))
    BY FieldForms, FixedOne
  <1>5. One(Field("u128", p))
    BY FieldForms, FixedOne
  <1>6. One(Field("bool", p))
    BY FieldForms, BoolOne
  <1>7. One(Field("opt", p))
    BY FieldForms, OptOne
  <1>8. One(Field("float", p))
    BY FieldForms, TagOne
  <1>9. One(Field("linkage", p))
    BY FieldForms, TagOne
  <1>10. One(Field("abi", p))
    BY FieldForms, AbiOne
  <1>11. One(Field("symbol", p))
    BY FieldForms, SymbolOne
  <1>12. One(Field("opt symbol", p))
    BY FieldForms, SymbolOne
  <1>13. One(Field("blob", p))
    BY FieldForms, ListsOne
  <1>14. One(Field("ids", p))
    BY FieldForms, ListsOne
  <1>15. One(Field("pairs", p))
    BY FieldForms, ListsOne
  <1> QED BY <1>1, <1>2, <1>3, <1>4, <1>5, <1>6, <1>7, <1>8, <1>9, <1>10, <1>11, <1>12, <1>13, <1>14, <1>15 DEF Hows

LEMMA FieldsOne ==
    ASSUME NEW p, NEW fields, NEW record, Len(fields) \in Nat,
           \A i \in 1..Len(fields) : fields[i][2] \in Hows
    PROVE  One(Fields(p, fields, record))
  <1> DEFINE k == Len(fields)
  <1>1. PICK f : IsRead(f, p, fields, record, k) /\ Fields(p, fields, record) = f[k]
    BY FieldsAre
  <1>2. f[0] = Good(record, p) /\ \A n \in 1..k : f[n] = FieldStep(fields, f[n - 1], n)
    BY <1>1, IsReadStep
  <1> DEFINE good == {n \in 0..k : One(f[n])}
  <1>3. 0 \in good
    <2>1. One(Good(record, p))
      BY DEF One, Good
    <2> QED BY <1>2, <2>1
  <1>4. ASSUME NEW n \in 1..k, n - 1 \in good PROVE n \in good
    <2> DEFINE R == f[n - 1]
               how == fields[n][2]
    <2>1. One(R) /\ how \in Hows /\ n \in 0..k
      BY <1>4
    <2>2. f[n] = FieldStep(fields, R, n)
      BY <1>2
    <2> HIDE DEF R
    <2>3. ASSUME NEW s \in FieldStep(fields, R, n), NEW t \in FieldStep(fields, R, n) PROVE s = t
      <3>1. PICK a \in R : \E x \in Field(how, a.pos) : s = [val |-> With(a.val, fields[n][1], x.val), pos |-> x.pos]
        BY StepIs
      <3>2. PICK b \in R : \E y \in Field(how, b.pos) : t = [val |-> With(b.val, fields[n][1], y.val), pos |-> y.pos]
        BY StepIs
      <3>3. a = b
        BY <2>1, <3>1, <3>2 DEF One
      <3>4. PICK x \in Field(how, a.pos) : s = [val |-> With(a.val, fields[n][1], x.val), pos |-> x.pos]
        BY <3>1
      <3>5. PICK y \in Field(how, a.pos) : t = [val |-> With(a.val, fields[n][1], y.val), pos |-> y.pos]
        BY <3>2, <3>3
      <3> HIDE DEF how
      <3>6. x = y
        BY <2>1, FieldOne DEF One
      <3> QED BY <3>4, <3>5, <3>6, Zenon
    <2> QED BY <2>1, <2>2, <2>3 DEF One
  <1>5. \A n \in 0..k : n \in good
    <2> HIDE DEF good
    <2> QED BY <1>3, <1>4, UpTo
  <1>6. k \in good
    BY <1>5
  <1> QED BY <1>1, <1>6

\* One read after another.
LEMMA OneThen ==
    ASSUME NEW R, One(R), NEW N, NEW Q, \A s \in Q : \E f \in R : s \in N[f],
           \A f \in R : One(N[f])
    PROVE  One(Q)
  <1> SUFFICES ASSUME NEW s \in Q, NEW t \in Q PROVE s = t
    BY DEF One
  <1>1. PICK f \in R : s \in N[f]
    OBVIOUS
  <1>2. PICK g \in R : t \in N[g]
    OBVIOUS
  <1>3. f = g
    BY DEF One
  <1>4. One(N[f])
    OBVIOUS
  <1> QED BY <1>1, <1>2, <1>3, <1>4 DEF One

\* The entries that are one read, with a condition.
LEMMA TaggedsOne ==
    ASSUME FileOK, NEW p \in Nat
    PROVE  /\ One(Tagged(p, TypeTags, ReadsType))
           /\ One(Tagged(p, ConstTags, ReadsConst))
           /\ One(Tagged(p, ValueTags, ReadsKind))
           /\ One(Tagged(p, TermTags, ReadsTerm))
           /\ One(Tagged(p, Opcodes, ReadsInst))
  <1>1. One(Tagged(p, TypeTags, ReadsType))
    <2> DEFINE N == [t \in Tag(p, TypeTags) |-> Fields(t.pos, ReadsType(t.val), [tag |-> t.val])]
    <2>1. \A s \in Tagged(p, TypeTags, ReadsType) : \E t \in Tag(p, TypeTags) : s \in Fields(t.pos, ReadsType(t.val), [tag |-> t.val])
      BY Zenon DEF Tagged, Then
    <2>2. \A t \in Tag(p, TypeTags) : N[t] = Fields(t.pos, ReadsType(t.val), [tag |-> t.val])
      OBVIOUS
    <2>3. ASSUME NEW t \in Tag(p, TypeTags) PROVE One(N[t])
      <3>1. InTable(TypeTags, t.val)
        BY SmallTables, TagReads
      <3>2. ListOK(ReadsType(t.val))
        BY <3>1, TypeLists, PlainMatches
      <3> QED BY <2>2, <3>2, FieldsOne DEF ListOK
    <2> HIDE DEF N
    <2>4. \A s \in Tagged(p, TypeTags, ReadsType) : \E t \in Tag(p, TypeTags) : s \in N[t]
      BY <2>1, <2>2, Zenon
    <2> QED BY <2>3, <2>4, TagOne, OneThen
  <1>2. One(Tagged(p, ConstTags, ReadsConst))
    <2> DEFINE N == [t \in Tag(p, ConstTags) |-> Fields(t.pos, ReadsConst(t.val), [tag |-> t.val])]
    <2>1. \A s \in Tagged(p, ConstTags, ReadsConst) : \E t \in Tag(p, ConstTags) : s \in Fields(t.pos, ReadsConst(t.val), [tag |-> t.val])
      BY Zenon DEF Tagged, Then
    <2>2. \A t \in Tag(p, ConstTags) : N[t] = Fields(t.pos, ReadsConst(t.val), [tag |-> t.val])
      OBVIOUS
    <2>3. ASSUME NEW t \in Tag(p, ConstTags) PROVE One(N[t])
      <3>1. InTable(ConstTags, t.val)
        BY SmallTables, TagReads
      <3>2. ListOK(ReadsConst(t.val))
        BY <3>1, ConstLists, PlainMatches
      <3> QED BY <2>2, <3>2, FieldsOne DEF ListOK
    <2> HIDE DEF N
    <2>4. \A s \in Tagged(p, ConstTags, ReadsConst) : \E t \in Tag(p, ConstTags) : s \in N[t]
      BY <2>1, <2>2, Zenon
    <2> QED BY <2>3, <2>4, TagOne, OneThen
  <1>3. One(Tagged(p, ValueTags, ReadsKind))
    <2> DEFINE N == [t \in Tag(p, ValueTags) |-> Fields(t.pos, ReadsKind(t.val), [tag |-> t.val])]
    <2>1. \A s \in Tagged(p, ValueTags, ReadsKind) : \E t \in Tag(p, ValueTags) : s \in Fields(t.pos, ReadsKind(t.val), [tag |-> t.val])
      BY Zenon DEF Tagged, Then
    <2>2. \A t \in Tag(p, ValueTags) : N[t] = Fields(t.pos, ReadsKind(t.val), [tag |-> t.val])
      OBVIOUS
    <2>3. ASSUME NEW t \in Tag(p, ValueTags) PROVE One(N[t])
      <3>1. InTable(ValueTags, t.val)
        BY SmallTables, TagReads
      <3>2. ListOK(ReadsKind(t.val))
        BY <3>1, KindLists, PlainMatches
      <3> QED BY <2>2, <3>2, FieldsOne DEF ListOK
    <2> HIDE DEF N
    <2>4. \A s \in Tagged(p, ValueTags, ReadsKind) : \E t \in Tag(p, ValueTags) : s \in N[t]
      BY <2>1, <2>2, Zenon
    <2> QED BY <2>3, <2>4, TagOne, OneThen
  <1>4. One(Tagged(p, TermTags, ReadsTerm))
    <2> DEFINE N == [t \in Tag(p, TermTags) |-> Fields(t.pos, ReadsTerm(t.val), [tag |-> t.val])]
    <2>1. \A s \in Tagged(p, TermTags, ReadsTerm) : \E t \in Tag(p, TermTags) : s \in Fields(t.pos, ReadsTerm(t.val), [tag |-> t.val])
      BY Zenon DEF Tagged, Then
    <2>2. \A t \in Tag(p, TermTags) : N[t] = Fields(t.pos, ReadsTerm(t.val), [tag |-> t.val])
      OBVIOUS
    <2>3. ASSUME NEW t \in Tag(p, TermTags) PROVE One(N[t])
      <3>1. InTable(TermTags, t.val)
        BY SmallTables, TagReads
      <3>2. ListOK(ReadsTerm(t.val))
        BY <3>1, TermLists, PlainMatches
      <3> QED BY <2>2, <3>2, FieldsOne DEF ListOK
    <2> HIDE DEF N
    <2>4. \A s \in Tagged(p, TermTags, ReadsTerm) : \E t \in Tag(p, TermTags) : s \in N[t]
      BY <2>1, <2>2, Zenon
    <2> QED BY <2>3, <2>4, TagOne, OneThen
  <1>5. One(Tagged(p, Opcodes, ReadsInst))
    <2> DEFINE N == [t \in Tag(p, Opcodes) |-> Fields(t.pos, ReadsInst(t.val), [tag |-> t.val])]
    <2>1. \A s \in Tagged(p, Opcodes, ReadsInst) : \E t \in Tag(p, Opcodes) : s \in Fields(t.pos, ReadsInst(t.val), [tag |-> t.val])
      BY Zenon DEF Tagged, Then
    <2>2. \A t \in Tag(p, Opcodes) : N[t] = Fields(t.pos, ReadsInst(t.val), [tag |-> t.val])
      OBVIOUS
    <2>3. ASSUME NEW t \in Tag(p, Opcodes) PROVE One(N[t])
      <3>1. InTable(Opcodes, t.val)
        BY OpcodeTable, TagReads
      <3>2. ListOK(ReadsInst(t.val))
        BY <3>1, InstLists, PlainMatches
      <3> QED BY <2>2, <3>2, FieldsOne DEF ListOK
    <2> HIDE DEF N
    <2>4. \A s \in Tagged(p, Opcodes, ReadsInst) : \E t \in Tag(p, Opcodes) : s \in N[t]
      BY <2>1, <2>2, Zenon
    <2> QED BY <2>3, <2>4, TagOne, OneThen
  <1> QED BY <1>1, <1>2, <1>3, <1>4, <1>5

LEMMA TablesOne ==
    ASSUME FileOK, pos \in Nat
    PROVE  One(SymbolEntry) /\ One(TypeEntry) /\ One(ConstantEntry) /\ One(TermEntry)
  <1>1. One(SymbolEntry)
    BY ListsOne, EnsureOne DEF SymbolEntry, Ensure
  <1>2. One(TypeEntry)
    BY TaggedsOne, EnsureOne DEF TypeEntry, Ensure
  <1>3. One(ConstantEntry)
    BY TaggedsOne, EnsureOne DEF ConstantEntry, Ensure
  <1>4. One(TermEntry)
    BY TaggedsOne, Zenon DEF TermEntry
  <1> QED BY <1>1, <1>2, <1>3, <1>4

LEMMA InstOne ==
    ASSUME FileOK, pos \in Nat
    PROVE  One(InstEntry)
  <1> DEFINE R == Tagged(pos, Opcodes, ReadsInst)
             next(k) == Then(OptU32(k.pos), LAMBDA r : Good([kind |-> k.val, result |-> r.val], r.pos))
             N == [k \in R |-> next(k)]
  <1>1. \A s \in InstEntry : \E k \in R : s \in next(k)
    BY Zenon DEF InstEntry, Then
  <1>2. \A k \in R : N[k] = next(k)
    OBVIOUS
  <1>3. One(R)
    BY TaggedsOne
  <1>4. ASSUME NEW k \in R PROVE One(next(k))
    <2> DEFINE V(r) == [val |-> [kind |-> k.val, result |-> r.val], pos |-> r.pos]
               g == [r \in OptU32(k.pos) |-> V(r)]
    <2>1. One(OptU32(k.pos))
      BY OptOne
    <2>2. \A s \in next(k) : \E r \in OptU32(k.pos) : s = V(r)
      BY Zenon DEF Then, Good
    <2>3. \A r \in OptU32(k.pos) : g[r] = V(r)
      OBVIOUS
    <2> HIDE DEF R, next, N, g, V
    <2>4. \A s \in next(k) : \E r \in OptU32(k.pos) : s = g[r]
      BY <2>2, <2>3, Zenon
    <2> QED BY <2>1, <2>4, OneFrom
  <1> HIDE DEF R, next, N
  <1>5. (\A s \in InstEntry : \E k \in R : s \in N[k]) /\ \A k \in R : One(N[k])
    BY <1>1, <1>2, <1>4, Zenon
  <1> QED BY <1>3, <1>5, OneThen

LEMMA RestOne ==
    ASSUME FileOK, NEW p \in Nat, NEW t
    PROVE  One(ValueRest(p, t))
  <1> DEFINE R == Tagged(p, ValueTags, ReadsKind)
             next(k) == Then(OptSymbol(k.pos), LAMBDA n : Good([ty |-> t, kind |-> k.val, name |-> n.val], n.pos))
             N == [k \in R |-> next(k)]
  <1>1. \A s \in ValueRest(p, t) : \E k \in R : s \in next(k)
    BY Zenon DEF ValueRest, Then
  <1>2. \A k \in R : N[k] = next(k)
    OBVIOUS
  <1>3. One(R)
    BY TaggedsOne
  <1>4. ASSUME NEW k \in R PROVE One(next(k))
    <2> DEFINE V(n) == [val |-> [ty |-> t, kind |-> k.val, name |-> n.val], pos |-> n.pos]
               g == [n \in OptSymbol(k.pos) |-> V(n)]
    <2>1. One(OptSymbol(k.pos))
      BY SymbolOne
    <2>2. \A s \in next(k) : \E n \in OptSymbol(k.pos) : s = V(n)
      BY Zenon DEF Then, Good
    <2>3. \A n \in OptSymbol(k.pos) : g[n] = V(n)
      OBVIOUS
    <2> HIDE DEF R, next, N, g, V
    <2>4. \A s \in next(k) : \E n \in OptSymbol(k.pos) : s = g[n]
      BY <2>2, <2>3, Zenon
    <2> QED BY <2>1, <2>4, OneFrom
  <1> HIDE DEF R, next, N
  <1>5. (\A s \in ValueRest(p, t) : \E k \in R : s \in N[k]) /\ \A k \in R : One(N[k])
    BY <1>1, <1>2, <1>4, Zenon
  <1> QED BY <1>3, <1>5, OneThen

LEMMA ValueOne ==
    ASSUME FileOK, pos \in Nat
    PROVE  One(ValueEntry)
  <1> DEFINE R == Fixed(pos, W32)
             N == [t \in R |-> ValueRest(t.pos, t.val)]
  <1>1. \A s \in ValueEntry : \E t \in R : s \in ValueRest(t.pos, t.val)
    BY Zenon DEF ValueEntry, Then, ValueRest
  <1>2. \A t \in R : N[t] = ValueRest(t.pos, t.val)
    OBVIOUS
  <1>3. One(R)
    BY FixedOne
  <1>4. ASSUME NEW t \in R PROVE One(ValueRest(t.pos, t.val))
    <2>1. Ends(pos, U32(t.val), t.pos)
      BY Sizes, FixedReads, ResultIs DEF U32
    <2>2. t.pos \in Nat
      BY <2>1, EndsFacts
    <2> QED BY <2>2, RestOne
  <1> HIDE DEF R, N
  <1>5. (\A s \in ValueEntry : \E t \in R : s \in N[t]) /\ \A t \in R : One(N[t])
    BY <1>1, <1>2, <1>4, Zenon
  <1> QED BY <1>3, <1>5, OneThen

LEMMA FunctionOne ==
    ASSUME FileOK, pos \in Nat
    PROVE  One(FunctionEntry)
  <1> DEFINE R == Fields(pos, ReadsSignature, EmptyFunction)
             next(f) == Then(Count(f.pos, MIN_VALUE_LEN), LAMBDA n : Good([function |-> f.val, values |-> n.val], n.pos))
             N == [f \in R |-> next(f)]
  <1>1. \A s \in FunctionEntry : \E f \in R : s \in next(f)
    BY Zenon DEF FunctionEntry, EmptyFunction, Then
  <1>2. \A f \in R : N[f] = next(f)
    OBVIOUS
  <1>3. One(R)
    BY SignatureForm, FieldsOne DEF FieldsOK
  <1>4. ASSUME NEW f \in R PROVE One(next(f))
    <2> DEFINE V(n) == [val |-> [function |-> f.val, values |-> n.val], pos |-> n.pos]
               g == [n \in Count(f.pos, MIN_VALUE_LEN) |-> V(n)]
    <2>1. One(Count(f.pos, MIN_VALUE_LEN))
      BY CountOne
    <2>2. \A s \in next(f) : \E n \in Count(f.pos, MIN_VALUE_LEN) : s = V(n)
      BY Zenon DEF Then, Good
    <2>3. \A n \in Count(f.pos, MIN_VALUE_LEN) : g[n] = V(n)
      OBVIOUS
    <2> HIDE DEF R, next, N, g, V
    <2>4. \A s \in next(f) : \E n \in Count(f.pos, MIN_VALUE_LEN) : s = g[n]
      BY <2>2, <2>3, Zenon
    <2> QED BY <2>1, <2>4, OneFrom
  <1> HIDE DEF R, next, N
  <1>5. (\A s \in FunctionEntry : \E f \in R : s \in N[f]) /\ \A f \in R : One(N[f])
    BY <1>1, <1>2, <1>4, Zenon
  <1> QED BY <1>3, <1>5, OneThen

LEMMA BlockOne ==
    ASSUME FileOK, pos \in Nat
    PROVE  One(BlockEntry)
  <1> DEFINE R == Fields(pos, BlockFields, EmptyBlock)
             next(b) == Then(Count(b.pos, MIN_INSTRUCTION_LEN), LAMBDA n : Good([block |-> b.val, insts |-> n.val], n.pos))
             N == [b \in R |-> next(b)]
  <1>1. \A s \in BlockEntry : \E b \in R : s \in next(b)
    BY Zenon DEF BlockEntry, BlockFields, EmptyBlock, Then
  <1>2. \A b \in R : N[b] = next(b)
    OBVIOUS
  <1>3. One(R)
    BY BlockForm, FieldsOne DEF FieldsOK
  <1>4. ASSUME NEW b \in R PROVE One(next(b))
    <2> DEFINE V(n) == [val |-> [block |-> b.val, insts |-> n.val], pos |-> n.pos]
               g == [n \in Count(b.pos, MIN_INSTRUCTION_LEN) |-> V(n)]
    <2>1. One(Count(b.pos, MIN_INSTRUCTION_LEN))
      BY CountOne
    <2>2. \A s \in next(b) : \E n \in Count(b.pos, MIN_INSTRUCTION_LEN) : s = V(n)
      BY Zenon DEF Then, Good
    <2>3. \A n \in Count(b.pos, MIN_INSTRUCTION_LEN) : g[n] = V(n)
      OBVIOUS
    <2> HIDE DEF R, next, N, g, V
    <2>4. \A s \in next(b) : \E n \in Count(b.pos, MIN_INSTRUCTION_LEN) : s = g[n]
      BY <2>2, <2>3, Zenon
    <2> QED BY <2>1, <2>4, OneFrom
  <1> HIDE DEF R, next, N
  <1>5. (\A s \in BlockEntry : \E b \in R : s \in N[b]) /\ \A b \in R : One(N[b])
    BY <1>1, <1>2, <1>4, Zenon
  <1> QED BY <1>3, <1>5, OneThen

LEMMA HeadsOne ==
    ASSUME FileOK
    PROVE  One(HeaderEntry) /\ One(SectionEntry) /\ One(ModuleEntry) /\ One(CountEntry)
  <1>1. One(HeaderEntry)
    <2>1. One(Fields(0, HeaderFields, [tag |-> "Header"]))
      BY HeaderForm, FieldsOne DEF FieldsOK
    <2> QED BY <2>1, EnsureOne DEF HeaderEntry, Ensure, HeaderFields
  <1>2. One(SectionEntry)
    <2> DEFINE R == Ensure(Fixed(pos, 1), LAMBDA tag : tag = SectionTags[section])
               N == [t \in R |-> Fixed(t.pos, W64)]
    <2>1. One(R)
      BY FixedOne, EnsureOne DEF Ensure
    <2>2. \A s \in SectionLen : \E t \in R : s \in Fixed(t.pos, W64)
      BY Zenon DEF SectionLen, Then
    <2>3. \A t \in R : N[t] = Fixed(t.pos, W64)
      OBVIOUS
    <2>4. \A t \in R : One(N[t])
      BY <2>3, FixedOne
    <2> HIDE DEF R, N
    <2>5. One(SectionLen)
      <3>1. \A s \in SectionLen : \E t \in R : s \in N[t]
        BY <2>2, <2>3, Zenon
      <3> QED BY <2>1, <2>4, <3>1, OneThen
    <2> DEFINE next(n) == IF n.val <= end - n.pos THEN Good(n.pos + n.val, n.pos) ELSE {}
               M == [n \in SectionLen |-> next(n)]
    <2>6. \A s \in SectionEntry : \E n \in SectionLen : s \in next(n)
      BY Zenon DEF SectionEntry, Then
    <2>7. \A n \in SectionLen : M[n] = next(n)
      OBVIOUS
    <2>8. \A n : One(next(n))
      BY DEF One, Good
    <2> HIDE DEF next, M
    <2>9. (\A s \in SectionEntry : \E n \in SectionLen : s \in M[n]) /\ \A n \in SectionLen : One(M[n])
      BY <2>6, <2>7, <2>8, Zenon
    <2> QED BY <2>5, <2>9, OneThen
  <1>3. One(ModuleEntry)
    <2>1. One(Fields(pos, ModuleFields, [tag |-> "Module"]))
      BY ModuleForm, FieldsOne DEF FieldsOK
    <2> QED BY <2>1, EnsureOne DEF ModuleEntry, Ensure, ModuleFields
  <1>4. One(CountEntry)
    BY CountOne, EnsureOne DEF CountEntry, Ensure
  <1> QED BY <1>1, <1>2, <1>3, <1>4

-----------------------------------------------------------------------------
(* What a module holds is legal to read                                    *)

LEMMA ListIn ==
    ASSUME NEW l, NEW S, l \in Seq(Range(l)), \A i \in DOMAIN l : l[i] \in S
    PROVE  l \in Seq(S) /\ DOMAIN l = 1..Len(l) /\ Len(l) \in Nat
  <1>1. Len(l) \in Nat /\ DOMAIN l = 1..Len(l) /\ l = [i \in 1..Len(l) |-> l[i]]
    OBVIOUS
  <1>2. \A i \in 1..Len(l) : l[i] \in S
    BY <1>1
  <1> QED BY <1>1, <1>2

LEMMA InRange ==
    ASSUME NEW tags, TagTable(tags), DOMAIN tags = 1..Len(tags), NEW t \in Range(tags)
    PROVE  InTable(tags, t)
  BY DEF Range, InTable

LEMMA TableDomains ==
    /\ DOMAIN TypeTags = 1..Len(TypeTags) /\ DOMAIN ConstTags = 1..Len(ConstTags)
    /\ DOMAIN ValueTags = 1..Len(ValueTags) /\ DOMAIN TermTags = 1..Len(TermTags)
    /\ DOMAIN Opcodes = 1..Len(Opcodes) /\ DOMAIN LinkageTags = 1..Len(LinkageTags)
    /\ DOMAIN AbiTags = 1..Len(AbiTags) /\ DOMAIN FloatKinds = 1..Len(FloatKinds)
  <1>1. DOMAIN TypeTags = 1..Len(TypeTags)
    BY DEF TypeTags
  <1>2. DOMAIN ConstTags = 1..Len(ConstTags)
    BY DEF ConstTags
  <1>3. DOMAIN ValueTags = 1..Len(ValueTags)
    BY DEF ValueTags
  <1>4. DOMAIN TermTags = 1..Len(TermTags)
    BY DEF TermTags
  <1>5. DOMAIN Opcodes = 1..Len(Opcodes)
    BY DEF Opcodes
  <1>6. DOMAIN LinkageTags = 1..Len(LinkageTags)
    BY DEF LinkageTags
  <1>7. DOMAIN AbiTags = 1..Len(AbiTags)
    BY DEF AbiTags
  <1>8. DOMAIN FloatKinds = 1..Len(FloatKinds)
    BY DEF FloatKinds
  <1> QED BY <1>1, <1>2, <1>3, <1>4, <1>5, <1>6, <1>7, <1>8

LEMMA FitsLists ==
    ASSUME NEW v
    PROVE  /\ Fits("blob", v) => BlobLegal(v)
           /\ Fits("ids", v) => IdsLegal(v)
           /\ Fits("pairs", v) => PairsLegal(v)
  <1>1. ASSUME Fits("blob", v) PROVE BlobLegal(v)
    <2>1. v \in Seq(Range(v)) /\ FitsIn(Len(v), W32) /\ \A i \in DOMAIN v : FitsIn(v[i], 1)
      BY <1>1, Zenon DEF Fits, ListOf
    <2>2. \A x : FitsIn(x, 1) => x \in Ints(1)
      BY DEF Ints, FitsIn
    <2>3. v \in Seq(Ints(1))
      BY <2>1, <2>2, ListIn
    <2> QED BY <2>1, <2>3 DEF BlobLegal, EntriesLegal
  <1>2. ASSUME Fits("ids", v) PROVE IdsLegal(v)
    <2>1. v \in Seq(Range(v)) /\ FitsIn(Len(v), W32) /\ \A i \in DOMAIN v : FitsIn(v[i], W32)
      BY <1>2, Zenon DEF Fits, ListOf
    <2>2. \A x : FitsIn(x, W32) => x \in Ints(W32)
      BY DEF Ints, FitsIn
    <2>3. v \in Seq(Ints(W32))
      BY <2>1, <2>2, ListIn
    <2> QED BY <2>1, <2>3 DEF IdsLegal, EntriesLegal
  <1>3. ASSUME Fits("pairs", v) PROVE PairsLegal(v)
    <2>1. v \in Seq(Range(v)) /\ FitsIn(Len(v), W32) /\ \A i \in DOMAIN v : PairFits(v[i])
      BY <1>3, Zenon DEF Fits, ListOf
    <2>2. \A x : PairFits(x) => x \in PairSet
      BY DEF PairSet, PairFits, Ints, FitsIn
    <2>3. v \in Seq(PairSet)
      BY <2>1, <2>2, ListIn
    <2> QED BY <2>1, <2>3 DEF PairsLegal, EntriesLegal
  <1> QED BY <1>1, <1>2, <1>3

LEMMA FitsLegal ==
    ASSUME NEW how \in SameHows, NEW v, Fits(how, v)
    PROVE  Legal(how, v)
  <1>1. CASE how = "u32"
    BY <1>1 DEF Legal, Fits
  <1>2. CASE how = "u64"
    BY <1>2 DEF Legal, Fits
  <1>3. CASE how = "u128"
    BY <1>3 DEF Legal, Fits
  <1>4. CASE how = "bool"
    BY <1>4 DEF Legal, Fits, IsBool
  <1>5. CASE how = "opt"
    BY <1>5 DEF Legal, Fits, OptFits, OptLegal
  <1>6. CASE how = "blob"
    BY <1>6, FitsLists DEF Legal
  <1>7. CASE how = "ids"
    BY <1>7, FitsLists DEF Legal
  <1>8. CASE how = "pairs"
    BY <1>8, FitsLists DEF Legal
  <1>9. CASE how = "float"
    BY <1>9, SmallTables, TableDomains, InRange DEF Legal, Fits
  <1>10. CASE how = "linkage"
    BY <1>10, SmallTables, TableDomains, InRange DEF Legal, Fits
  <1> QED BY <1>1, <1>2, <1>3, <1>4, <1>5, <1>6, <1>7, <1>8, <1>9, <1>10 DEF SameHows

LEMMA TaggedFits ==
    ASSUME NEW tags, NEW F, NEW r, InTable(tags, r.tag), Plain(F[r.tag]), HasFields(r, F[r.tag], {"tag"})
    PROVE  TaggedLegal(tags, F, r)
  <1> DEFINE fields == F[r.tag]
             n == Len(fields)
             record == [tag |-> r.tag]
  <1>1. n \in Nat /\ DOMAIN fields = 1..n /\ \A i \in 1..n : fields[i][2] \in SameHows
    BY DEF Plain, ListOK
  <1>2. DOMAIN record = {"tag"} /\ record.tag = r.tag
    OBVIOUS
  <1>3. Names(fields, n) = {fields[i][1] : i \in DOMAIN fields}
    BY <1>1, Zenon DEF Names
  <1>4. r = [x \in {"tag"} \cup {fields[i][1] : i \in DOMAIN fields} |-> r[x]]
    BY Zenon DEF HasFields
  <1>5. \A i \in DOMAIN fields : Fits(fields[i][2], r[fields[i][1]])
    BY Zenon DEF HasFields
  <1> HIDE DEF fields, n, record
  <1>6. \A i \in 1..n : Legal(fields[i][2], r[fields[i][1]])
    BY <1>1, <1>5, FitsLegal
  <1>7. r = [x \in DOMAIN record \cup Names(fields, n) |-> r[x]]
    BY <1>2, <1>3, <1>4, Zenon
  <1>8. \A x \in DOMAIN record : r[x] = record[x]
    BY <1>2
  <1>9. Fills(fields, record, n, r)
    BY <1>6, <1>7, <1>8, FillsRecord
  <1> QED BY <1>9 DEF TaggedLegal, fields, n, record

LEMMA FitsTagged ==
    ASSUME NEW r
    PROVE  /\ HasTag(r, TypeTags, WritesType) => TypeLegal(r)
           /\ HasTag(r, ConstTags, WritesConst) => ConstLegal(r)
           /\ HasTag(r, ValueTags, WritesKind) => KindLegal(r)
           /\ HasTag(r, TermTags, WritesTerm) => TermLegal(r)
           /\ HasTag(r, Opcodes, WritesInst) => InstLegal(r)
  <1>1. ASSUME HasTag(r, TypeTags, WritesType) PROVE TypeLegal(r)
    <2>1. r.tag \in Range(TypeTags) /\ HasFields(r, WritesType(r.tag), {"tag"})
      BY <1>1, Zenon DEF HasTag
    <2>2. InTable(TypeTags, r.tag)
      BY <2>1, SmallTables, TableDomains, InRange
    <2>3. TypeFields[r.tag] = WritesType(r.tag) /\ Plain(TypeFields[r.tag])
      BY <2>2, TypeLists
    <2>4. HasFields(r, TypeFields[r.tag], {"tag"})
      BY <2>1, <2>3
    <2> QED BY <2>2, <2>3, <2>4, TaggedFits DEF TypeLegal
  <1>2. ASSUME HasTag(r, ConstTags, WritesConst) PROVE ConstLegal(r)
    <2>1. r.tag \in Range(ConstTags) /\ HasFields(r, WritesConst(r.tag), {"tag"})
      BY <1>2, Zenon DEF HasTag
    <2>2. InTable(ConstTags, r.tag)
      BY <2>1, SmallTables, TableDomains, InRange
    <2>3. ConstFields[r.tag] = WritesConst(r.tag) /\ Plain(ConstFields[r.tag])
      BY <2>2, ConstLists
    <2>4. HasFields(r, ConstFields[r.tag], {"tag"})
      BY <2>1, <2>3
    <2> QED BY <2>2, <2>3, <2>4, TaggedFits DEF ConstLegal
  <1>3. ASSUME HasTag(r, ValueTags, WritesKind) PROVE KindLegal(r)
    <2>1. r.tag \in Range(ValueTags) /\ HasFields(r, WritesKind(r.tag), {"tag"})
      BY <1>3, Zenon DEF HasTag
    <2>2. InTable(ValueTags, r.tag)
      BY <2>1, SmallTables, TableDomains, InRange
    <2>3. KindFields[r.tag] = WritesKind(r.tag) /\ Plain(KindFields[r.tag])
      BY <2>2, KindLists
    <2>4. HasFields(r, KindFields[r.tag], {"tag"})
      BY <2>1, <2>3
    <2> QED BY <2>2, <2>3, <2>4, TaggedFits DEF KindLegal
  <1>4. ASSUME HasTag(r, TermTags, WritesTerm) PROVE TermLegal(r)
    <2>1. r.tag \in Range(TermTags) /\ HasFields(r, WritesTerm(r.tag), {"tag"})
      BY <1>4, Zenon DEF HasTag
    <2>2. InTable(TermTags, r.tag)
      BY <2>1, SmallTables, TableDomains, InRange
    <2>3. TermFields[r.tag] = WritesTerm(r.tag) /\ Plain(TermFields[r.tag])
      BY <2>2, TermLists
    <2>4. HasFields(r, TermFields[r.tag], {"tag"})
      BY <2>1, <2>3
    <2> QED BY <2>2, <2>3, <2>4, TaggedFits DEF TermLegal
  <1>5. ASSUME HasTag(r, Opcodes, WritesInst) PROVE InstLegal(r)
    <2>1. r.tag \in Range(Opcodes) /\ HasFields(r, WritesInst(r.tag), {"tag"})
      BY <1>5, Zenon DEF HasTag
    <2>2. InTable(Opcodes, r.tag)
      BY <2>1, OpcodeTable, TableDomains, InRange
    <2>3. InstFields[r.tag] = WritesInst(r.tag) /\ Plain(InstFields[r.tag])
      BY <2>2, InstLists
    <2>4. HasFields(r, InstFields[r.tag], {"tag"})
      BY <2>1, <2>3
    <2> QED BY <2>2, <2>3, <2>4, TaggedFits DEF InstLegal
  <1> QED BY <1>1, <1>2, <1>3, <1>4, <1>5


-----------------------------------------------------------------------------
(* The shortest entries                                                    *)

\* The first field takes two bytes or more.
Wide(f) == Len(f) >= 1 /\ f[1][2] \in {"u32", "blob"}
LEMMA ConstWide == \A t : InTable(ConstTags, t) => Wide(ReadsConst(t))
  <1>1. \A t : InTable(ConstTags, t) => t \in {"Int", "Float", "Null", "String", "Aggregate"}
    BY DEF InTable, ConstTags
  <1>2. Wide(ReadsConst("Int"))
    BY DEF ReadsConst, Wide
  <1>3. Wide(ReadsConst("Float"))
    BY DEF ReadsConst, Wide
  <1>4. Wide(ReadsConst("Null"))
    BY DEF ReadsConst, Wide
  <1>5. Wide(ReadsConst("String"))
    BY DEF ReadsConst, Wide
  <1>6. Wide(ReadsConst("Aggregate"))
    BY DEF ReadsConst, Wide
  <1> QED BY <1>1, <1>2, <1>3, <1>4, <1>5, <1>6

LEMMA InstWide == \A t : InTable(Opcodes, t) => Wide(ReadsInst(t))
  <1>1. \A t : InTable(Opcodes, t) => t \in {"const", "add", "sub", "mul", "div", "rem", "and", "or", "xor", "shl", "shr", "eq", "ne", "lt", "le", "gt", "ge", "alloca", "load", "store", "ptr_offset", "ext", "trunc", "int_to_float", "float_to_int", "ptr_cast", "call", "construct", "extract", "insert"}
    BY DEF InTable, Opcodes
  <1>2. Wide(ReadsInst("const"))
    BY DEF ReadsInst, Wide
  <1>3. \A t \in {"add", "sub", "mul", "div", "rem", "and", "or", "xor", "shl", "shr", "eq", "ne", "lt", "le", "gt", "ge"} : Wide(ReadsInst(t))
    <2> TAKE t \in {"add", "sub", "mul", "div", "rem", "and", "or", "xor", "shl", "shr", "eq", "ne", "lt", "le", "gt", "ge"}
    <2>1. Len(ReadsInst(t)) = 2 /\ ReadsInst(t)[1] = <<"lhs", "u32">>
      BY DEF ReadsInst
    <2> QED BY <2>1 DEF Wide
  <1>4. Wide(ReadsInst("alloca"))
    BY DEF ReadsInst, Wide
  <1>5. Wide(ReadsInst("load"))
    BY DEF ReadsInst, Wide
  <1>6. Wide(ReadsInst("store"))
    BY DEF ReadsInst, Wide
  <1>7. Wide(ReadsInst("ptr_offset"))
    BY DEF ReadsInst, Wide
  <1>8. \A t \in {"ext", "trunc", "int_to_float", "float_to_int", "ptr_cast"} : Wide(ReadsInst(t))
    <2> TAKE t \in {"ext", "trunc", "int_to_float", "float_to_int", "ptr_cast"}
    <2>1. Len(ReadsInst(t)) = 2 /\ ReadsInst(t)[1] = <<"to", "u32">>
      BY DEF ReadsInst
    <2> QED BY <2>1 DEF Wide
  <1>9. Wide(ReadsInst("call"))
    BY DEF ReadsInst, Wide
  <1>10. Wide(ReadsInst("construct"))
    BY DEF ReadsInst, Wide
  <1>11. Wide(ReadsInst("extract"))
    BY DEF ReadsInst, Wide
  <1>12. Wide(ReadsInst("insert"))
    BY DEF ReadsInst, Wide
  <1> QED BY <1>1, <1>2, <1>3, <1>4, <1>5, <1>6, <1>7, <1>8, <1>9, <1>10, <1>11, <1>12

LEMMA WideField ==
    ASSUME FileOK, NEW how \in {"u32", "blob"}, NEW v, Legal(how, v)
    PROVE  HowBytes(how, v) \in Seq(Byte) /\ Len(HowBytes(how, v)) >= 2
  <1>1. CASE how = "u32"
    <2>1. FitsIn(v, W32) /\ HowBytes(how, v) = Number(v, W32)
      BY <1>1, FieldForms DEF Legal
    <2> QED BY <2>1, Sizes, NumberTyped
  <1>2. CASE how = "blob"
    <2>1. BlobLegal(v) /\ HowBytes(how, v) = List(v, U8)
      BY <1>2, FieldForms DEF Legal
    <2>2. Len(v) \in Nat
      BY <2>1 DEF BlobLegal, EntriesLegal
    <2> QED BY <2>1, <2>2, Sizes, ListsTyped
  <1> QED BY <1>1, <1>2

\* A sequence is no shorter than its first element.
LEMMA FlattenFirst ==
    ASSUME NEW S, NEW s \in Seq(Seq(S)), Len(s) >= 1
    PROVE  Len(FlattenSeq(s)) \in Nat /\ s[1] \in Seq(S) /\ Len(FlattenSeq(s)) >= Len(s[1])
  <1>1. 1 \in 0..Len(s) /\ 1 \in 1..Len(s) /\ s[1] \in Seq(S) /\ Len(s) \in Nat
    OBVIOUS
  <1>2. FlattenSeq(Prefix(s, 1)) = s[1]
    <2>1. FlattenSeq(Prefix(s, 1)) = FlattenSeq(Prefix(s, 1 - 1)) \o s[1]
      BY <1>1, FlattenPrefix
    <2>2. Prefix(s, 1 - 1) = <<>>
      BY PrefixEnds
    <2>3. FlattenSeq(Prefix(s, 1 - 1)) = <<>>
      BY <2>2, FlattenNone
    <2> DEFINE first == s[1]
    <2>4. <<>> \o first = first
      BY <1>1
    <2> HIDE DEF first
    <2> QED BY <2>1, <2>3, <2>4 DEF first
  <1>3. \A i \in 1..Len(s) : Len(s[i]) >= 0
    <2> TAKE i \in 1..Len(s)
    <2> DEFINE b == s[i]
    <2>1. b \in Seq(S)
      OBVIOUS
    <2> HIDE DEF b
    <2>2. Len(b) >= 0
      BY <2>1
    <2> QED BY <2>2 DEF b
  <1>4. PICK R \in Seq(S) : FlattenSeq(s) = FlattenSeq(Prefix(s, 1)) \o R
    <2>1. 0 \in Nat
      OBVIOUS
    <2> DEFINE b(k) == FlattenSeq(Prefix(s, k))
               l(k, z) == (Len(s) - k) * z
    <2> HIDE DEF b, l
    <2>2. \A k \in 0..Len(s) : \E R \in Seq(S) : FlattenSeq(s) = b(k) \o R /\ Len(R) >= l(k, 0)
      BY <1>3, <2>1, FlattenRest DEF b, l
    <2> QED BY <1>1, <2>2, Zenon DEF b
  <1> DEFINE first == s[1]
  <1>5. FlattenSeq(s) = first \o R /\ first \in Seq(S)
    BY <1>1, <1>2, <1>4
  <1> HIDE DEF first
  <1>6. Len(first \o R) = Len(first) + Len(R) /\ Len(first) \in Nat /\ Len(R) \in Nat
    BY <1>5
  <1> QED BY <1>1, <1>5, <1>6 DEF first

LEMMA TaggedLeast ==
    ASSUME FileOK, NEW tags, NEW F, TaggedOK(tags, F), NEW r, TaggedLegal(tags, F, r), Wide(F[r.tag])
    PROVE  Len(TaggedBytesOf(tags, F, r)) >= 3
  <1> DEFINE fields == F[r.tag]
             n == Len(fields)
             B == Bs(fields, r, n)
  <1>1. ListOK(fields) /\ Fills(fields, [tag |-> r.tag], n, r)
    BY DEF TaggedOK, TaggedLegal
  <1>2. FieldsOK(fields, [tag |-> r.tag]) /\ n \in Nat /\ n >= 1
    BY <1>1, ListFields DEF ListOK, Wide
  <1>3. B \in Seq(Seq(Byte)) /\ FlattenSeq(B) \in Seq(Byte)
    BY <1>1, <1>2, BsTyped
  <1>4. Len(B) = n /\ B[1] = HowBytes(fields[1][2], r[fields[1][1]])
    <2> HIDE DEF fields, n
    <2>1. B = [i \in 1..n |-> FieldBytesOf(fields, r, i)]
      BY DEF Bs
    <2> HIDE DEF B
    <2>2. Len(B) = n /\ B[1] = FieldBytesOf(fields, r, 1)
      BY <1>2, <1>3, <2>1
    <2> QED BY <2>2 DEF FieldBytesOf
  <1>5. Legal(fields[1][2], r[fields[1][1]])
    BY <1>1, <1>2 DEF Fills
  <1>6. Len(B[1]) >= 2
    BY <1>4, <1>5, WideField DEF Wide
  <1>7. Len(FlattenSeq(B)) >= 2
    <2> HIDE DEF B, fields, n
    <2>1. Len(FlattenSeq(B)) \in Nat /\ B[1] \in Seq(Byte) /\ Len(FlattenSeq(B)) >= Len(B[1])
      BY <1>2, <1>3, <1>4, FlattenFirst
    <2> QED BY <1>6, <2>1
  <1>8. /\ U8(CodeOf(tags, r.tag)) \in Seq(Byte) /\ Len(U8(CodeOf(tags, r.tag))) = 1
        /\ RecordBytes(fields, r) = FlattenSeq(B)
        /\ TaggedBytesOf(tags, F, r) = U8(CodeOf(tags, r.tag)) \o RecordBytes(fields, r)
    BY TaggedTyped DEF RecordBytes, TaggedBytesOf
  <1> HIDE DEF B, fields, n
  <1>9. Len(TaggedBytesOf(tags, F, r)) = 1 + Len(FlattenSeq(B))
    <2> DEFINE t == U8(CodeOf(tags, r.tag))
               b == FlattenSeq(B)
    <2>1. t \in Seq(Byte) /\ b \in Seq(Byte) /\ Len(t) = 1 /\ TaggedBytesOf(tags, F, r) = t \o b
      BY <1>3, <1>8, Zenon
    <2> HIDE DEF t, b
    <2>2. Len(TaggedBytesOf(tags, F, r)) = 1 + Len(b)
      BY <2>1, ConcatTyped
    <2> QED BY <2>2 DEF b
  <1> QED BY <1>3, <1>7, <1>9

LEMMA ConstLeast ==
    ASSUME FileOK, NEW c, ConstLegal(c)
    PROVE  ConstWritten(c) \in Seq(Byte) /\ Len(ConstWritten(c)) >= 3
  <1>1. InTable(ConstTags, c.tag)
    BY DEF ConstLegal, TaggedLegal
  <1>2. Wide(ConstFields[c.tag])
    BY <1>1, ConstWide, ConstLists
  <1> QED BY <1>2, ConstTable, ConstTyped, TaggedLeast DEF ConstLegal

LEMMA InstLeast ==
    ASSUME FileOK, NEW k, InstLegal(k)
    PROVE  InstWritten(k) \in Seq(Byte) /\ Len(InstWritten(k)) >= 3
  <1>1. InTable(Opcodes, k.tag)
    BY DEF InstLegal, TaggedLegal
  <1>2. Wide(InstFields[k.tag])
    BY <1>1, InstWide, InstLists
  <1> QED BY <1>2, InstTable, InstTyped, TaggedLeast DEF InstLegal
=============================================================================
