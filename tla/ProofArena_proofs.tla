-------------------------- MODULE ProofArena_proofs --------------------------
(***************************************************************************)
(* The arena of positions of the proof driver, for every board, command,   *)
(* ordering and budget: every game in it is honest, its history exact, no  *)
(* expansion changes one, the accumulators match and their cache stays     *)
(* within its bound, and the paths that share a node agree on all that     *)
(* follows.                                                                *)
(***************************************************************************)
EXTENDS ProofArena, GameHistory_proofs, SequenceTheorems

-----------------------------------------------------------------------------
\* The recency list.

\* A list of nodes without repetitions.
Listing(s) == s \in Seq(Nat) /\ IsInjective(s)

LEMMA WithoutIs ==
  ASSUME NEW s, Listing(s), NEW n
  PROVE  /\ Listing(Without(s, n)) /\ ToSet(Without(s, n)) = ToSet(s) \ {n}
         /\ Len(Without(s, n)) = IF n \in ToSet(s) THEN Len(s) - 1 ELSE Len(s)
<1>1. s \in Seq(Nat) /\ IsInjective(s) /\ Len(s) \in Nat /\ DOMAIN s = 1..Len(s)
  BY DEF Listing
<1>2. CASE n \notin ToSet(s)
  BY <1>1, <1>2 DEF Without
<1>3. CASE n \in ToSet(s)
  <2> DEFINE i == CHOOSE k \in DOMAIN s : s[k] = n
             w == SubSeq(s, 1, i - 1) \o SubSeq(s, i + 1, Len(s))
  <2>1. i \in 1..Len(s) /\ s[i] = n
    BY <1>1, <1>3 DEF ToSet
  <2>2. Without(s, n) = w
    BY <1>3 DEF Without, RemoveAt
  <2> HIDE DEF i
  <2>0. i \in Int /\ Len(s) \in Int /\ 1 <= i /\ i <= Len(s)
    BY <1>1, <2>1
  <2>3. /\ SubSeq(s, 1, i - 1) \in Seq(Nat) /\ Len(SubSeq(s, 1, i - 1)) = i - 1
        /\ \A j \in 1..(i - 1) : SubSeq(s, 1, i - 1)[j] = s[1 + j - 1]
    <3>1. 1 \in Int /\ i - 1 \in Int /\ (\A j \in 1..(i - 1) : s[j] \in Nat)
          /\ (i - 1) - 1 + 1 = i - 1 /\ (IF 1 <= i - 1 THEN (i - 1) - 1 + 1 ELSE 0) = i - 1
      BY <1>1, <2>1
    <3> QED BY <3>1, SubSeqProperties
  <2>4. /\ SubSeq(s, i + 1, Len(s)) \in Seq(Nat) /\ Len(SubSeq(s, i + 1, Len(s))) = Len(s) - i
        /\ \A j \in 1..(Len(s) - i) : SubSeq(s, i + 1, Len(s))[j] = s[(i + 1) + j - 1]
    <3> DEFINE p == i + 1
               q == Len(s)
    <3>1. p \in Int /\ q \in Int
      BY <2>0
    <3>2. \A j \in p..q : s[j] \in Nat
      BY <1>1, <2>0
    <3>3. q - p + 1 = q - i
      BY <2>0
    <3>4. (IF p <= q THEN q - p + 1 ELSE 0) = q - i
      BY <2>0
    <3> HIDE DEF p, q
    <3>5. /\ SubSeq(s, p, q) \in Seq(Nat)
          /\ Len(SubSeq(s, p, q)) = IF p <= q THEN q - p + 1 ELSE 0
          /\ \A j \in 1..(q - p + 1) : SubSeq(s, p, q)[j] = s[p + j - 1]
      BY <3>1, <3>2, SubSeqProperties
    <3>6. /\ SubSeq(s, p, q) \in Seq(Nat) /\ Len(SubSeq(s, p, q)) = q - i
          /\ \A j \in 1..(q - i) : SubSeq(s, p, q)[j] = s[p + j - 1]
      BY <3>3, <3>4, <3>5
    <3> QED BY <3>6 DEF p, q
  <2> DEFINE a == SubSeq(s, 1, i - 1)
             b == SubSeq(s, i + 1, Len(s))
  <2>a. a \in Seq(Nat) /\ Len(a) = i - 1 /\ \A j \in 1..(i - 1) : a[j] = s[1 + j - 1]
    BY <2>3
  <2>b. b \in Seq(Nat) /\ Len(b) = Len(s) - i /\ \A j \in 1..(Len(s) - i) : b[j] = s[(i + 1) + j - 1]
    BY <2>4
  <2>c. w = a \o b
    OBVIOUS
  <2> HIDE DEF a, b, w
  <2>d. /\ w \in Seq(Nat) /\ Len(w) = Len(a) + Len(b)
        /\ \A j \in 1..(Len(a) + Len(b)) : w[j] = IF j <= Len(a) THEN a[j] ELSE b[j - Len(a)]
    <3> DEFINE S == Nat
    <3>1. a \in Seq(S) /\ b \in Seq(S)
      BY <2>a, <2>b
    <3> HIDE DEF S
    <3>2. /\ a \o b \in Seq(S) /\ Len(a \o b) = Len(a) + Len(b)
          /\ \A j \in 1..(Len(a) + Len(b)) : (a \o b)[j] = IF j <= Len(a) THEN a[j] ELSE b[j - Len(a)]
      BY <3>1, ConcatProperties
    <3> QED BY <2>c, <3>2 DEF S
  <2>e. Len(a) + Len(b) = Len(s) - 1
    BY <2>0, <2>a, <2>b
  <2>f. \A j \in 1..(Len(s) - 1) : w[j] = IF j <= i - 1 THEN a[j] ELSE b[j - (i - 1)]
    BY <2>a, <2>d, <2>e
  <2>5. /\ w \in Seq(Nat) /\ Len(w) = Len(s) - 1
        /\ \A j \in 1..(Len(s) - 1) : w[j] = IF j < i THEN s[j] ELSE s[j + 1]
    <3>4. ASSUME NEW j \in 1..(Len(s) - 1) PROVE w[j] = IF j < i THEN s[j] ELSE s[j + 1]
      <4>0. j \in Int /\ 1 <= j /\ j <= Len(s) - 1
        BY <2>0
      <4>1. CASE j < i
        <5>1. w[j] = a[j]
          BY <2>f, <2>0, <4>0, <4>1
        <5>2. j \in 1..(i - 1) /\ 1 + j - 1 = j
          BY <2>0, <4>0, <4>1
        <5>3. a[j] = s[1 + j - 1]
          BY <2>a, <5>2
        <5> QED BY <4>1, <5>1, <5>2, <5>3
      <4>2. CASE ~(j < i)
        <5>1. w[j] = b[j - (i - 1)]
          BY <2>f, <2>0, <4>0, <4>2
        <5>2. j - (i - 1) \in 1..(Len(s) - i) /\ (i + 1) + (j - (i - 1)) - 1 = j + 1
          BY <2>0, <4>0, <4>2
        <5>3. b[j - (i - 1)] = s[(i + 1) + (j - (i - 1)) - 1]
          BY <2>b, <5>2
        <5> QED BY <4>2, <5>1, <5>2, <5>3
      <4> QED BY <4>1, <4>2
    <3> QED BY <2>d, <2>e, <3>4
  <2>8. DOMAIN w = 1..(Len(s) - 1)
    BY <2>5
  <2>9. ASSUME NEW j \in 1..(Len(s) - 1)
        PROVE  LET J == IF j < i THEN j ELSE j + 1 IN J \in 1..Len(s) /\ J # i /\ w[j] = s[J]
    <3>1. j \in Int /\ 1 <= j /\ j <= Len(s) - 1
      BY <2>0
    <3>4. w[j] = IF j < i THEN s[j] ELSE s[j + 1]
      BY <2>5
    <3>2. CASE j < i
      <4>1. j \in 1..Len(s) /\ j # i
        BY <2>0, <3>1, <3>2
      <4> QED BY <3>2, <3>4, <4>1
    <3>3. CASE ~(j < i)
      <4>1. j + 1 \in 1..Len(s) /\ j + 1 # i
        BY <2>0, <3>1, <3>3
      <4> QED BY <3>3, <3>4, <4>1
    <3> QED BY <3>2, <3>3
  <2>6. IsInjective(w)
    <3> SUFFICES ASSUME NEW j \in 1..(Len(s) - 1), NEW k \in 1..(Len(s) - 1), w[j] = w[k]
                 PROVE  j = k
      BY <2>8 DEF IsInjective
    <3> DEFINE J == IF j < i THEN j ELSE j + 1
               K == IF k < i THEN k ELSE k + 1
    <3>1. J \in 1..Len(s) /\ K \in 1..Len(s) /\ w[j] = s[J] /\ w[k] = s[K]
      BY <2>9
    <3>2. J = K
      <4> HIDE DEF J, K
      <4> QED BY <1>1, <3>1 DEF IsInjective
    <3> QED BY <1>1, <2>1, <3>2
  <2>7. ToSet(w) = ToSet(s) \ {n}
    <3>1. DOMAIN w = 1..(Len(s) - 1)
      BY <2>5
    <3>2. ASSUME NEW j \in 1..(Len(s) - 1) PROVE w[j] \in ToSet(s) /\ w[j] # n
      <4> DEFINE J == IF j < i THEN j ELSE j + 1
      <4>1. J \in 1..Len(s) /\ w[j] = s[J] /\ J # i
        BY <2>9
      <4> HIDE DEF J
      <4> QED BY <1>1, <2>1, <4>1 DEF ToSet, IsInjective
    <3>3. ASSUME NEW k \in 1..Len(s), s[k] # n PROVE \E j \in 1..(Len(s) - 1) : w[j] = s[k]
      <4>1. k # i
        BY <2>1, <3>3
      <4>2. CASE k < i
        <5>1. k \in 1..(Len(s) - 1)
          BY <2>0, <4>2
        <5>2. w[k] = s[k]
          BY <2>5, <4>2, <5>1, Zenon
        <5> QED BY <5>1, <5>2
      <4>3. CASE k > i
        <5>1. k - 1 \in 1..(Len(s) - 1) /\ ~(k - 1 < i) /\ (k - 1) + 1 = k
          BY <2>0, <4>3
        <5>2. w[k - 1] = s[k]
          BY <2>5, <5>1, Zenon
        <5> QED BY <5>1, <5>2
      <4> QED BY <1>1, <2>1, <4>1, <4>2, <4>3
    <3>4. ToSet(w) = {w[j] : j \in 1..(Len(s) - 1)} /\ ToSet(s) = {s[k] : k \in 1..Len(s)}
      BY <1>1, <3>1 DEF ToSet
    <3>5. ASSUME NEW x \in ToSet(s) \ {n} PROVE x \in ToSet(w)
      BY <3>3, <3>4
    <3>6. ASSUME NEW x \in ToSet(w) PROVE x \in ToSet(s) \ {n}
      BY <3>2, <3>4
    <3> QED BY <3>5, <3>6
  <2> QED BY <1>3, <2>2, <2>5, <2>6, <2>7 DEF Listing
<1> QED BY <1>2, <1>3

LEMMA MovedLastIs ==
  ASSUME NEW s, Listing(s), NEW n \in Nat
  PROVE  /\ Listing(MovedLast(s, n)) /\ ToSet(MovedLast(s, n)) = ToSet(s) \cup {n}
         /\ Len(MovedLast(s, n)) = IF n \in ToSet(s) THEN Len(s) ELSE Len(s) + 1
<1> DEFINE w == Without(s, n)
           a == Append(w, n)
<1>1. Listing(w) /\ ToSet(w) = ToSet(s) \ {n} /\ Len(w) = IF n \in ToSet(s) THEN Len(s) - 1 ELSE Len(s)
  BY WithoutIs
<1>2. MovedLast(s, n) = a
  BY DEF MovedLast
<1> HIDE DEF w
<1>3. w \in Seq(Nat) /\ IsInjective(w) /\ Len(w) \in Nat /\ DOMAIN w = 1..Len(w) /\ Len(s) \in Nat
  BY <1>1 DEF Listing
<1>4. /\ a \in Seq(Nat) /\ Len(a) = Len(w) + 1 /\ a[Len(w) + 1] = n
      /\ \A i \in 1..Len(w) : a[i] = w[i]
  BY <1>3
<1> HIDE DEF a
<1>5. DOMAIN a = 1..(Len(w) + 1)
  BY <1>4
<1>6. \A i \in 1..Len(w) : w[i] # n
  BY <1>1, <1>3 DEF ToSet
<1>7. IsInjective(a)
  <2> SUFFICES ASSUME NEW i \in 1..(Len(w) + 1), NEW j \in 1..(Len(w) + 1), a[i] = a[j] PROVE i = j
    BY <1>5 DEF IsInjective
  <2>1. CASE i \in 1..Len(w) /\ j \in 1..Len(w)
    BY <1>3, <1>4, <2>1 DEF IsInjective
  <2>2. CASE i = Len(w) + 1
    BY <1>3, <1>4, <1>6, <2>2
  <2>3. CASE j = Len(w) + 1
    BY <1>3, <1>4, <1>6, <2>3
  <2> QED BY <1>3, <2>1, <2>2, <2>3
<1>8. ToSet(a) = ToSet(w) \cup {n}
  <2>1. ASSUME NEW i \in 1..(Len(w) + 1) PROVE a[i] \in ToSet(w) \cup {n}
    <3>1. i \in 1..Len(w) \/ i = Len(w) + 1
      BY <1>3
    <3>2. CASE i \in 1..Len(w)
      <4>1. a[i] = w[i]
        BY <1>4, <3>2, Zenon
      <4> QED BY <1>3, <3>2, <4>1 DEF ToSet
    <3>3. CASE i = Len(w) + 1
      BY <1>4, <3>3
    <3> QED BY <3>1, <3>2, <3>3
  <2>2. ASSUME NEW i \in 1..Len(w) PROVE w[i] \in ToSet(a)
    <3>1. i \in DOMAIN a
      BY <1>3, <1>5
    <3>2. a[i] = w[i]
      BY <1>4
    <3> QED BY <3>1, <3>2 DEF ToSet
  <2>3. n \in ToSet(a)
    <3>1. Len(w) + 1 \in DOMAIN a
      BY <1>3, <1>5
    <3> QED BY <1>4, <3>1 DEF ToSet
  <2> QED BY <1>3, <1>5, <2>1, <2>2, <2>3 DEF ToSet
<1> QED BY <1>1, <1>2, <1>3, <1>4, <1>7, <1>8 DEF Listing

LEMMA TailIs ==
  ASSUME NEW s, Listing(s), Len(s) >= 1
  PROVE  Listing(Tail(s)) /\ ToSet(Tail(s)) \subseteq ToSet(s) /\ Len(Tail(s)) = Len(s) - 1
<1>1. s \in Seq(Nat) /\ IsInjective(s) /\ Len(s) \in Nat /\ DOMAIN s = 1..Len(s)
  BY DEF Listing
<1> DEFINE t == Tail(s)
<1>2. t \in Seq(Nat) /\ Len(t) = Len(s) - 1 /\ \A i \in 1..(Len(s) - 1) : t[i] = s[i + 1]
  BY <1>1
<1>3. DOMAIN t = 1..(Len(s) - 1)
  BY <1>2
<1> HIDE DEF t
<1>4. \A i \in 1..(Len(s) - 1) : i + 1 \in 1..Len(s)
  BY <1>1
<1>5. IsInjective(t)
  <2> SUFFICES ASSUME NEW i \in 1..(Len(s) - 1), NEW j \in 1..(Len(s) - 1), t[i] = t[j] PROVE i = j
    BY <1>3 DEF IsInjective
  <2>1. s[i + 1] = s[j + 1]
    BY <1>2
  <2>2. i + 1 = j + 1
    BY <1>1, <1>4, <2>1 DEF IsInjective
  <2> QED BY <2>2
<1>6. ToSet(t) \subseteq ToSet(s)
  BY <1>1, <1>2, <1>3, <1>4 DEF ToSet
<1> QED BY <1>2, <1>5, <1>6 DEF Listing, t

LEMMA ListedCount ==
  ASSUME NEW s, Listing(s)
  PROVE  Cardinality(ToSet(s)) = Len(s)
<1>1. s \in Seq(Nat) /\ IsInjective(s) /\ Len(s) \in Nat /\ DOMAIN s = 1..Len(s)
  BY DEF Listing
<1>2. s \in [1..Len(s) -> ToSet(s)]
  BY <1>1 DEF ToSet
<1>3. s \in Injection(1..Len(s), ToSet(s))
  BY <1>1, <1>2 DEF Injection
<1>4. s \in Surjection(1..Len(s), ToSet(s))
  BY <1>1, <1>2 DEF Surjection, ToSet
<1>5. ExistsBijection(1..Len(s), ToSet(s))
  BY <1>3, <1>4 DEF ExistsBijection, Bijection
<1> QED BY <1>1, <1>5, FS_CountingElements

\* The list and the map hold the same nodes.
Bounded(c, l) == Listing(l) /\ DOMAIN c = ToSet(l) /\ Len(l) <= Capacity

\* cache_accumulator keeps them so, and what they hold but for the node it stores.
LEMMA StoredIs ==
  ASSUME NEW c, NEW l, Bounded(c, l), NEW n \in Nat, NEW acc
  PROVE  LET s == Stored(c, l, n, acc)
         IN  /\ Bounded(s.cache, s.lru)
             /\ n \in DOMAIN s.cache /\ DOMAIN s.cache \subseteq DOMAIN c \cup {n}
             /\ \A k \in DOMAIN s.cache : s.cache[k] = IF k = n THEN acc ELSE c[k]
<1> DEFINE rest == IF n \notin DOMAIN c /\ Cardinality(DOMAIN c) >= Capacity THEN Tail(l) ELSE l
           s == Stored(c, l, n, acc)
<1>1. Listing(l) /\ DOMAIN c = ToSet(l) /\ Len(l) <= Capacity /\ Len(l) \in Nat
  BY DEF Bounded, Listing
<1>2. Cardinality(DOMAIN c) = Len(l)
  BY <1>1, ListedCount
<1>3. Capacity \in Nat /\ Capacity >= 1
  BY CapacityAssumption
<1>4. /\ Listing(rest) /\ ToSet(rest) \subseteq ToSet(l)
      /\ n \in ToSet(rest) => Len(rest) <= Capacity
      /\ n \notin ToSet(rest) => Len(rest) + 1 <= Capacity
  <2>1. CASE n \notin DOMAIN c /\ Cardinality(DOMAIN c) >= Capacity
    <3>1. rest = Tail(l) /\ Len(l) >= 1
      BY <1>2, <1>3, <2>1
    <3> HIDE DEF rest
    <3>2. Listing(rest) /\ ToSet(rest) \subseteq ToSet(l) /\ Len(rest) = Len(l) - 1
      BY <1>1, <3>1, TailIs
    <3> QED BY <1>1, <1>3, <3>2
  <2>2. CASE n \in DOMAIN c
    <3>1. rest = l
      BY <2>2
    <3> QED BY <1>1, <2>2, <3>1
  <2>3. CASE n \notin DOMAIN c /\ ~(Cardinality(DOMAIN c) >= Capacity)
    <3>1. rest = l /\ Len(l) < Capacity
      BY <1>1, <1>2, <1>3, <2>3
    <3> HIDE DEF rest
    <3>2. Len(rest) + 1 <= Capacity
      BY <1>1, <1>3, <3>1
    <3> QED BY <1>1, <3>1, <3>2
  <2> QED BY <2>1, <2>2, <2>3
<1>5. /\ s.lru = MovedLast(rest, n)
      /\ s.cache = [k \in ToSet(rest) \cup {n} |-> IF k = n THEN acc ELSE c[k]]
  BY DEF Stored
<1> HIDE DEF rest, s
<1>6. /\ Listing(s.lru) /\ ToSet(s.lru) = ToSet(rest) \cup {n}
      /\ Len(s.lru) = IF n \in ToSet(rest) THEN Len(rest) ELSE Len(rest) + 1
  BY <1>4, <1>5, MovedLastIs
<1>7. Bounded(s.cache, s.lru)
  BY <1>4, <1>5, <1>6 DEF Bounded
<1>8. /\ n \in DOMAIN s.cache /\ DOMAIN s.cache \subseteq DOMAIN c \cup {n}
      /\ \A k \in DOMAIN s.cache : s.cache[k] = IF k = n THEN acc ELSE c[k]
  BY <1>1, <1>4, <1>5
<1> QED BY <1>7, <1>8 DEF s

-----------------------------------------------------------------------------
\* The tree.

Shape(x) ==
  x = [game |-> x.game, ply |-> x.ply, parent |-> x.parent, move |-> x.move,
       listed |-> x.listed, todo |-> x.todo, edges |-> x.edges]

Numbered(t) == Cardinality(DOMAIN t) \in Nat /\ DOMAIN t = 0..(Cardinality(DOMAIN t) - 1)

\* An edge leads to the game its move makes, or to one of the same context.
EdgeTrue(t, n, e) ==
  /\ e = [move |-> e.move, to |-> e.to] /\ e.to \in DOMAIN t /\ e.move \in Legal(t[n].game)
  /\ \/ t[e.to].game = Make(t[n].game, e.move)
     \/ SameContext(t[e.to].game, Make(t[n].game, e.move))

\* A node but the root was made by its move from its parent.
Descends(t, n) ==
  n # 0 => /\ t[n].parent \in DOMAIN t /\ t[n].move \in Legal(t[t[n].parent].game)
           /\ t[n].game = Make(t[t[n].parent].game, t[n].move)

NodeTrue(t, n) ==
  /\ Shape(t[n]) /\ Honest(t[n].game) /\ t[n].ply \in Nat /\ t[n].listed \in BOOLEAN
  /\ t[n].todo \subseteq Legal(t[n].game)
  /\ Descends(t, n)
  /\ \A e \in t[n].edges : EdgeTrue(t, n, e)

Arena(t) == Numbered(t) /\ \A n \in DOMAIN t : NodeTrue(t, n)

\* The nodes of t are in u, and what a node is made with stays.
Kept(t, u) ==
  /\ DOMAIN t \subseteq DOMAIN u
  /\ \A n \in DOMAIN t : u[n].game = t[n].game /\ u[n].parent = t[n].parent /\ u[n].move = t[n].move

LEMMA KeptNode ==
  ASSUME NEW t, NEW u, Kept(t, u), NEW n \in DOMAIN t, Descends(t, n)
  PROVE  /\ Descends(u, n)
         /\ \A e : EdgeTrue(t, n, e) => EdgeTrue(u, n, e)
<1>1. Descends(u, n)
  BY DEF Descends, Kept
<1>2. ASSUME NEW e, EdgeTrue(t, n, e) PROVE EdgeTrue(u, n, e)
  <2>1. e.to \in DOMAIN u /\ u[e.to].game = t[e.to].game /\ u[n].game = t[n].game
    BY <1>2 DEF Kept, EdgeTrue
  <2> QED BY <1>2, <2>1 DEF EdgeTrue
<1> QED BY <1>1, <1>2

LEMMA ShapeOf ==
  ASSUME NEW A, NEW B, NEW C, NEW D, NEW F, NEW G, NEW H,
         NEW y \in [game : A, ply : B, parent : C, move : D, listed : F, todo : G, edges : H]
  PROVE  Shape(y)
BY DEF Shape

Relisted(x, b, T, g) == [x EXCEPT !.listed = b, !.todo = T, !.game = g]
Relinked(x, T, E) == [x EXCEPT !.todo = T, !.edges = E]

LEMMA RelistedIs ==
  ASSUME NEW x, Shape(x), NEW b, NEW T, NEW g
  PROVE  LET y == Relisted(x, b, T, g)
         IN  /\ Shape(y) /\ y.game = g /\ y.ply = x.ply /\ y.parent = x.parent
             /\ y.move = x.move /\ y.listed = b /\ y.todo = T /\ y.edges = x.edges
<1> DEFINE y == [x EXCEPT !.listed = b, !.todo = T, !.game = g]
<1> PICK A, B, C, D, F, G, H :
      /\ A = {x.game, g} /\ B = {x.ply} /\ C = {x.parent} /\ D = {x.move} /\ F = {x.listed, b}
      /\ G = {x.todo, T} /\ H = {x.edges}
  OBVIOUS
<1>1. x \in [game : A, ply : B, parent : C, move : D, listed : F, todo : G, edges : H]
  BY DEF Shape
<1>2. g \in A /\ b \in F /\ T \in G
  OBVIOUS
<1>3. y \in [game : A, ply : B, parent : C, move : D, listed : F, todo : G, edges : H]
  BY <1>1, <1>2
<1>4. /\ y.game = g /\ y.ply = x.ply /\ y.parent = x.parent
      /\ y.move = x.move /\ y.listed = b /\ y.todo = T /\ y.edges = x.edges
  BY <1>1, <1>2
<1>5. Shape(y)
  <2> HIDE DEF y
  <2> QED BY <1>3, ShapeOf
<1> QED BY <1>4, <1>5 DEF Relisted

LEMMA RelinkedIs ==
  ASSUME NEW x, Shape(x), NEW T, NEW E
  PROVE  LET y == Relinked(x, T, E)
         IN  /\ Shape(y) /\ y.game = x.game /\ y.ply = x.ply /\ y.parent = x.parent
             /\ y.move = x.move /\ y.listed = x.listed /\ y.todo = T /\ y.edges = E
<1> DEFINE y == [x EXCEPT !.todo = T, !.edges = E]
<1> PICK A, B, C, D, F, G, H :
      /\ A = {x.game} /\ B = {x.ply} /\ C = {x.parent} /\ D = {x.move} /\ F = {x.listed}
      /\ G = {x.todo, T} /\ H = {x.edges, E}
  OBVIOUS
<1>1. x \in [game : A, ply : B, parent : C, move : D, listed : F, todo : G, edges : H]
  BY DEF Shape
<1>2. E \in H /\ T \in G
  OBVIOUS
<1>3. y \in [game : A, ply : B, parent : C, move : D, listed : F, todo : G, edges : H]
  BY <1>1, <1>2
<1>4. /\ y.game = x.game /\ y.ply = x.ply /\ y.parent = x.parent
      /\ y.move = x.move /\ y.listed = x.listed /\ y.todo = T /\ y.edges = E
  BY <1>1, <1>2
<1>5. Shape(y)
  <2> HIDE DEF y
  <2> QED BY <1>3, ShapeOf
<1> QED BY <1>4, <1>5 DEF Relinked

\* expand_node lists a node's candidates and tries them on its game.
ListTree(t, a, T) ==
  [t EXCEPT ![a].listed = TRUE, ![a].todo = T, ![a].game = Probed(t[a].game)]

LEMMA ListedArena ==
  ASSUME NEW t, Arena(t), NEW a \in DOMAIN t, NEW T \in SUBSET Legal(t[a].game), NEW u, u = ListTree(t, a, T)
  PROVE  Arena(u) /\ Kept(t, u)
<1>1. Numbered(t) /\ \A n \in DOMAIN t : NodeTrue(t, n)
  BY DEF Arena
<1>2. Shape(t[a]) /\ Probed(t[a].game) = t[a].game
  BY <1>1, ProbingIsIntact DEF NodeTrue
<1>8. PICK b : b \in {TRUE}
  OBVIOUS
<1> DEFINE x == t[a]
           y == [x EXCEPT !.listed = b, !.todo = T, !.game = Probed(x.game)]
<1>3. /\ Shape(y) /\ y.game = x.game /\ y.ply = x.ply /\ y.parent = x.parent
      /\ y.move = x.move /\ y.listed = b /\ y.todo = T /\ y.edges = x.edges
  <2>1. y = Relisted(x, b, T, Probed(x.game))
    BY DEF Relisted
  <2>2. Shape(x) /\ Probed(x.game) = x.game
    BY <1>2
  <2> HIDE DEF x, y
  <2>3. y = Relisted(x, b, T, x.game)
    BY <2>1, <2>2
  <2> QED BY <2>2, <2>3, RelistedIs
<1>4. DOMAIN u = DOMAIN t /\ u[a] = y /\ \A k \in DOMAIN t \ {a} : u[k] = t[k]
  <2>1. b = TRUE
    BY <1>8
  <2>2. u = [t EXCEPT ![a].listed = b, ![a].todo = T, ![a].game = Probed(t[a].game)]
    BY <2>1, Zenon DEF ListTree
  <2> QED BY <2>2
<1> HIDE DEF y
<1>5. Kept(t, u)
  BY <1>3, <1>4 DEF Kept
<1>6. ASSUME NEW n \in DOMAIN t PROVE NodeTrue(u, n)
  <2>1. NodeTrue(t, n) /\ Descends(u, n) /\ \A e : EdgeTrue(t, n, e) => EdgeTrue(u, n, e)
    BY <1>1, <1>5, KeptNode DEF NodeTrue
  <2>2. CASE n # a
    <3>1. u[n] = t[n]
      BY <1>4, <2>2
    <3> QED BY <2>1, <3>1 DEF NodeTrue
  <2>3. CASE n = a
    <3>1. u[n] = y /\ Shape(y)
      BY <1>3, <1>4, <2>3
    <3>2. y.game = x.game /\ y.ply = x.ply /\ y.listed = b /\ y.todo = T /\ y.edges = x.edges
      BY <1>3
    <3>3. y.listed \in BOOLEAN
      BY <1>3, <1>8
    <3> QED BY <2>1, <2>3, <3>1, <3>2, <3>3 DEF NodeTrue
  <2> QED BY <2>2, <2>3
<1>7. Numbered(u)
  BY <1>1, <1>4 DEF Numbered
<1> QED BY <1>4, <1>5, <1>6, <1>7 DEF Arena

\* A candidate that is materialised leaves the list for an edge.
LinkTree(t, a, m, n) ==
  [t EXCEPT ![a].todo = @ \ {m}, ![a].edges = @ \cup {[move |-> m, to |-> n]}]

LEMMA LinkedIs ==
  ASSUME NEW t, Arena(t), NEW a \in DOMAIN t, NEW m, NEW n, NEW u, u = LinkTree(t, a, m, n)
  PROVE  /\ DOMAIN u = DOMAIN t /\ Kept(t, u) /\ \A k \in DOMAIN t \ {a} : u[k] = t[k]
         /\ Shape(u[a]) /\ u[a].game = t[a].game /\ u[a].ply = t[a].ply /\ u[a].listed = t[a].listed
         /\ u[a].todo = t[a].todo \ {m} /\ u[a].edges = t[a].edges \cup {[move |-> m, to |-> n]}
<1>1. Shape(t[a])
  BY DEF Arena, NodeTrue
<1> DEFINE x == t[a]
           e == [move |-> m, to |-> n]
           y == [x EXCEPT !.todo = @ \ {m}, !.edges = @ \cup {e}]
           z == Relinked(x, x.todo \ {m}, x.edges \cup {e})
<1>3. /\ Shape(y) /\ y.game = x.game /\ y.ply = x.ply /\ y.parent = x.parent
      /\ y.move = x.move /\ y.listed = x.listed
      /\ y.todo = x.todo \ {m} /\ y.edges = x.edges \cup {e}
  <2>1. y = z
    BY DEF Relinked
  <2>2. /\ Shape(z) /\ z.game = x.game /\ z.ply = x.ply /\ z.parent = x.parent
        /\ z.move = x.move /\ z.listed = x.listed
        /\ z.todo = x.todo \ {m} /\ z.edges = x.edges \cup {e}
    BY <1>1, RelinkedIs
  <2> HIDE DEF y, z
  <2> QED BY <2>1, <2>2
<1>2. DOMAIN u = DOMAIN t /\ u[a] = y /\ \A k \in DOMAIN t \ {a} : u[k] = t[k]
  BY DEF LinkTree
<1> HIDE DEF y, z, e
<1>4. y.game = x.game /\ y.parent = x.parent /\ y.move = x.move
  BY <1>3
<1>5. Kept(t, u)
  BY <1>2, <1>4 DEF Kept
<1> QED BY <1>2, <1>3, <1>5 DEF e

\* What linking leaves true of a tree that holds the node it links to.
LEMMA LinkedArena ==
  ASSUME NEW t, Arena(t), NEW a \in DOMAIN t, NEW m \in t[a].todo, NEW n, NEW u, NEW w,
         u = LinkTree(t, a, m, n),
         Kept(t, w), \A k \in DOMAIN t : w[k] = u[k],
         n \in DOMAIN w,
         \/ w[n].game = Make(t[a].game, m)
         \/ SameContext(w[n].game, Make(t[a].game, m))
  PROVE  \A k \in DOMAIN t : NodeTrue(w, k)
<1> DEFINE e == [move |-> m, to |-> n]
<1>1. \A k \in DOMAIN t : NodeTrue(t, k)
  BY DEF Arena
<1>2. /\ \A k \in DOMAIN t \ {a} : u[k] = t[k]
      /\ Shape(u[a]) /\ u[a].game = t[a].game /\ u[a].ply = t[a].ply /\ u[a].listed = t[a].listed
      /\ u[a].todo = t[a].todo \ {m} /\ u[a].edges = t[a].edges \cup {e}
  BY LinkedIs
<1> SUFFICES ASSUME NEW k \in DOMAIN t PROVE NodeTrue(w, k)
  OBVIOUS
<1>3. /\ NodeTrue(t, k) /\ NodeTrue(t, a) /\ Descends(w, k)
      /\ \A x : EdgeTrue(t, k, x) => EdgeTrue(w, k, x)
  BY <1>1, KeptNode DEF NodeTrue
<1>4. CASE k # a
  <2>1. w[k] = t[k]
    BY <1>2, <1>4
  <2> QED BY <1>3, <2>1 DEF NodeTrue
<1>5. CASE k = a
  <2> DEFINE y == w[a]
  <2>3. /\ Shape(y) /\ y.game = t[a].game /\ y.ply = t[a].ply /\ y.listed = t[a].listed
        /\ y.todo = t[a].todo \ {m} /\ y.edges = t[a].edges \cup {e}
    BY <1>2
  <2>2. EdgeTrue(w, a, e)
    <3>1. e.move = m /\ e.to = n /\ m \in Legal(t[a].game)
      BY <1>3 DEF NodeTrue
    <3> HIDE DEF e
    <3>3. w[a].game = t[a].game
      BY <2>3
    <3>4. e = [move |-> e.move, to |-> e.to]
      BY <3>1 DEF e
    <3> QED BY <3>1, <3>3, <3>4 DEF EdgeTrue
  <2> HIDE DEF y, e
  <2>5. \A x \in y.edges : EdgeTrue(w, a, x)
    BY <1>3, <1>5, <2>2, <2>3 DEF NodeTrue
  <2>6. y.todo \subseteq Legal(t[a].game) /\ Honest(y.game) /\ y.ply \in Nat
    BY <1>3, <2>3 DEF NodeTrue
  <2>7. y.listed \in BOOLEAN
    BY <1>3, <2>3 DEF NodeTrue
  <2> QED BY <1>3, <1>5, <2>3, <2>5, <2>6, <2>7 DEF NodeTrue, y
<1> QED BY <1>4, <1>5

\* intern_node, on a node of the same context.
LEMMA SharedArena ==
  ASSUME NEW t, Arena(t), NEW a \in DOMAIN t, NEW m \in t[a].todo, NEW n \in DOMAIN t, NEW u,
         SameContext(t[n].game, Make(t[a].game, m)),
         u = LinkTree(t, a, m, n)
  PROVE  Arena(u) /\ Kept(t, u)
<1>1. DOMAIN u = DOMAIN t /\ Kept(t, u)
  BY LinkedIs
<1>2. n \in DOMAIN u /\ u[n].game = t[n].game
  BY <1>1 DEF Kept
<1>3. \A k \in DOMAIN t : NodeTrue(u, k)
  BY <1>1, <1>2, LinkedArena
<1> QED BY <1>1, <1>3 DEF Arena, Numbered

\* intern_node, on a position no node stands for.
InsertTree(t, a, m, n) ==
  [k \in DOMAIN t \cup {n} |-> IF k = n THEN NodeOf(Make(t[a].game, m), t[a].ply + 1, a, m)
                               ELSE LinkTree(t, a, m, n)[k]]

LEMMA InsertedArena ==
  ASSUME NEW t, Arena(t), NEW a \in DOMAIN t, NEW m \in t[a].todo, NEW n, n = Cardinality(DOMAIN t),
         NEW w, w = InsertTree(t, a, m, n)
  PROVE  /\ Arena(w) /\ Kept(t, w) /\ n \in Nat /\ n \in DOMAIN w
         /\ w[n].game = Make(t[a].game, m)
<1>1. Numbered(t) /\ NodeTrue(t, a)
  BY DEF Arena
<1> DEFINE u == LinkTree(t, a, m, n)
<1>2. n \in Nat /\ DOMAIN t = 0..(n - 1) /\ n \notin DOMAIN t
  BY <1>1 DEF Numbered
<1>3. DOMAIN u = DOMAIN t /\ Kept(t, u)
  BY LinkedIs
<1> HIDE DEF u
<1> DEFINE x == NodeOf(Make(t[a].game, m), t[a].ply + 1, a, m)
<1>4. DOMAIN w = DOMAIN t \cup {n} /\ w[n] = x /\ \A k \in DOMAIN t : w[k] = u[k]
  <2>1. \A k \in DOMAIN t : k # n
    BY <1>2
  <2> QED BY <2>1 DEF InsertTree, u
<1>5. Kept(t, w)
  BY <1>3, <1>4 DEF Kept
<1>6. /\ x.game = Make(t[a].game, m) /\ x.ply = t[a].ply + 1 /\ x.parent = a /\ x.move = m
      /\ x.listed = FALSE /\ x.todo = {} /\ x.edges = {} /\ Shape(x)
  BY DEF NodeOf, Shape
<1> HIDE DEF x
<1>7. \A k \in DOMAIN t : NodeTrue(w, k)
  <2>1. u = LinkTree(t, a, m, n)
    BY DEF u
  <2> QED BY <1>4, <1>5, <1>6, <2>1, LinkedArena
<1>8. NodeTrue(w, n)
  <2>1. m \in Legal(t[a].game) /\ Honest(t[a].game) /\ t[a].ply \in Nat
    BY <1>1 DEF NodeTrue
  <2>2. Honest(x.game) /\ x.ply \in Nat /\ x.todo \subseteq Legal(x.game)
    BY <1>6, <2>1, LegalKeepsHonest
  <2>3. Descends(w, n)
    <3>1. a \in DOMAIN w /\ w[a].game = t[a].game
      BY <1>4, <1>5 DEF Kept
    <3> QED BY <1>4, <1>6, <2>1, <3>1 DEF Descends
  <2>4. x.listed \in BOOLEAN
    BY <1>6
  <2> QED BY <1>4, <1>6, <2>2, <2>3, <2>4 DEF NodeTrue
<1>9. Numbered(w)
  <2>5. n \in Int /\ 0 <= n
    BY <1>2
  <2>0. 0..(n - 1) \cup {n} = 0..n
    BY <2>5
  <2>6. DOMAIN w = 0..(n - 1) \cup {n}
    BY <1>2, <1>4
  <2>1. DOMAIN w = 0..n /\ 0 \in Int
    <3>1. DOMAIN w = 0..n
      BY <2>0, <2>6, Zenon
    <3> QED BY <3>1
  <2> DEFINE c == Cardinality(0..n)
  <2>2. c = IF 0 > n THEN 0 ELSE n - 0 + 1
    BY <2>1, <2>5, FS_Interval
  <2>4. Cardinality(DOMAIN w) = c
    BY <2>1
  <2> HIDE DEF c
  <2>3. c = n + 1 /\ n + 1 - 1 = n /\ n + 1 \in Nat /\ c - 1 = n
    BY <2>5, <2>2
  <2> QED BY <2>1, <2>3, <2>4 DEF Numbered
<1> QED BY <1>2, <1>4, <1>5, <1>6, <1>7, <1>8, <1>9 DEF Arena

-----------------------------------------------------------------------------
\* The accumulators and the expansion under way.

CacheTrue(t, c, l) ==
  /\ Bounded(c, l) /\ DOMAIN c \subseteq DOMAIN t
  /\ \A n \in DOMAIN c : c[n] = Refresh(t[n].game.at)

\* The path leads up from node a to node c, and does not pass the root.
Below(t, p, a, c) ==
  /\ p \in Seq(DOMAIN t) /\ c \in DOMAIN t
  /\ p = << >> => c = a
  /\ p # << >> => p[1] = a /\ t[p[Len(p)]].parent = c
  /\ \A i \in 1..Len(p) : p[i] # 0
  /\ \A i \in 1..(Len(p) - 1) : t[p[i]].parent = p[i + 1]

Expanding(t, a, s, c, p, h, q) ==
  /\ q \in Nat
  /\ a = None => s = "none" /\ c = None /\ p = << >>
  /\ a # None => a \in DOMAIN t /\ s \in {"climb", "walk", "expand"} /\ Below(t, p, a, c)
  /\ s = "expand" => p = << >>
  /\ s \in {"walk", "expand"} => h = Refresh(t[c].game.at)

LEMMA KeptCache ==
  ASSUME NEW t, NEW u, Kept(t, u), NEW c, NEW l, CacheTrue(t, c, l)
  PROVE  CacheTrue(u, c, l)
BY DEF Kept, CacheTrue

LEMMA KeptExpanding ==
  ASSUME NEW t, NEW u, Kept(t, u), NEW a, NEW s, NEW c, NEW p, NEW h, NEW q,
         Expanding(t, a, s, c, p, h, q)
  PROVE  Expanding(u, a, s, c, p, h, q)
<1>1. CASE a = None
  BY <1>1 DEF Expanding
<1>2. CASE a # None
  <2>1. a \in DOMAIN t /\ s \in {"climb", "walk", "expand"} /\ Below(t, p, a, c)
    BY <1>2 DEF Expanding
  <2>2. \A i \in 1..Len(p) : p[i] \in DOMAIN t
    BY <2>1 DEF Below
  <2>3. p \in Seq(DOMAIN u) /\ Len(p) \in Nat
    <3>1. DOMAIN t \subseteq DOMAIN u /\ p \in Seq(DOMAIN t)
      BY <2>1 DEF Kept, Below
    <3> QED BY <3>1
  <2>4. \A i \in 1..Len(p) : u[p[i]].parent = t[p[i]].parent
    BY <2>2 DEF Kept
  <2>5. p # << >> => Len(p) \in 1..Len(p)
    BY <2>3
  <2>6. \A i \in 1..(Len(p) - 1) : i \in 1..Len(p)
    BY <2>3
  <2>7. Below(u, p, a, c)
    BY <2>1, <2>3, <2>4, <2>5, <2>6 DEF Below, Kept
  <2>8. a \in DOMAIN u /\ c \in DOMAIN t /\ u[c].game = t[c].game
    BY <2>1 DEF Kept, Below
  <2> QED BY <1>2, <2>1, <2>7, <2>8 DEF Expanding
<1> QED BY <1>1, <1>2

-----------------------------------------------------------------------------
\* The position a command builds.

\* While a command is obeyed, what is built aside is the game its FEN and the moves made
\* so far lead to, on the way to the one the whole command asks for.
Aside ==
  IF next = NoGame THEN asked = NoCommand /\ made = 0
  ELSE /\ Honest(next) /\ asked \in Command /\ made \in 0..Len(asked.moves)
       /\ \E f : /\ PassesThrough(asked, f) /\ f[Len(asked.moves)] = Positioned(asked)
                 /\ f[made] = next

LEMMA CommandIsHonest ==
  ASSUME NEW c \in Command
  PROVE  c.moves \in Seq(Move) /\ (SetFen(c.fen) = NoGame \/ Honest(SetFen(c.fen)))
<1>1. Proper(c.fen) /\ c.moves \in Seq(Move)
  BY CommandAssumption
<1> QED BY <1>1, SetFenIsHonest

LEMMA SetPositionAside ==
  ASSUME Aside, NEW c \in Command, SetPosition(c)
  PROVE  Aside'
<1>1. next' = SetFen(c.fen) /\ next' # NoGame /\ asked' = c /\ made' = 0
  BY DEF SetPosition
<1>2. c.moves \in Seq(Move) /\ Honest(SetFen(c.fen)) /\ 0 \in 0..Len(c.moves)
  BY <1>1, CommandIsHonest
<1>3. PICK f : PassesThrough(c, f) /\ f[Len(c.moves)] = Positioned(c)
  BY <1>2, PositionedInSteps
<1>4. f[0] = SetFen(c.fen)
  BY <1>3 DEF PassesThrough
<1> QED BY <1>1, <1>2, <1>3, <1>4 DEF Aside

LEMMA PlayMoveAside ==
  ASSUME Aside, PlayMove
  PROVE  Aside'
<1> DEFINE m == asked.moves[made + 1]
<1>1. /\ next # NoGame /\ m \in Legal(next) /\ made < Len(asked.moves)
      /\ next' = Make(Probed(next), m) /\ made' = made + 1 /\ asked' = asked
  BY DEF PlayMove, MoveLeft, MoveAsked
<1>2. Honest(next) /\ asked \in Command /\ made \in 0..Len(asked.moves)
  BY <1>1 DEF Aside
<1>3. PICK f : /\ PassesThrough(asked, f) /\ f[Len(asked.moves)] = Positioned(asked)
              /\ f[made] = next
  BY <1>1 DEF Aside
<1>4. made + 1 \in 1..Len(asked.moves) /\ (made + 1) - 1 = made
  BY <1>1, <1>2, CommandIsHonest
<1>5. f[made + 1] = Played(next, m)
  BY <1>3, <1>4 DEF PassesThrough
<1>6. next' = Played(next, m)
  BY <1>1 DEF Played
<1>7. Honest(next')
  BY <1>1, <1>2, <1>6, PlayedIsHonest
<1>8. next' # NoGame
  BY <1>7, HistoryAssumption DEF Honest
<1>9. made' \in 0..Len(asked.moves)
  BY <1>1, <1>4
<1> HIDE DEF m
<1>10. f[made'] = next'
  BY <1>1, <1>5, <1>6
<1> QED BY <1>1, <1>2, <1>3, <1>7, <1>8, <1>9, <1>10 DEF Aside

LEMMA InitAside == Init => Aside
BY DEF Init, Aside

LEMMA NextAside ==
  ASSUME Aside, [Next]_vars
  PROVE  Aside'
<1>1. CASE \E c \in Command : SetPosition(c)
  BY <1>1, SetPositionAside
<1>2. CASE PlayMove
  BY <1>2, PlayMoveAside
<1>3. CASE Refuse \/ MoveIn
  BY <1>3 DEF Refuse, MoveIn, Obeyed, Aside
<1>4. CASE UNCHANGED command
  BY <1>4 DEF command, Aside
<1>5. CASE Start \/ (\E n \in Nodes : Begin(n)) \/ Climb \/ Land \/ Walk \/ Keep \/ List
  BY <1>4, <1>5 DEF Start, Begin, Climb, Land, Walk, Keep, List
<1>6. CASE \E m \in IF at = None THEN {} ELSE tree[at].todo : Share(m) \/ Insert(m)
  BY <1>4, <1>6 DEF Share, Insert, Materialised
<1>7. CASE Leave \/ Finish \/ UNCHANGED vars
  BY <1>4, <1>7 DEF Leave, Finish, vars
<1> QED BY <1>1, <1>2, <1>3, <1>5, <1>6, <1>7 DEF Next

THEOREM BuiltAside == Spec => []Aside
BY InitAside, NextAside, PTL DEF Spec

-----------------------------------------------------------------------------
\* The inductive invariant.

IInv ==
  /\ Honest(pos_)
  /\ Arena(tree)
  /\ CacheTrue(tree, cache, lru)
  /\ Expanding(tree, at, step, current, path, held, quota)

\* What a step does to the tree.
Grows == tree' = << >> \/ Kept(tree, tree')

LEMMA EmptyArena ==
  /\ Arena(<< >>) /\ CacheTrue(<< >>, << >>, << >>)
  /\ \A t, h : Expanding(t, None, "none", None, << >>, h, 0)
<1>1. DOMAIN << >> = {}
  OBVIOUS
<1>2. Cardinality({}) = 0 /\ {} = 0..(0 - 1)
  BY FS_EmptySet
<1>3. Arena(<< >>)
  BY <1>1, <1>2 DEF Arena, Numbered
<1>4. Listing(<< >>) /\ ToSet(<< >>) = {} /\ Len(<< >>) <= Capacity
  BY CapacityAssumption DEF Listing, ToSet, IsInjective
<1>5. CacheTrue(<< >>, << >>, << >>)
  BY <1>1, <1>4 DEF CacheTrue, Bounded
<1>6. \A t, h : Expanding(t, None, "none", None, << >>, h, 0)
  BY DEF Expanding
<1> QED BY <1>3, <1>5, <1>6

LEMMA InitInv == Init => IInv
<1> SUFFICES ASSUME Init PROVE IInv
  OBVIOUS
<1>1. Honest(pos_)
  BY CommandIsHonest DEF Init
<1> QED BY <1>1, EmptyArena DEF Init, IInv

\* Nothing is expanded before a search has a tree.
LEMMA AtRest ==
  ASSUME IInv, tree = << >>
  PROVE  at = None
BY DEF IInv, Expanding

\* Of the steps of a position command only the last touches what the tree is made from.
LEMMA CommandInv ==
  ASSUME IInv, Aside, PlayMove \/ Refuse \/ MoveIn \/ \E c \in Command : SetPosition(c)
  PROVE  IInv' /\ Grows
<1>1. Honest(pos_')
  <2>1. pos_' = pos_ \/ (pos_' = next /\ next # NoGame)
    BY DEF PlayMove, Refuse, MoveIn, SetPosition
  <2> QED BY <2>1 DEF IInv, Aside
<1>2. /\ tree' = tree /\ cache' = cache /\ lru' = lru /\ at' = at /\ step' = step
      /\ current' = current /\ path' = path /\ held' = held /\ quota' = quota
  BY DEF PlayMove, Refuse, MoveIn, SetPosition, expansion
<1> QED BY <1>1, <1>2 DEF IInv, Grows, Kept

LEMMA StartInv ==
  ASSUME IInv, Start
  PROVE  IInv' /\ Grows
<1>1. /\ tree = << >> /\ pos_' = pos_ /\ at' = at /\ step' = step /\ current' = current
      /\ path' = path /\ held' = held /\ quota' = quota
      /\ tree' = [n \in {0} |-> NodeOf(Probed(pos_), 0, None, None)]
      /\ cache' = [n \in {0} |-> Refresh(pos_.at)] /\ lru' = <<0>>
  BY DEF Start, expansion
<1>2. Honest(pos_) /\ Probed(pos_) = pos_
  BY ProbingIsIntact DEF IInv
<1> DEFINE x == NodeOf(Probed(pos_), 0, None, None)
<1>3. DOMAIN tree' = {0} /\ tree'[0] = x
  BY <1>1
<1>4. /\ x.game = pos_ /\ x.ply = 0 /\ x.listed = FALSE /\ x.todo = {} /\ x.edges = {} /\ Shape(x)
  BY <1>2 DEF NodeOf, Shape
<1> HIDE DEF x
<1>5. NodeTrue(tree', 0)
  <2>1. x.listed \in BOOLEAN
    BY <1>4
  <2> QED BY <1>2, <1>3, <1>4, <2>1 DEF NodeTrue, Descends
<1>6. Numbered(tree')
  <2>1. Cardinality({0}) = 1
    BY FS_Singleton
  <2>2. {0} = 0..(1 - 1)
    OBVIOUS
  <2> QED BY <1>3, <2>1, <2>2 DEF Numbered
<1>7. Arena(tree')
  BY <1>3, <1>5, <1>6 DEF Arena
<1>8. CacheTrue(tree', cache', lru')
  <2>1. Listing(lru') /\ ToSet(lru') = {0} /\ Len(lru') = 1
    BY <1>1 DEF Listing, IsInjective, ToSet
  <2>2. Bounded(cache', lru')
    BY <1>1, <2>1, CapacityAssumption DEF Bounded
  <2>3. DOMAIN cache' = {0} /\ cache'[0] = Refresh(pos_.at)
    BY <1>1
  <2> QED BY <1>3, <1>4, <2>2, <2>3 DEF CacheTrue
<1>9. Expanding(tree', at', step', current', path', held', quota')
  <2>1. at = None
    BY <1>1, AtRest
  <2> QED BY <1>1, <2>1 DEF IInv, Expanding
<1>10. Kept(tree, tree')
  BY <1>1 DEF Kept
<1> QED BY <1>1, <1>2, <1>7, <1>8, <1>9, <1>10 DEF IInv, Grows

LEMMA BeginInv ==
  ASSUME IInv, NEW n \in Nodes, Begin(n)
  PROVE  IInv' /\ Grows
<1>1. /\ pos_' = pos_ /\ tree' = tree /\ cache' = cache /\ lru' = lru
      /\ at' = n /\ step' = "climb" /\ current' = n /\ path' = << >>
      /\ quota' = IF n = 0 THEN Cardinality(Legal(tree[0].game)) ELSE Widening
  BY DEF Begin
<1>2. Honest(tree[n].game)
  BY DEF IInv, Arena, NodeTrue, Nodes
<1>3. quota' \in Nat
  <2>1. CASE n = 0
    <3>1. Legal(tree[n].game) \subseteq Move
      BY <1>2, GeneratedIsPlayable DEF Legal
    <3>2. Cardinality(Legal(tree[n].game)) \in Nat
      BY <3>1, MovesAreFinite, FS_Subset, FS_CardinalityType
    <3> QED BY <1>1, <2>1, <3>2
  <2>2. CASE n # 0
    BY <1>1, <2>2, CapacityAssumption
  <2> QED BY <2>1, <2>2
<1>4. at' \in DOMAIN tree /\ at' # None
  <2>1. \A k \in DOMAIN tree : k \in Nat
    BY DEF IInv, Arena, Numbered
  <2> QED BY <1>1, <2>1 DEF Nodes, None
<1>5. Below(tree, path', at', current')
  BY <1>1, <1>4 DEF Below
<1>6. Expanding(tree, at', step', current', path', held', quota')
  BY <1>1, <1>3, <1>4, <1>5 DEF Expanding
<1> QED BY <1>1, <1>6 DEF IInv, Grows, Kept

\* What an expansion knows of the nodes it works on.
LEMMA Busy ==
  ASSUME IInv, step # "none"
  PROVE  /\ at # None /\ at \in DOMAIN tree /\ current \in DOMAIN tree
         /\ Below(tree, path, at, current) /\ quota \in Nat
         /\ Honest(tree[at].game) /\ Honest(tree[current].game)
         /\ step = "expand" => path = << >> /\ current = at
         /\ step \in {"walk", "expand"} => held = Refresh(tree[current].game.at)
<1>1. /\ at # None /\ at \in DOMAIN tree /\ Below(tree, path, at, current) /\ quota \in Nat
      /\ step = "expand" => path = << >>
      /\ step \in {"walk", "expand"} => held = Refresh(tree[current].game.at)
  BY DEF IInv, Expanding
<1>2. current \in DOMAIN tree /\ (path = << >> => current = at)
  BY <1>1 DEF Below
<1>3. Honest(tree[at].game) /\ Honest(tree[current].game)
  BY <1>1, <1>2 DEF IInv, Arena, NodeTrue
<1> QED BY <1>1, <1>2, <1>3

LEMMA ClimbInv ==
  ASSUME IInv, Climb
  PROVE  IInv' /\ Grows
<1>1. /\ step = "climb" /\ current # 0
      /\ path' = Append(path, current) /\ current' = tree[current].parent
      /\ pos_' = pos_ /\ tree' = tree /\ cache' = cache /\ lru' = lru /\ at' = at
      /\ step' = step /\ held' = held /\ quota' = quota
  BY DEF Climb
<1>2. /\ at # None /\ at \in DOMAIN tree /\ current \in DOMAIN tree
      /\ Below(tree, path, at, current) /\ quota \in Nat
  BY <1>1, Busy
<1>3. current' \in DOMAIN tree
  BY <1>1, <1>2 DEF IInv, Arena, NodeTrue, Descends
<1> DEFINE p == path
           r == Append(path, current)
<1>4. p \in Seq(DOMAIN tree) /\ Len(p) \in Nat
  BY <1>2 DEF Below
<1>5. /\ r \in Seq(DOMAIN tree) /\ Len(r) = Len(p) + 1 /\ r[Len(p) + 1] = current
      /\ \A i \in 1..Len(p) : r[i] = p[i]
  BY <1>2, <1>4
<1>6. r # << >>
  BY <1>4, <1>5
<1> HIDE DEF r
<1>7. r[1] = at
  <2>1. CASE p = << >>
    <3>1. Len(p) = 0 /\ current = at
      BY <1>2, <2>1 DEF Below
    <3> QED BY <1>5, <3>1
  <2>2. CASE p # << >>
    <3>1. 1 \in 1..Len(p) /\ p[1] = at
      BY <1>2, <1>4, <2>2 DEF Below
    <3> QED BY <1>5, <3>1
  <2> QED BY <2>1, <2>2
<1>8. \A i \in 1..Len(r) : r[i] # 0
  <2>1. \A i \in 1..Len(p) : p[i] # 0
    BY <1>2 DEF Below
  <2> QED BY <1>1, <1>4, <1>5, <2>1
<1>9. ASSUME NEW i \in 1..(Len(r) - 1) PROVE tree[r[i]].parent = r[i + 1]
  <2>1. i \in 1..Len(p) /\ r[i] = p[i]
    BY <1>4, <1>5
  <2>2. CASE i = Len(p)
    <3>1. p # << >> /\ r[i + 1] = current
      BY <1>4, <1>5, <2>1, <2>2
    <3> QED BY <1>2, <2>1, <2>2, <3>1 DEF Below
  <2>3. CASE i # Len(p)
    <3>1. i \in 1..(Len(p) - 1) /\ i + 1 \in 1..Len(p)
      BY <1>4, <2>1, <2>3
    <3>2. tree[p[i]].parent = p[i + 1]
      BY <1>2, <3>1 DEF Below
    <3> QED BY <1>5, <2>1, <3>1, <3>2
  <2> QED BY <2>2, <2>3
<1>10. tree[r[Len(r)]].parent = current'
  BY <1>1, <1>5
<1>11. Below(tree, r, at, current')
  BY <1>3, <1>5, <1>6, <1>7, <1>8, <1>9, <1>10 DEF Below
<1>12. Expanding(tree, at', step', current', path', held', quota')
  BY <1>1, <1>2, <1>11 DEF Expanding, r
<1> QED BY <1>1, <1>12 DEF IInv, Grows, Kept

LEMMA LandInv ==
  ASSUME IInv, Land
  PROVE  IInv' /\ Grows
<1>1. /\ step = "climb" /\ step' = "walk" /\ (current = 0 \/ current \in DOMAIN cache)
      /\ held' = IF current \in DOMAIN cache THEN cache[current] ELSE Refresh(tree[0].game.at)
      /\ lru' = IF current # 0 THEN MovedLast(lru, current) ELSE lru
      /\ pos_' = pos_ /\ tree' = tree /\ cache' = cache /\ at' = at /\ current' = current
      /\ path' = path /\ quota' = quota
  BY DEF Land
<1>2. /\ at # None /\ at \in DOMAIN tree /\ current \in DOMAIN tree
      /\ Below(tree, path, at, current) /\ quota \in Nat
  BY <1>1, Busy
<1>3. CacheTrue(tree, cache, lru) /\ Listing(lru) /\ DOMAIN cache = ToSet(lru) /\ Len(lru) <= Capacity
  BY DEF IInv, CacheTrue, Bounded
<1>4. held' = Refresh(tree[current].game.at)
  BY <1>1, <1>3 DEF CacheTrue
<1>5. Expanding(tree, at', step', current', path', held', quota')
  BY <1>1, <1>2, <1>4 DEF Expanding
<1>6. CacheTrue(tree, cache, lru')
  <2>1. CASE current = 0
    BY <1>1, <1>3, <2>1
  <2>2. CASE current # 0
    <3>1. current \in ToSet(lru) /\ current \in Nat /\ lru' = MovedLast(lru, current)
      BY <1>1, <1>2, <1>3, <2>2 DEF IInv, Arena, Numbered
    <3>2. Listing(lru') /\ ToSet(lru') = ToSet(lru) \cup {current} /\ Len(lru') = Len(lru)
      BY <1>3, <3>1, MovedLastIs
    <3>3. ToSet(lru') = ToSet(lru)
      BY <3>1, <3>2
    <3> QED BY <1>3, <3>2, <3>3 DEF CacheTrue, Bounded
  <2> QED BY <2>1, <2>2
<1> QED BY <1>1, <1>5, <1>6 DEF IInv, Grows, Kept

LEMMA WalkInv ==
  ASSUME IInv, Walk
  PROVE  IInv' /\ Grows
<1> DEFINE n == path[Len(path)]
           r == SubSeq(path, 1, Len(path) - 1)
<1>1. /\ step = "walk" /\ path # << >> /\ path' = r /\ current' = n
      /\ held' = ApplyMove(held, tree[current].game.at, tree[n].move)
      /\ pos_' = pos_ /\ tree' = tree /\ cache' = cache /\ lru' = lru /\ at' = at
      /\ step' = step /\ quota' = quota
  BY DEF Walk, Last, Front
<1>2. /\ at # None /\ at \in DOMAIN tree /\ current \in DOMAIN tree
      /\ Below(tree, path, at, current) /\ quota \in Nat
      /\ held = Refresh(tree[current].game.at) /\ Honest(tree[current].game)
  BY <1>1, Busy
<1>3. path \in Seq(DOMAIN tree) /\ Len(path) \in Nat /\ Len(path) >= 1
  BY <1>1, <1>2 DEF Below
<1>4. n \in DOMAIN tree /\ n # 0 /\ tree[n].parent = current
  BY <1>1, <1>2, <1>3 DEF Below
<1>5. held' = Refresh(tree[n].game.at)
  <2>1. tree[n].move \in Legal(tree[current].game) /\ tree[n].game = Make(tree[current].game, tree[n].move)
    BY <1>4 DEF IInv, Arena, NodeTrue, Descends
  <2> DEFINE g == tree[current].game
             m == tree[n].move
  <2>2. m \in Pseudo(g) /\ tree[n].game.at = MakeMove(g.at, m)
    BY <1>2, <2>1, MakeIs, LegalKeepsHonest
  <2>3. m \in Move /\ Playable(g.at, m)
    BY <1>2, <2>2, GeneratedIsPlayable
  <2>4. g.at \in Position
    BY <1>2, GameParts DEF Honest
  <2> HIDE DEF g, m
  <2>5. ApplyMove(Refresh(g.at), g.at, m) = Refresh(MakeMove(g.at, m))
    BY <2>3, <2>4, UpdateIsRefresh
  <2> QED BY <1>1, <1>2, <2>2, <2>5 DEF g, m
<1>6. Below(tree, r, at, n)
  <2> DEFINE k == Len(path)
  <2>0. k \in Int /\ k >= 1
    BY <1>3
  <2>1. r \in Seq(DOMAIN tree) /\ Len(r) = k - 1 /\ \A i \in 1..(k - 1) : r[i] = path[i]
    <3> DEFINE S == DOMAIN tree
    <3>1. \A i \in 1..k : path[i] \in S
      BY <1>3
    <3>2. path \in Seq(S)
      BY <1>3
    <3> HIDE DEF k, S
    <3>3. 1 \in Int /\ k - 1 \in Int /\ (\A i \in 1..(k - 1) : path[i] \in S)
          /\ (IF 1 <= k - 1 THEN (k - 1) - 1 + 1 ELSE 0) = k - 1 /\ (k - 1) - 1 + 1 = k - 1
      BY <2>0, <3>1
    <3>4. /\ SubSeq(path, 1, k - 1) \in Seq(S) /\ Len(SubSeq(path, 1, k - 1)) = k - 1
          /\ \A i \in 1..(k - 1) : SubSeq(path, 1, k - 1)[i] = path[1 + i - 1]
      BY <3>3, SubSeqProperties
    <3>5. \A i \in 1..(k - 1) : 1 + i - 1 = i
      BY <2>0
    <3>6. /\ SubSeq(path, 1, k - 1) \in Seq(S) /\ Len(SubSeq(path, 1, k - 1)) = k - 1
          /\ \A i \in 1..(k - 1) : SubSeq(path, 1, k - 1)[i] = path[i]
      BY <3>4, <3>5
    <3> QED BY <3>6 DEF k, S
  <2>2. /\ path[1] = at /\ (\A i \in 1..k : path[i] # 0)
        /\ \A i \in 1..(k - 1) : tree[path[i]].parent = path[i + 1]
    BY <1>1, <1>2 DEF Below
  <2> HIDE DEF r
  <2>3. r = << >> => n = at
    <3>1. ASSUME r = << >> PROVE k = 1
      <4>1. Len(r) = 0
        BY <3>1
      <4> HIDE DEF k
      <4> QED BY <2>0, <2>1, <4>1
    <3> QED BY <2>2, <3>1
  <2>4. ASSUME r # << >> PROVE r[1] = at /\ tree[r[Len(r)]].parent = n
    <3>1. Len(r) >= 1 /\ Len(r) \in Nat
      BY <2>1, <2>4
    <3> HIDE DEF k
    <3>2. 1 \in 1..(k - 1) /\ k - 1 \in 1..(k - 1) /\ (k - 1) + 1 = k
      BY <2>0, <2>1, <3>1
    <3>3. r[1] = path[1] /\ r[k - 1] = path[k - 1] /\ tree[path[k - 1]].parent = path[k]
      BY <2>1, <2>2, <3>2
    <3> QED BY <2>1, <2>2, <3>3 DEF k
  <2>5. \A i \in 1..Len(r) : r[i] # 0
    <3> HIDE DEF k
    <3>1. \A i \in 1..(k - 1) : i \in 1..k
      BY <2>0
    <3> QED BY <2>1, <2>2, <3>1
  <2>6. \A i \in 1..(Len(r) - 1) : tree[r[i]].parent = r[i + 1]
    <3> HIDE DEF k
    <3>1. \A i \in 1..((k - 1) - 1) : i \in 1..(k - 1) /\ i + 1 \in 1..(k - 1)
      BY <2>0
    <3> QED BY <2>1, <2>2, <3>1
  <2> HIDE DEF k
  <2> QED BY <1>4, <2>1, <2>3, <2>4, <2>5, <2>6 DEF Below
<1> HIDE DEF n, r
<1>7. Expanding(tree, at', step', current', path', held', quota')
  BY <1>1, <1>2, <1>5, <1>6 DEF Expanding
<1> QED BY <1>1, <1>7 DEF IInv, Grows, Kept

LEMMA KeepInv ==
  ASSUME IInv, Keep
  PROVE  IInv' /\ Grows
<1> DEFINE s == Stored(cache, lru, at, held)
<1>1. /\ step = "walk" /\ path = << >> /\ cache' = s.cache /\ lru' = s.lru /\ step' = "expand"
      /\ pos_' = pos_ /\ tree' = tree /\ at' = at /\ current' = current /\ path' = path
      /\ held' = held /\ quota' = quota
  BY DEF Keep
<1>2. /\ at # None /\ at \in DOMAIN tree /\ Below(tree, path, at, current) /\ quota \in Nat
      /\ held = Refresh(tree[current].game.at)
  BY <1>1, Busy
<1>3. current = at /\ at \in Nat
  BY <1>1, <1>2 DEF Below, IInv, Arena, Numbered
<1>4. Bounded(cache, lru) /\ DOMAIN cache \subseteq DOMAIN tree
      /\ \A n \in DOMAIN cache : cache[n] = Refresh(tree[n].game.at)
  BY DEF IInv, CacheTrue
<1>5. /\ Bounded(s.cache, s.lru) /\ DOMAIN s.cache \subseteq DOMAIN cache \cup {at}
      /\ \A k \in DOMAIN s.cache : s.cache[k] = IF k = at THEN held ELSE cache[k]
  BY <1>3, <1>4, StoredIs
<1> HIDE DEF s
<1>6. CacheTrue(tree, cache', lru')
  BY <1>1, <1>2, <1>3, <1>4, <1>5 DEF CacheTrue
<1>7. Expanding(tree, at', step', current', path', held', quota')
  BY <1>1, <1>2 DEF Expanding
<1> QED BY <1>1, <1>6, <1>7 DEF IInv, Grows, Kept

\* What a step that only grows the tree leaves true.
LEMMA GrowsInv ==
  ASSUME IInv, Honest(pos_'), Arena(tree'), Kept(tree, tree'),
         cache' = cache, lru' = lru, at' = at, step' = step, current' = current, path' = path,
         held' = held, quota' \in Nat
  PROVE  IInv' /\ Grows
<1>1. CacheTrue(tree', cache', lru')
  BY KeptCache DEF IInv
<1>2. Expanding(tree', at, step, current, path, held, quota)
  BY KeptExpanding DEF IInv
<1>3. Expanding(tree', at', step', current', path', held', quota')
  BY <1>2 DEF Expanding
<1> QED BY <1>1, <1>3 DEF IInv, Grows

LEMMA ListInv ==
  ASSUME IInv, List
  PROVE  IInv' /\ Grows
<1> DEFINE T == Restricted(Legal(tree[at].game), at)
<1>1. /\ step = "expand"
      /\ pos_' = pos_ /\ cache' = cache /\ lru' = lru /\ at' = at /\ current' = current
      /\ path' = path /\ held' = held /\ quota' = quota /\ step' = step
  BY DEF List, expansion
<1>2. tree' = ListTree(tree, at, T)
  BY DEF List, ListTree
<1>3. at \in DOMAIN tree /\ quota \in Nat
  BY <1>1, Busy
<1>4. T \in SUBSET Legal(tree[at].game)
  BY DEF Restricted
<1> HIDE DEF T
<1>5. Arena(tree') /\ Kept(tree, tree')
  BY <1>2, <1>3, <1>4, ListedArena DEF IInv
<1>6. Honest(pos_')
  BY <1>1 DEF IInv
<1> QED BY <1>1, <1>3, <1>5, <1>6, GrowsInv

LEMMA ShareInv ==
  ASSUME IInv, at # None, NEW m \in tree[at].todo, Share(m)
  PROVE  IInv' /\ Grows
<1>1. /\ step = "expand" /\ quota > 0
      /\ pos_' = pos_ /\ cache' = cache /\ lru' = lru /\ at' = at /\ current' = current
      /\ path' = path /\ held' = held /\ quota' = quota - 1 /\ step' = step
  BY DEF Share, Candidate, Materialised
<1>2. at \in DOMAIN tree /\ quota \in Nat
  BY <1>1, Busy
<1>3. PICK n \in DOMAIN tree : /\ SameContext(tree[n].game, Make(tree[at].game, m))
                               /\ tree' = Linked(m, n)
  BY DEF Share, Alike, Nodes
<1>4. tree' = LinkTree(tree, at, m, n)
  BY <1>3 DEF Linked, LinkTree
<1>5. Arena(tree') /\ Kept(tree, tree')
  BY <1>2, <1>3, <1>4, SharedArena DEF IInv
<1>6. Honest(pos_') /\ quota' \in Nat
  BY <1>1, <1>2 DEF IInv
<1> QED BY <1>1, <1>5, <1>6, GrowsInv

LEMMA InsertInv ==
  ASSUME IInv, at # None, NEW m \in tree[at].todo, Insert(m)
  PROVE  IInv' /\ Grows
<1> DEFINE g == tree[at].game
           n == Cardinality(Nodes)
           acc == ApplyMove(held, g.at, m)
           s == Stored(cache, lru, n, acc)
<1>1. /\ step = "expand" /\ quota > 0
      /\ cache' = s.cache /\ lru' = s.lru
      /\ pos_' = pos_ /\ at' = at /\ current' = current
      /\ path' = path /\ held' = held /\ quota' = quota - 1 /\ step' = step
  BY DEF Insert, Candidate, Materialised
<1>2. tree' = InsertTree(tree, at, m, n)
  BY DEF Insert, Linked, LinkTree, InsertTree, Nodes
<1>3. /\ at \in DOMAIN tree /\ current = at /\ quota \in Nat /\ path = << >>
      /\ held = Refresh(g.at) /\ Honest(g)
  BY <1>1, Busy
<1>4. /\ Arena(tree') /\ Kept(tree, tree') /\ n \in Nat /\ n \in DOMAIN tree'
      /\ tree'[n].game = Make(g, m)
  BY <1>2, <1>3, InsertedArena DEF IInv, Nodes
<1>5. acc = Refresh(Make(g, m).at)
  <2>1. m \in Legal(g)
    BY <1>3 DEF IInv, Arena, NodeTrue
  <2> HIDE DEF g
  <2>2. m \in Pseudo(g) /\ Make(g, m).at = MakeMove(g.at, m)
    BY <1>3, <2>1, MakeIs, LegalKeepsHonest
  <2>3. m \in Move /\ Playable(g.at, m)
    BY <1>3, <2>2, GeneratedIsPlayable
  <2>4. g.at \in Position
    BY <1>3, GameParts DEF Honest
  <2>5. ApplyMove(Refresh(g.at), g.at, m) = Refresh(MakeMove(g.at, m))
    BY <2>3, <2>4, UpdateIsRefresh
  <2> QED BY <1>3, <2>2, <2>5
<1> HIDE DEF g, n, acc
<1>6. CacheTrue(tree', cache, lru)
  BY <1>4, KeptCache DEF IInv
<1>7. CacheTrue(tree', cache', lru')
  <2>1. /\ Bounded(cache, lru) /\ DOMAIN cache \subseteq DOMAIN tree'
        /\ \A k \in DOMAIN cache : cache[k] = Refresh(tree'[k].game.at)
    BY <1>6 DEF CacheTrue
  <2>2. /\ Bounded(s.cache, s.lru) /\ DOMAIN s.cache \subseteq DOMAIN cache \cup {n}
        /\ \A k \in DOMAIN s.cache : s.cache[k] = IF k = n THEN acc ELSE cache[k]
    BY <1>4, <2>1, StoredIs
  <2> HIDE DEF s
  <2> QED BY <1>1, <1>4, <1>5, <2>1, <2>2 DEF CacheTrue
<1>8. Expanding(tree', at', step', current', path', held', quota')
  <2>1. Expanding(tree', at, step, current, path, held, quota)
    BY <1>4, KeptExpanding DEF IInv
  <2>2. quota' \in Nat
    BY <1>1, <1>3
  <2> QED BY <1>1, <2>1, <2>2 DEF Expanding
<1> QED BY <1>1, <1>4, <1>7, <1>8 DEF IInv, Grows

LEMMA LeaveInv ==
  ASSUME IInv, Leave
  PROVE  IInv' /\ Grows
<1>1. /\ pos_' = pos_ /\ tree' = tree /\ cache' = cache /\ lru' = lru
      /\ at' = None /\ step' = "none" /\ current' = None /\ path' = << >> /\ quota' = 0
  BY DEF Leave, Rested
<1>2. Expanding(tree', at', step', current', path', held', quota')
  BY <1>1 DEF Expanding
<1> QED BY <1>1, <1>2 DEF IInv, Grows, Kept

LEMMA FinishInv ==
  ASSUME IInv, Finish
  PROVE  IInv' /\ Grows
<1>1. /\ tree' = << >> /\ cache' = << >> /\ lru' = << >> /\ pos_' = pos_ /\ at = None
      /\ at' = at /\ step' = step /\ current' = current /\ path' = path /\ held' = held
      /\ quota' = quota
  BY DEF Finish, expansion
<1>2. Expanding(tree', at', step', current', path', held', quota')
  BY <1>1 DEF IInv, Expanding
<1> QED BY <1>1, <1>2, EmptyArena DEF IInv, Grows

LEMMA NextInv ==
  ASSUME IInv, Aside, [Next]_vars
  PROVE  IInv' /\ Grows
<1>1. CASE UNCHANGED vars
  BY <1>1 DEF vars, expansion, IInv, Grows, Kept
<1>2. CASE PlayMove \/ Refuse \/ MoveIn \/ \E c \in Command : SetPosition(c)
  BY <1>2, CommandInv
<1>3. CASE Start
  BY <1>3, StartInv
<1>4. CASE \E n \in Nodes : Begin(n)
  BY <1>4, BeginInv
<1>5. CASE Climb \/ Land \/ Walk \/ Keep \/ List
  BY <1>5, ClimbInv, LandInv, WalkInv, KeepInv, ListInv
<1>6. CASE \E m \in IF at = None THEN {} ELSE tree[at].todo : Share(m) \/ Insert(m)
  <2>1. PICK m \in IF at = None THEN {} ELSE tree[at].todo : Share(m) \/ Insert(m)
    BY <1>6
  <2>2. at # None /\ m \in tree[at].todo
    BY <2>1
  <2> QED BY <2>1, <2>2, ShareInv, InsertInv
<1>7. CASE Leave \/ Finish
  BY <1>7, LeaveInv, FinishInv
<1> QED BY <1>1, <1>2, <1>3, <1>4, <1>5, <1>6, <1>7 DEF Next

\* Every state of the model satisfies the invariant.
THEOREM InductiveInvariant == Spec => []IInv
<1>1. IInv /\ Aside /\ [Next]_vars => IInv'
  BY NextInv
<1> QED BY InitInv, BuiltAside, <1>1, PTL DEF Spec

-----------------------------------------------------------------------------
\* What follows from it.

\* accumulatorCache: the recency list and the map agree, without repetitions, and
\* stay within the capacity, whatever is stored, read again or evicted.
THEOREM CacheStaysBounded == Spec => []CacheIsBounded
<1>1. IInv => CacheIsBounded
  BY DEF IInv, CacheTrue, Bounded, Listing, CacheIsBounded, Nodes
<1> QED BY <1>1, InductiveInvariant, PTL

\* build_accumulator_for_node and the cache: what an expansion starts from, walks down
\* with and stores for its children is the accumulator a refresh of each node's
\* position gives, for every network, board, tree, capacity and order of evictions.
THEOREM AccumulatorsAlwaysMatch == Spec => []AccumulatorsMatch
<1>1. IInv => AccumulatorsMatch
  <2>1. ASSUME IInv PROVE \A n \in DOMAIN cache : cache[n] = Refresh(tree[n].game.at)
    BY <2>1 DEF IInv, CacheTrue
  <2>2. ASSUME IInv, step \in {"walk", "expand"} PROVE held = Refresh(tree[current].game.at)
    BY <2>2 DEF IInv, Expanding
  <2> QED BY <2>1, <2>2 DEF AccumulatorsMatch
<1> QED BY <1>1, InductiveInvariant, PTL

\* generate_legal plays and takes back every candidate on the node's own position; no
\* step leaves the position of a node different from what it was.
THEOREM ArenaStaysIntact == Spec => ArenaIntact
<1>1. ASSUME IInv, Aside, [Next]_vars
      PROVE  [\A n \in Nodes : tree' # << >> => tree'[n].game = tree[n].game]_vars
  BY <1>1, NextInv DEF Grows, Kept, Nodes
<1> QED BY <1>1, InductiveInvariant, BuiltAside, PTL DEF Spec, ArenaIntact

LEMMA HonestIsWellFormed ==
  ASSUME NEW g, Honest(g)
  PROVE  /\ g \in Game
         /\ WellFormed([board |-> g.at.board, side |-> g.at.side, rights |-> g.rights, ep |-> g.ep])
         /\ g.ep # NoSquare => Capturable(g.at.board, g.ep, g.at.side)
         /\ \A c \in Color : g.at.board[g.at.king[c]] = <<c, "king">>
         /\ ~Attacked(g.at.board, g.at.king[Them(g.at.side)], g.at.side)
         /\ \A m \in Pseudo(g) : Playable(g.at, m)
<1>1. /\ g \in Game /\ KingsHome(g) /\ PawnsBetween(g) /\ RightsHome(g) /\ EpTaken(g)
      /\ ~Attacked(g.at.board, g.at.king[Them(g.at.side)], g.at.side)
  BY DEF Honest
<1>2. g.at.king \in [Color -> Square]
  BY <1>1, GameParts
<1>3. \A c \in Color : g.at.board[g.at.king[c]] = <<c, "king">>
  BY <1>1, <1>2 DEF KingsHome
<1> DEFINE f == [board |-> g.at.board, side |-> g.at.side, rights |-> g.rights, ep |-> g.ep]
<1>4. f.board = g.at.board /\ f.side = g.at.side /\ f.rights = g.rights /\ f.ep = g.ep
  OBVIOUS
<1> HIDE DEF f
<1>5. ASSUME NEW c \in Color PROVE Cardinality({s \in Square : f.board[s] = <<c, "king">>}) = 1
  <2>1. {s \in Square : f.board[s] = <<c, "king">>} = {g.at.king[c]}
    BY <1>1, <1>2, <1>4 DEF KingsHome
  <2> QED BY <2>1, FS_Singleton
<1>6. \A s \in Square : f.board[s][2] = "pawn" => Rank(s) \notin {0, Height - 1}
  BY <1>1, <1>4 DEF PawnsBetween
<1>7. \A x \in f.rights : /\ f.board[CastleKing[x[1]][x[2]].from] = <<x[1], "king">>
                         /\ f.board[CastleRook[x[1]][x[2]].from] = <<x[1], "rook">>
  BY <1>1, <1>4 DEF RightsHome
<1>8. f.ep # NoSquare =>
        /\ Rank(f.ep) = ThirdRank(Them(f.side)) /\ f.board[f.ep] = Empty
        /\ f.board[f.ep - Forward(f.side) * Width] = <<Them(f.side), "pawn">>
  BY <1>1, <1>4 DEF EpTaken
<1>9. WellFormed(f)
  BY <1>5, <1>6, <1>7, <1>8 DEF WellFormed
<1>10. g.ep # NoSquare => Capturable(g.at.board, g.ep, g.at.side)
  BY <1>1 DEF EpTaken
<1>11. \A m \in Pseudo(g) : Playable(g.at, m)
  BY GeneratedIsPlayable
<1> QED BY <1>1, <1>3, <1>9, <1>10, <1>11 DEF f

LEMMA GamesAreHonest ==
  ASSUME IInv, Aside
  PROVE  \A g \in Games : Honest(g)
<1>1. \A n \in Nodes : Honest(tree[n].game)
  BY DEF IInv, Arena, NodeTrue, Nodes
<1>2. Honest(pos_) /\ (next # NoGame => Honest(next))
  BY DEF IInv, Aside
<1> QED BY <1>1, <1>2 DEF Games

\* set_fen, the moves of a position command and make_move in the tree: every game the
\* engine reaches is one that could be set up, and what it generates from it is what
\* make_move asserts it is called with.
THEOREM PositionsStayHonest == Spec => []PositionsHonest
<1>1. ASSUME IInv, Aside PROVE TypeOK
  <2>1. \A n \in Nodes : Honest(tree[n].game)
    BY <1>1 DEF IInv, Arena, NodeTrue, Nodes
  <2>2. Games \subseteq Game
    BY <1>1, GamesAreHonest DEF Honest
  <2>4. \A n \in Nodes : Legal(tree[n].game) \subseteq Move
    BY <2>1, GeneratedIsPlayable DEF Legal
  <2>5. ASSUME NEW n \in Nodes
        PROVE  /\ tree[n].ply \in Nat /\ tree[n].listed \in BOOLEAN
               /\ tree[n].todo \subseteq Move /\ tree[n].edges \subseteq [move: Move, to: Nodes]
               /\ n # 0 => tree[n].parent \in Nodes /\ tree[n].move \in Move
    <3>1. NodeTrue(tree, n)
      BY <1>1 DEF IInv, Arena, Nodes
    <3>2. tree[n].listed \in BOOLEAN
      BY <3>1 DEF NodeTrue
    <3>3. tree[n].ply \in Nat /\ tree[n].todo \subseteq Move
      BY <2>4, <3>1 DEF NodeTrue
    <3>4. n # 0 => tree[n].parent \in Nodes /\ tree[n].move \in Move
      BY <2>4, <3>1 DEF NodeTrue, Descends, Nodes
    <3>5. ASSUME NEW e \in tree[n].edges PROVE e \in [move: Move, to: Nodes]
      <4>1. e = [move |-> e.move, to |-> e.to] /\ e.to \in Nodes /\ e.move \in Move
        BY <2>4, <3>1 DEF NodeTrue, EdgeTrue, Nodes
      <4> QED BY <4>1
    <3> QED BY <3>2, <3>3, <3>4, <3>5
  <2>6. /\ at \in Nodes \cup {None} /\ current \in Nodes \cup {None} /\ path \in Seq(Nodes)
        /\ step \in {"none", "climb", "walk", "expand"} /\ quota \in Nat
    <3>1. CASE at = None
      BY <1>1, <3>1 DEF IInv, Expanding
    <3>2. CASE at # None
      BY <1>1, <3>2 DEF IInv, Expanding, Below, Nodes
    <3> QED BY <3>1, <3>2
  <2>7. IF next = NoGame THEN asked = NoCommand /\ made = 0
        ELSE asked \in Command /\ made \in 0..Len(asked.moves)
    BY <1>1 DEF Aside
  <2> QED BY <2>2, <2>5, <2>6, <2>7 DEF TypeOK
<1>2. IInv /\ Aside => PositionsHonest
  BY <1>1, GamesAreHonest, HonestIsWellFormed DEF PositionsHonest
<1> QED BY <1>2, InductiveInvariant, BuiltAside, PTL

\* The half-move clock and the step of two hide no repetition from the look back, and the
\* frames are the last positions: whatever happened before an irreversible move weighs
\* more than the present position, and half of what is left has the other side to move.
THEOREM HistoryStaysExact == Spec => []HistoryExact
<1>1. ASSUME NEW g, Honest(g)
      PROVE  LET last == Len(g.keys)
                 first == last - Len(g.frames)
             IN  /\ RepetitionCount(g) = Cardinality(Earlier(g.keys, last))
                 /\ Len(g.frames) = IF last < FrameLimit THEN last ELSE FrameLimit
                 /\ \A i \in 1..Len(g.frames) :
                      g.frames[i] = [board |-> g.keys[first + i].board,
                                     repeated |-> Earlier(g.keys, first + i) # {}]
  <2>1. /\ g \in Game /\ Len(g.keys) >= 1 /\ g.keys[Len(g.keys)] = KeyOf(g)
        /\ Ordered(g) /\ Framed(g)
    BY <1>1 DEF Honest, Recalled
  <2>2. RepetitionCount(g) = Cardinality(Earlier(g.keys, Len(g.keys)))
    BY <2>1, LookBackIsExact
  <2> QED BY <2>1, <2>2, Zenon DEF Framed
<1>2. IInv /\ Aside => HistoryExact
  BY <1>1, GamesAreHonest, Zenon DEF HistoryExact, Earlier
<1> QED BY <1>2, InductiveInvariant, BuiltAside, PTL

LEMMA VerdictsAgree ==
  ASSUME NEW a, NEW b, Honest(a), Honest(b), SameContext(a, b)
  PROVE  Verdict(a) = Verdict(b) /\ Legal(a) = Legal(b)
<1>1. FALSE \in BOOLEAN
  OBVIOUS
<1>2. /\ Legal(a) = Legal(b) /\ RepetitionCount(a) = RepetitionCount(b) /\ a.frames = b.frames
      /\ DrawByRule(a, FALSE) = DrawByRule(b, FALSE)
  BY <1>1, ContextsAgree
<1> QED BY <1>2 DEF Verdict

\* One move later, games of one context are honest and of one context again.
LEMMA NextContext ==
  ASSUME NEW a, NEW b, Honest(a), Honest(b), SameContext(a, b), NEW m \in Legal(a)
  PROVE  /\ Honest(Make(a, m)) /\ Honest(Make(b, m)) /\ SameContext(Make(a, m), Make(b, m))
         /\ Verdict(Make(a, m)) = Verdict(Make(b, m)) /\ Legal(Make(a, m)) = Legal(Make(b, m))
<1>1. m \in Legal(b) /\ SameContext(Make(a, m), Make(b, m))
  BY ContextsAgree
<1>2. Honest(Make(a, m)) /\ Honest(Make(b, m))
  BY <1>1, LegalKeepsHonest
<1> QED BY <1>1, <1>2, VerdictsAgree

\* same_proof_context: paths that share a node agree on the draws, the repetitions,
\* LD2's frames and the legal moves of it and of all that follows within two moves.
THEOREM MergesStaySafe == Spec => []MergesAreSafe
<1>1. ASSUME IInv PROVE MergesAreSafe
  <2> SUFFICES ASSUME NEW n \in Nodes, NEW e \in tree[n].edges,
                      Make(tree[n].game, e.move) # tree[e.to].game
               PROVE  LET own == Make(tree[n].game, e.move)
                          met == tree[e.to].game
                      IN  /\ Verdict(own) = Verdict(met)
                          /\ \A m \in Legal(own) :
                               LET a == Make(own, m)
                                   b == Make(met, m)
                               IN  /\ Verdict(a) = Verdict(b)
                                   /\ \A x \in Legal(a) : Verdict(Make(a, x)) = Verdict(Make(b, x))
    BY DEF MergesAreSafe
  <2> DEFINE own == Make(tree[n].game, e.move)
             met == tree[e.to].game
  <2>1. EdgeTrue(tree, n, e) /\ Honest(tree[n].game)
    BY <1>1 DEF IInv, Arena, NodeTrue, Nodes
  <2>2. Honest(met)
    BY <1>1, <2>1 DEF IInv, Arena, NodeTrue, EdgeTrue
  <2>3. Honest(own) /\ SameContext(met, own)
    BY <2>1, LegalKeepsHonest DEF EdgeTrue
  <2> HIDE DEF own, met
  <2>4. Verdict(met) = Verdict(own) /\ Legal(met) = Legal(own)
    BY <2>2, <2>3, VerdictsAgree
  <2>5. ASSUME NEW m \in Legal(own)
        PROVE  /\ Verdict(Make(own, m)) = Verdict(Make(met, m))
               /\ \A x \in Legal(Make(own, m)) :
                    Verdict(Make(Make(own, m), x)) = Verdict(Make(Make(met, m), x))
    <3> DEFINE a == Make(own, m)
               b == Make(met, m)
    <3>1. /\ Honest(b) /\ Honest(a) /\ SameContext(b, a) /\ Verdict(b) = Verdict(a)
          /\ Legal(b) = Legal(a)
      BY <2>2, <2>3, <2>4, NextContext
    <3> HIDE DEF a, b
    <3>2. \A x \in Legal(a) : Verdict(Make(a, x)) = Verdict(Make(b, x))
      BY <3>1, NextContext
    <3> QED BY <3>1, <3>2 DEF a, b
  <2> QED BY <2>4, <2>5 DEF own, met
<1> QED BY <1>1, InductiveInvariant, PTL

\* What a refused move leaves of the command is no game.
LEMMA RefusedIsNoGame ==
  ASSUME NEW c, NEW f, PassesThrough(c, f), Len(c.moves) \in Nat,
         NEW i \in 1..Len(c.moves), f[i] = NoGame
  PROVE  f[Len(c.moves)] = NoGame
<1> DEFINE T == {k \in i..Len(c.moves) : f[k] # NoGame}
<1>1. T = {}
  <2> SUFFICES ASSUME T # {} PROVE FALSE
    OBVIOUS
  <2>1. T \in SUBSET Nat
    OBVIOUS
  <2>2. PICK n \in T : \A k \in T : n <= k
    <3> HIDE DEF T
    <3> QED BY <2>1, LeastMember
  <2>3. n \in i..Len(c.moves) /\ f[n] # NoGame
    OBVIOUS
  <2>4. n - 1 \in i..Len(c.moves) /\ n \in 1..Len(c.moves)
    BY <2>3
  <2>5. n - 1 \notin T
    BY <2>2, <2>3
  <2>6. f[n - 1] = NoGame
    BY <2>4, <2>5
  <2>7. f[n] = Played(f[n - 1], c.moves[n])
    BY <2>4 DEF PassesThrough
  <2> QED BY <2>3, <2>6, <2>7 DEF Played
<1>2. Len(c.moves) \in i..Len(c.moves)
  OBVIOUS
<1> QED BY <1>1, <1>2

\* set_position: however many moves were made aside before one is refused, and whatever
\* they are, the engine's position is in the end its last one or the position the whole
\* command leads to, and no step before the end of the command touches it.
THEOREM CommandsAreAllOrNothing == Spec => AllOrNothing
<1> DEFINE Whole == IF next # NoGame /\ next' = NoGame
                    THEN pos_' = IF Positioned(asked) = NoGame THEN pos_ ELSE Positioned(asked)
                    ELSE UNCHANGED pos_
<1>1. ASSUME Aside, Refuse PROVE Whole
  <2>1. /\ next # NoGame /\ next' = NoGame /\ pos_' = pos_ /\ made < Len(asked.moves)
        /\ asked.moves[made + 1] \notin Legal(next)
    BY <1>1 DEF Refuse, MoveLeft, MoveAsked, Obeyed
  <2>2. made \in 0..Len(asked.moves) /\ asked \in Command
    BY <1>1, <2>1 DEF Aside
  <2>3. PICK f : /\ PassesThrough(asked, f) /\ f[Len(asked.moves)] = Positioned(asked)
                /\ f[made] = next
    BY <1>1, <2>1 DEF Aside
  <2>4. Len(asked.moves) \in Nat
    BY <2>2, CommandIsHonest
  <2>5. made + 1 \in 1..Len(asked.moves) /\ (made + 1) - 1 = made
    BY <2>1, <2>2, <2>4
  <2>6. f[made + 1] = Played(next, asked.moves[made + 1])
    BY <2>3, <2>5 DEF PassesThrough
  <2>7. f[made + 1] = NoGame
    BY <2>1, <2>6 DEF Played
  <2>8. Positioned(asked) = NoGame
    BY <2>3, <2>4, <2>5, <2>7, RefusedIsNoGame
  <2> QED BY <2>1, <2>8
<1>2. ASSUME Aside, MoveIn PROVE Whole
  <2>1. next # NoGame /\ next' = NoGame /\ pos_' = next /\ made = Len(asked.moves)
    BY <1>2 DEF MoveIn, Obeyed
  <2>2. Positioned(asked) = next
    BY <1>2, <2>1 DEF Aside
  <2> QED BY <2>1, <2>2
<1>3. ASSUME Aside, PlayMove \/ \E c \in Command : SetPosition(c) PROVE Whole
  <2>1. next' # NoGame
    <3>1. CASE PlayMove
      BY <1>3, <3>1, PlayMoveAside DEF Aside, PlayMove, MoveLeft
    <3> QED BY <1>3, <3>1 DEF SetPosition
  <2> QED BY <1>3, <2>1 DEF PlayMove, SetPosition
<1>4. ASSUME UNCHANGED <<pos_, command>> PROVE Whole
  BY <1>4 DEF command
<1> HIDE DEF Whole
<1>5. ASSUME Aside, [Next]_vars PROVE [Whole]_vars
  <2>1. CASE UNCHANGED vars
    BY <2>1
  <2>2. CASE Refuse \/ MoveIn \/ PlayMove \/ \E c \in Command : SetPosition(c)
    BY <1>1, <1>2, <1>3, <1>5, <2>2
  <2>3. CASE Start \/ (\E n \in Nodes : Begin(n)) \/ Climb \/ Land \/ Walk \/ Keep \/ List
    BY <1>4, <2>3 DEF Start, Begin, Climb, Land, Walk, Keep, List
  <2>4. CASE \E m \in IF at = None THEN {} ELSE tree[at].todo : Share(m) \/ Insert(m)
    BY <1>4, <2>4 DEF Share, Insert, Materialised
  <2>5. CASE Leave \/ Finish
    BY <1>4, <2>5 DEF Leave, Finish
  <2> QED BY <1>5, <2>1, <2>2, <2>3, <2>4, <2>5 DEF Next
<1> QED BY <1>5, BuiltAside, PTL DEF Spec, AllOrNothing, Whole

=============================================================================
