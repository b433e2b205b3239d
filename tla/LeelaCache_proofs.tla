-------------------------- MODULE LeelaCache_proofs --------------------------
(***************************************************************************)
(* What the LD2 backend hands out, keeps and charges, for any network of   *)
(* any depth, caches and batches of any size, and a stop at any moment.    *)
(*                                                                         *)
(* IInv says besides what the properties say: the lists name no key twice, *)
(* a torn tensor means the stop is still on, so that the look in front of  *)
(* each result (Fill) keeps it out; and the indices left to compute are    *)
(* increasing, so that a result goes to a request of its own and is        *)
(* counted once.                                                           *)
(***************************************************************************)
EXTENDS LeelaCache, SequenceTheorems, FiniteSetTheorems, TLAPS

\* A list of keys without repetitions.
Listing(s) == s \in Seq(Key) /\ \A i, j \in DOMAIN s : s[i] = s[j] => i = j

\* b is how a ends.
Ends(b, a) == Len(b) <= Len(a) /\ \A i \in 1..Len(b) : b[i] = a[Len(a) - Len(b) + i]

\* The result a network that ran to its end gives for k.
Whole(k) == [net |-> net, key |-> k, torn |-> FALSE]

\* The types that are not those of a call.
Types ==
  /\ net \in Net \cup {NoNet} /\ enabled \in BOOLEAN /\ stopped \in BOOLEAN
  /\ capacity \in 0..MaxCapacity

StoreSound ==
  /\ Listing(recency) /\ Listing(lru) /\ Ends(lru, recency)
  /\ Len(lru) = IF Len(recency) < capacity THEN Len(recency) ELSE capacity
  /\ DOMAIN cache = ToSet(lru) /\ entries = Len(lru)
  /\ \A k \in DOMAIN cache : cache[k] = Whole(k) /\ cache[k] \in Result

\* The requests, the indices left to compute and the answers so far.
CallSound ==
  /\ at \in {"idle", "lookup", "check", "kernel", "fill", "install", "return"}
  /\ asked \in Seq(Key) /\ pending \in Seq(1..Len(asked)) /\ Len(pending) <= Len(asked)
  /\ single \in BOOLEAN /\ layer \in Nat /\ torn \in BOOLEAN
  /\ \A i, j \in DOMAIN pending : i < j => pending[i] < pending[j]
  /\ DOMAIN answer = DOMAIN asked
  /\ \A i \in DOMAIN answer :
       answer[i] = None \/ (answer[i] = Whole(asked[i]) /\ answer[i] \in Result)
  /\ \A i \in DOMAIN computed : computed[i] = None \/
       (i \in DOMAIN pending /\ computed[i] = Whole(asked[pending[i]]) /\ computed[i] \in Result)
  /\ torn => stopped
  /\ at # "idle" => Ready
  /\ at = "idle" => ~torn /\ asked = << >> /\ computed = << >>

\* How far the call is: nothing computed is handed out before Install.
Answered(n) == {i \in 1..n : answer[pending[i]] # None}
Progress ==
  /\ at \in {"idle", "lookup", "check", "kernel", "fill"} =>
       probes = 0 /\ \A i \in DOMAIN pending : answer[pending[i]] = None
  /\ at = "lookup" =>
       /\ layer <= Len(asked) /\ Len(pending) <= layer
       /\ \A i \in DOMAIN pending : pending[i] <= layer
       /\ \A i \in (layer + 1)..Len(asked) : answer[i] = None
  /\ at \in {"check", "kernel", "fill", "install"} => DOMAIN computed = DOMAIN pending
  /\ at \in {"fill", "install"} => layer \in 1..(Len(pending) + 1)
  /\ at = "install" =>
       /\ \A i \in layer..Len(pending) : answer[pending[i]] = None
       /\ probes = Cardinality(Answered(layer - 1)) /\ probes <= layer - 1
  /\ at = "return" => probes = Cardinality(Answered(Len(pending))) /\ probes <= Len(pending)

IInv == Types /\ StoreSound /\ CallSound /\ Progress

-----------------------------------------------------------------------------
\* Lists of keys.

LEMMA SliceIs ==
  ASSUME NEW s \in Seq(Key), NEW m \in Int, NEW n \in Int, 1 <= m, m <= n + 1, n <= Len(s)
  PROVE  /\ SubSeq(s, m, n) \in Seq(Key) /\ Len(SubSeq(s, m, n)) = n - m + 1
         /\ \A i \in 1..(n - m + 1) : SubSeq(s, m, n)[i] = s[m + i - 1]
<1>1. \A i \in m..n : s[i] \in Key
  BY ElementOfSeq
<1>2. (IF m <= n THEN n - m + 1 ELSE 0) = n - m + 1
  OBVIOUS
<1>3. /\ SubSeq(s, m, n) \in Seq(Key)
      /\ Len(SubSeq(s, m, n)) = IF m <= n THEN n - m + 1 ELSE 0
      /\ \A i \in 1..(n - m + 1) : SubSeq(s, m, n)[i] = s[m + i - 1]
  BY <1>1, SubSeqProperties
<1> QED  BY <1>2, <1>3

\* How a list ends, as the part of it from some place on.
LEMMA EndsIs ==
  ASSUME NEW a \in Seq(Key), NEW b \in Seq(Key), Ends(b, a)
  PROVE  b = SubSeq(a, Len(a) - Len(b) + 1, Len(a))
<1> DEFINE m == Len(a) - Len(b) + 1
           t == SubSeq(a, m, Len(a))
<1>1. Len(a) \in Nat /\ Len(b) \in Nat /\ Len(b) <= Len(a)
  BY DEF Ends
<1>2. m \in Int /\ 1 <= m /\ m <= Len(a) + 1 /\ Len(a) - m + 1 = Len(b) /\ Len(a) \in Int
  BY <1>1
<1> HIDE DEF m
<1>3. t \in Seq(Key) /\ Len(t) = Len(b) /\ \A i \in 1..Len(b) : t[i] = a[m + i - 1]
  BY <1>2, SliceIs
<1> HIDE DEF t
<1>4. \A i \in 1..Len(b) : b[i] = t[i]
  BY <1>1, <1>3 DEF Ends, m
<1>5. b = t
  BY <1>3, <1>4, SeqEqual
<1> QED  BY <1>5 DEF t, m

\* A key that is not in the list is appended; one that is goes from its place to the end.
LEMMA MovedLastIs ==
  ASSUME NEW s, Listing(s), NEW k \in Key
  PROVE  LET m == MovedLast(s, k) IN
         /\ Listing(m) /\ Len(m) \in Nat
         /\ k \notin ToSet(s) =>
              Len(m) = Len(s) + 1 /\ m[Len(s) + 1] = k /\ \A i \in 1..Len(s) : m[i] = s[i]
         /\ \A p \in 1..Len(s) : s[p] = k =>
              /\ Len(m) = Len(s)
              /\ \A i \in 1..Len(s) :
                   m[i] = IF i < p THEN s[i] ELSE IF i < Len(s) THEN s[i + 1] ELSE k
<1> DEFINE m == MovedLast(s, k)
<1>1. s \in Seq(Key) /\ Len(s) \in Nat /\ DOMAIN s = 1..Len(s)
      /\ \A i, j \in 1..Len(s) : s[i] = s[j] => i = j
  BY DEF Listing
<1>2. CASE k \notin ToSet(s)
  <2>1. m = Append(s, k)
    BY <1>2 DEF MovedLast, Without
  <2>2. /\ m \in Seq(Key) /\ Len(m) = Len(s) + 1 /\ m[Len(s) + 1] = k
        /\ \A i \in 1..Len(s) : m[i] = s[i]
    BY <1>1, <2>1, AppendProperties
  <2> HIDE DEF m
  <2>3. \A i \in 1..Len(s) : s[i] # k
    BY <1>1, <1>2 DEF ToSet
  <2>4. DOMAIN m = 1..(Len(s) + 1)
    BY <2>2
  <2>5. \A i, j \in 1..(Len(s) + 1) : m[i] = m[j] => i = j
    <3> SUFFICES ASSUME NEW i \in 1..(Len(s) + 1), NEW j \in 1..(Len(s) + 1), m[i] = m[j]
                 PROVE  i = j
      OBVIOUS
    <3>1. CASE i = Len(s) + 1 \/ j = Len(s) + 1
      BY <1>1, <2>2, <2>3, <3>1
    <3>2. CASE i \in 1..Len(s) /\ j \in 1..Len(s)
      BY <1>1, <2>2, <3>2
    <3> QED  BY <1>1, <3>1, <3>2
  <2>6. Listing(m)
    BY <2>2, <2>4, <2>5 DEF Listing
  <2>7. /\ Listing(m) /\ Len(m) \in Nat /\ Len(m) = Len(s) + 1 /\ m[Len(s) + 1] = k
        /\ \A i \in 1..Len(s) : m[i] = s[i]
        /\ \A q \in 1..Len(s) : s[q] # k
    BY <1>1, <2>2, <2>3, <2>6
  <2> QED  BY <2>7 DEF m
<1>3. CASE k \in ToSet(s)
  <2> DEFINE p == CHOOSE i \in DOMAIN s : s[i] = k
             a == SubSeq(s, 1, p - 1)
             b == SubSeq(s, p + 1, Len(s))
             w == a \o b
  <2>1. p \in 1..Len(s) /\ s[p] = k
    BY <1>1, <1>3 DEF ToSet
  <2>2. m = Append(w, k)
    BY <1>3 DEF MovedLast, Without, RemoveAt
  <2> HIDE DEF p, m
  <2>3. p \in Int /\ 1 <= p /\ p <= Len(s) /\ Len(s) \in Int
    BY <1>1, <2>1
  <2>4. a \in Seq(Key) /\ Len(a) = p - 1 /\ \A i \in 1..(p - 1) : a[i] = s[i]
    <3>1. p - 1 \in Int /\ 1 <= p - 1 + 1 /\ p - 1 <= Len(s) /\ (p - 1) - 1 + 1 = p - 1
      BY <2>3
    <3>2. a \in Seq(Key) /\ Len(a) = (p - 1) - 1 + 1 /\ \A i \in 1..((p - 1) - 1 + 1) : a[i] = s[1 + i - 1]
      BY <1>1, <3>1, SliceIs
    <3> HIDE DEF a
    <3> QED  BY <3>1, <3>2
  <2>5. b \in Seq(Key) /\ Len(b) = Len(s) - p /\ \A i \in 1..(Len(s) - p) : b[i] = s[p + i]
    <3>1. p + 1 \in Int /\ 1 <= p + 1 /\ p + 1 <= Len(s) + 1 /\ Len(s) - (p + 1) + 1 = Len(s) - p
          /\ Len(s) <= Len(s)
      BY <2>3
    <3>2. b \in Seq(Key) /\ Len(b) = Len(s) - (p + 1) + 1
          /\ \A i \in 1..(Len(s) - (p + 1) + 1) : b[i] = s[(p + 1) + i - 1]
      <4> DEFINE q == p + 1
                 l == Len(s)
      <4>1. q \in Int /\ l \in Int /\ 1 <= q /\ q <= l + 1 /\ l <= Len(s)
        BY <2>3
      <4> HIDE DEF q, l
      <4>2. SubSeq(s, q, l) \in Seq(Key) /\ Len(SubSeq(s, q, l)) = l - q + 1
            /\ \A i \in 1..(l - q + 1) : SubSeq(s, q, l)[i] = s[q + i - 1]
        BY <1>1, <4>1, SliceIs
      <4> QED  BY <4>2 DEF q, l
    <3> HIDE DEF b
    <3> QED  BY <2>3, <3>1, <3>2
  <2> HIDE DEF a, b
  <2>6. w \in Seq(Key) /\ Len(w) = Len(s) - 1
        /\ \A i \in 1..(Len(s) - 1) : w[i] = IF i < p THEN s[i] ELSE s[i + 1]
    <3>1. w \in Seq(Key) /\ Len(w) = Len(a) + Len(b)
          /\ \A i \in 1..(Len(a) + Len(b)) : w[i] = IF i <= Len(a) THEN a[i] ELSE b[i - Len(a)]
      BY <2>4, <2>5, ConcatProperties
    <3> HIDE DEF w
    <3>2. ASSUME NEW i \in 1..(Len(s) - 1) PROVE w[i] = IF i < p THEN s[i] ELSE s[i + 1]
      <4>1. w[i] = IF i <= p - 1 THEN a[i] ELSE b[i - (p - 1)]
        BY <2>3, <2>4, <2>5, <3>1
      <4>2. CASE i < p
        BY <2>3, <2>4, <4>1, <4>2
      <4>3. CASE ~(i < p)
        <5>1. i - (p - 1) \in 1..(Len(s) - p) /\ p + (i - (p - 1)) = i + 1
          BY <2>3, <4>3
        <5> QED  BY <2>3, <2>5, <4>1, <4>3, <5>1
      <4> QED  BY <4>2, <4>3
    <3> QED  BY <2>3, <2>4, <2>5, <3>1, <3>2
  <2> HIDE DEF w
  <2>7. m \in Seq(Key) /\ Len(m) = Len(s)
        /\ \A i \in 1..Len(s) : m[i] = IF i < p THEN s[i] ELSE IF i < Len(s) THEN s[i + 1] ELSE k
    <3>1. m \in Seq(Key) /\ Len(m) = Len(w) + 1 /\ m[Len(w) + 1] = k /\ \A i \in 1..Len(w) : m[i] = w[i]
      BY <2>2, <2>6, AppendProperties
    <3>2. \A i \in 1..(Len(s) - 1) : m[i] = IF i < p THEN s[i] ELSE s[i + 1]
      BY <2>3, <2>6, <3>1
    <3>3. m[Len(s)] = k /\ Len(m) = Len(s)
      BY <2>3, <2>6, <3>1
    <3> QED  BY <2>1, <2>3, <3>1, <3>2, <3>3
  <2>8. \A i, j \in 1..Len(s) : m[i] = m[j] => i = j
    <3> SUFFICES ASSUME NEW i \in 1..Len(s), NEW j \in 1..Len(s), m[i] = m[j] PROVE i = j
      OBVIOUS
    <3> DEFINE From(x) == IF x < p THEN x ELSE IF x < Len(s) THEN x + 1 ELSE p
    <3>1. \A x \in 1..Len(s) : From(x) \in 1..Len(s) /\ m[x] = s[From(x)]
      BY <2>1, <2>3, <2>7
    <3>2. From(i) = From(j)
      <4> HIDE DEF From
      <4> QED  BY <1>1, <3>1
    <3> QED  BY <2>3, <3>2
  <2>9. Listing(m) /\ Len(m) \in Nat
    BY <1>1, <2>7, <2>8 DEF Listing
  <2>10. \A q \in 1..Len(s) : s[q] = k => q = p
    BY <1>1, <2>1
  <2> QED  BY <1>3, <2>7, <2>9, <2>10 DEF m
<1> QED  BY <1>2, <1>3

\* A use of a cached key moves it to the end of both lists.
LEMMA TouchedEnds ==
  ASSUME NEW r, Listing(r), NEW l, Listing(l), Ends(l, r), NEW k \in Key, k \in ToSet(l)
  PROVE  LET a == MovedLast(l, k)
             b == MovedLast(r, k)
         IN  /\ Listing(a) /\ Listing(b) /\ Ends(a, b)
             /\ Len(a) = Len(l) /\ Len(b) = Len(r) /\ ToSet(a) = ToSet(l)
<1> DEFINE a == MovedLast(l, k)
           b == MovedLast(r, k)
           d == Len(r) - Len(l)
<1>1. /\ l \in Seq(Key) /\ Len(l) \in Nat /\ DOMAIN l = 1..Len(l)
      /\ r \in Seq(Key) /\ Len(r) \in Nat /\ DOMAIN r = 1..Len(r)
  BY DEF Listing
<1>2. d \in Nat /\ d + Len(l) = Len(r) /\ \A i \in 1..Len(l) : l[i] = r[d + i] /\ d + i \in 1..Len(r)
  BY <1>1 DEF Ends
<1> HIDE DEF d
<1>3. PICK p \in 1..Len(l) : l[p] = k
  BY <1>1 DEF ToSet
<1>4. d + p \in 1..Len(r) /\ r[d + p] = k
  BY <1>2, <1>3
<1>5. /\ Listing(a) /\ Len(a) = Len(l)
      /\ \A i \in 1..Len(l) : a[i] = IF i < p THEN l[i] ELSE IF i < Len(l) THEN l[i + 1] ELSE k
  BY <1>3, MovedLastIs
<1>6. /\ Listing(b) /\ Len(b) = Len(r)
      /\ \A i \in 1..Len(r) : b[i] = IF i < d + p THEN r[i] ELSE IF i < Len(r) THEN r[i + 1] ELSE k
  <2> DEFINE q == d + p
  <2>1. q \in 1..Len(r) /\ r[q] = k
    BY <1>4
  <2> HIDE DEF q
  <2>2. /\ Listing(b) /\ Len(b) = Len(r)
        /\ \A i \in 1..Len(r) : b[i] = IF i < q THEN r[i] ELSE IF i < Len(r) THEN r[i + 1] ELSE k
    BY <2>1, MovedLastIs
  <2> QED  BY <2>2 DEF q
<1> HIDE DEF a, b
<1>7. Ends(a, b)
  <2>1. ASSUME NEW i \in 1..Len(l) PROVE a[i] = b[d + i]
    <3>1. a[i] = IF i < p THEN l[i] ELSE IF i < Len(l) THEN l[i + 1] ELSE k
      BY <1>5
    <3>2. b[d + i] = IF d + i < d + p THEN r[d + i] ELSE IF d + i < Len(r) THEN r[d + i + 1] ELSE k
      BY <1>2, <1>6
    <3>3. /\ d + i < d + p <=> i < p
          /\ d + i < Len(r) <=> i < Len(l)
      BY <1>1, <1>2
    <3>4. l[i] = r[d + i]
      BY <1>2
    <3>5. i < Len(l) => l[i + 1] = r[d + i + 1]
      <4>1. i < Len(l) => i + 1 \in 1..Len(l) /\ d + (i + 1) = d + i + 1
        BY <1>1, <1>2
      <4> QED  BY <1>2, <4>1
    <3> QED  BY <3>1, <3>2, <3>3, <3>4, <3>5
  <2>2. Len(a) = Len(l) /\ Len(b) = Len(r) /\ Len(l) <= Len(r) /\ Len(r) - Len(l) = d
    <3>1. Len(l) \in Nat /\ Len(r) \in Nat /\ d \in Nat /\ d + Len(l) = Len(r)
      BY <1>1, <1>2
    <3>2. Len(l) <= Len(r) /\ Len(r) - Len(l) = d
      BY <3>1
    <3> QED  BY <1>5, <1>6, <3>2
  <2> QED  BY <2>1, <2>2 DEF Ends
<1>8. ToSet(a) = ToSet(l)
  <2>1. DOMAIN a = 1..Len(l)
    BY <1>5 DEF Listing
  <2>2. ASSUME NEW i \in 1..Len(l) PROVE \E j \in 1..Len(l) : a[i] = l[j]
    <3>1. i < Len(l) => i + 1 \in 1..Len(l)
      BY <1>1
    <3> QED  BY <1>3, <1>5, <3>1
  <2>3. ASSUME NEW j \in 1..Len(l) PROVE \E i \in 1..Len(l) : a[i] = l[j]
    <3>1. CASE j < p
      BY <1>5, <3>1
    <3>2. CASE j = p
      <4>1. Len(l) \in 1..Len(l) /\ ~(Len(l) < p) /\ ~(Len(l) < Len(l))
        BY <1>1, <1>3
      <4> QED  BY <1>3, <1>5, <3>2, <4>1
    <3>3. CASE j > p
      <4>1. j - 1 \in 1..Len(l) /\ ~(j - 1 < p) /\ j - 1 < Len(l) /\ (j - 1) + 1 = j
        BY <1>1, <1>3, <3>3
      <4>2. a[j - 1] = l[j]
        BY <1>5, <4>1
      <4> QED  BY <4>1, <4>2
    <3> QED  BY <1>1, <1>3, <3>1, <3>2, <3>3
  <2>4. ToSet(a) \subseteq ToSet(l)
    BY <1>1, <2>1, <2>2, ZenonT(30) DEF ToSet
  <2>5. ToSet(l) \subseteq ToSet(a)
    BY <1>1, <2>1, <2>3 DEF ToSet
  <2> QED  BY <2>4, <2>5
<1>9. Listing(a) /\ Listing(b) /\ Ends(a, b) /\ Len(a) = Len(l) /\ Len(b) = Len(r) /\ ToSet(a) = ToSet(l)
  BY <1>5, <1>6, <1>7, <1>8
<1> QED  BY <1>9 DEF a, b

\* A new key takes the place of the one used least recently, once the cache is full.
LEMMA AddedEnds ==
  ASSUME NEW r, Listing(r), NEW l, Listing(l), Ends(l, r), NEW k \in Key, k \notin ToSet(l),
         NEW c \in Nat \ {0}, Len(l) = IF Len(r) < c THEN Len(r) ELSE c
  PROVE  LET excess == IF Len(l) >= c THEN Len(l) - c + 1 ELSE 0
             rest == SubSeq(l, excess + 1, Len(l))
             a == Append(rest, k)
             b == MovedLast(r, k)
         IN  /\ Listing(a) /\ Listing(b) /\ Ends(a, b) /\ Len(a) = IF Len(b) < c THEN Len(b) ELSE c
             /\ ToSet(a) = ToSet(rest) \cup {k} /\ ToSet(rest) \subseteq ToSet(l)
<1> DEFINE excess == IF Len(l) >= c THEN Len(l) - c + 1 ELSE 0
           rest == SubSeq(l, excess + 1, Len(l))
           a == Append(rest, k)
           b == MovedLast(r, k)
           d == Len(r) - Len(l)
           n == Len(l) - excess
<1>1. /\ l \in Seq(Key) /\ Len(l) \in Nat /\ DOMAIN l = 1..Len(l)
      /\ r \in Seq(Key) /\ Len(r) \in Nat /\ DOMAIN r = 1..Len(r)
  BY DEF Listing
<1>n. Len(l) \in Nat /\ Len(r) \in Nat
  BY <1>1
<1>0. d \in Nat /\ d + Len(l) = Len(r)
  BY <1>n DEF Ends
<1>2. \A i \in 1..Len(l) : l[i] = r[d + i] /\ d + i \in 1..Len(r) /\ l[i] # k
  <2>1. \A i \in 1..Len(l) : l[i] = r[d + i]
    BY DEF Ends
  <2> HIDE DEF d
  <2>2. \A i \in 1..Len(l) : d + i \in 1..Len(r)
    BY <1>0, <1>n
  <2>3. \A i \in 1..Len(l) : l[i] # k
    BY <1>1 DEF ToSet
  <2> QED  BY <2>1, <2>2, <2>3
<1> HIDE DEF d
<1>3. excess \in {0, 1} /\ excess <= Len(l) /\ (excess = 1 => Len(l) = c)
      /\ (excess = 0 => Len(l) < c /\ d = 0 /\ Len(l) = Len(r))
  <2>1. Len(l) \in Nat /\ Len(r) \in Nat /\ c \in Nat /\ c >= 1 /\ Len(l) <= c
    BY <1>n
  <2>2. CASE Len(l) >= c
    BY <1>0, <2>1, <2>2
  <2>3. CASE ~(Len(l) >= c)
    BY <1>0, <2>1, <2>3
  <2> QED  BY <2>2, <2>3
<1> HIDE DEF excess
<1>4. n \in Nat /\ n <= Len(l) /\ n + excess = Len(l) /\ n + 1 <= c /\ Len(l) - (excess + 1) + 1 = n
      /\ (excess = 1 => n + 1 = c) /\ (excess = 0 => n = Len(l))
  BY <1>n, <1>3
<1> HIDE DEF n
<1>5. /\ rest \in Seq(Key) /\ Len(rest) = n
      /\ \A i \in 1..n : rest[i] = l[excess + i]
  <2> DEFINE x == excess + 1
             y == Len(l)
  <2>1. x \in Int /\ y \in Int /\ 1 <= x /\ x <= y + 1 /\ y <= Len(l) /\ y - x + 1 = n
    BY <1>n, <1>3, <1>4
  <2>2. \A i \in 1..n : x + i - 1 = excess + i
    BY <1>3, <1>4
  <2> HIDE DEF x, y
  <2>3. SubSeq(l, x, y) \in Seq(Key) /\ Len(SubSeq(l, x, y)) = n
        /\ \A i \in 1..n : SubSeq(l, x, y)[i] = l[x + i - 1]
    BY <1>1, <2>1, SliceIs
  <2> QED  BY <2>2, <2>3 DEF x, y
<1> HIDE DEF rest
<1>6. \A i \in 1..n : excess + i \in 1..Len(l) /\ rest[i] = r[d + excess + i]
      /\ d + excess + i \in 1..Len(r) /\ rest[i] # k
  <2>1. ASSUME NEW i \in 1..n PROVE excess + i \in 1..Len(l) /\ d + (excess + i) = d + excess + i
    BY <1>n, <1>0, <1>3, <1>4
  <2> QED  BY <1>2, <1>5, <2>1
<1>7. /\ a \in Seq(Key) /\ Len(a) = n + 1 /\ a[n + 1] = k /\ DOMAIN a = 1..(n + 1)
      /\ \A i \in 1..n : a[i] = rest[i]
  BY <1>5, AppendProperties
<1> HIDE DEF a
<1>8. Listing(a)
  <2>1. \A i, j \in 1..(n + 1) : a[i] = a[j] => i = j
    <3> SUFFICES ASSUME NEW i \in 1..(n + 1), NEW j \in 1..(n + 1), a[i] = a[j] PROVE i = j
      OBVIOUS
    <3>1. CASE i = n + 1 \/ j = n + 1
      <4>1. \A x \in 1..n : a[x] # k
        BY <1>6, <1>7
      <4>2. a[n + 1] = k /\ n \in Nat
        BY <1>4, <1>7
      <4>3. i \in 1..n => FALSE
        BY <3>1, <4>1, <4>2
      <4>4. j \in 1..n => FALSE
        BY <3>1, <4>1, <4>2
      <4> QED  BY <4>2, <4>3, <4>4
    <3>2. CASE i \in 1..n /\ j \in 1..n
      <4>1. l[excess + i] = l[excess + j] /\ excess + i \in 1..Len(l) /\ excess + j \in 1..Len(l)
        BY <1>5, <1>6, <1>7, <3>2
      <4>2. excess + i = excess + j
        BY <1>1, <4>1 DEF Listing
      <4> QED  BY <1>3, <4>2
    <3> QED  BY <1>4, <3>1, <3>2
  <2> QED  BY <1>7, <2>1 DEF Listing
<1>9. /\ Listing(b) /\ Len(b) \in Nat
      /\ \A i \in 1..n : b[Len(b) - (n + 1) + i] = r[d + excess + i]
      /\ b[Len(b)] = k /\ n + 1 <= Len(b) /\ n + 1 = IF Len(b) < c THEN Len(b) ELSE c
  <2>1. CASE k \notin ToSet(r)
    <3>1. /\ Listing(b) /\ Len(b) = Len(r) + 1 /\ b[Len(r) + 1] = k /\ \A i \in 1..Len(r) : b[i] = r[i]
      BY <2>1, MovedLastIs
    <3> HIDE DEF b
    <3>2. n + 1 <= Len(b) /\ Len(b) - (n + 1) = d + excess
      BY <1>0, <1>n, <1>3, <1>4, <3>1
    <3>3. n + 1 = IF Len(b) < c THEN Len(b) ELSE c
      BY <1>0, <1>n, <1>3, <1>4, <3>1
    <3> QED  BY <1>1, <1>6, <3>1, <3>2, <3>3
  <2>2. CASE k \in ToSet(r)
    <3>1. PICK p \in 1..Len(r) : r[p] = k
      BY <1>1, <2>2 DEF ToSet
    <3>2. /\ Listing(b) /\ Len(b) = Len(r)
          /\ \A i \in 1..Len(r) : b[i] = IF i < p THEN r[i] ELSE IF i < Len(r) THEN r[i + 1] ELSE k
      BY <3>1, MovedLastIs
    <3> HIDE DEF b
    <3>3. p <= d
      <4>1. SUFFICES ASSUME p > d PROVE FALSE
        BY <1>0, <1>n, <3>1
      <4>2. p - d \in 1..Len(l) /\ d + (p - d) = p
        BY <1>0, <1>n, <3>1, <4>1
      <4> QED  BY <1>2, <3>1, <4>2
    <3>4. excess = 1 /\ Len(l) = c /\ n + 1 = c /\ Len(l) = n + 1
      BY <1>0, <1>3, <1>4, <3>1, <3>3
    <3>5. Len(b) - (n + 1) = d /\ n + 1 <= Len(b) /\ Len(b) \in Nat
      BY <1>0, <1>n, <3>2, <3>4
    <3>6. ASSUME NEW i \in 1..n PROVE b[d + i] = r[d + excess + i]
      <4>1. d + i \in 1..Len(r) /\ ~(d + i < p) /\ d + i < Len(r) /\ d + i + 1 = d + excess + i
        BY <1>0, <1>n, <1>4, <3>1, <3>3, <3>4
      <4> QED  BY <3>2, <4>1
    <3>7. b[Len(b)] = k
      BY <1>0, <1>n, <3>1, <3>2, <3>3
    <3>8. n + 1 = IF Len(b) < c THEN Len(b) ELSE c
      BY <3>4, <3>5
    <3> QED  BY <3>2, <3>5, <3>6, <3>7, <3>8
  <2> QED  BY <2>1, <2>2
<1> HIDE DEF b
<1>10. Ends(a, b)
  <2>1. ASSUME NEW i \in 1..(n + 1) PROVE a[i] = b[Len(b) - (n + 1) + i]
    <3>1. CASE i \in 1..n
      BY <1>6, <1>7, <1>9, <3>1
    <3>2. CASE i = n + 1
      <4>1. Len(b) - (n + 1) + i = Len(b)
        BY <1>4, <1>9, <3>2
      <4> QED  BY <1>7, <1>9, <3>2, <4>1
    <3> QED  BY <1>4, <3>1, <3>2
  <2> QED  BY <1>7, <1>9, <2>1 DEF Ends
<1>11. ToSet(rest) \subseteq ToSet(l)
  <2>1. DOMAIN rest = 1..n
    BY <1>5
  <2>2. \A i \in 1..n : rest[i] \in ToSet(l)
    BY <1>1, <1>5, <1>6 DEF ToSet
  <2> QED  BY <2>1, <2>2 DEF ToSet
<1>12. ToSet(a) = ToSet(rest) \cup {k}
  <2>1. DOMAIN rest = 1..n
    BY <1>5
  <2>2. \A i \in 1..n : a[i] \in ToSet(rest)
    BY <1>7, <2>1 DEF ToSet
  <2>3. ToSet(a) \subseteq ToSet(rest) \cup {k}
    BY <1>4, <1>7, <2>2 DEF ToSet
  <2>4. \A i \in 1..n : i \in DOMAIN a
    BY <1>4, <1>7
  <2>5. n + 1 \in DOMAIN a
    BY <1>4, <1>7
  <2>6. ToSet(rest) \subseteq ToSet(a)
    BY <1>7, <2>1, <2>4 DEF ToSet
  <2>7. k \in ToSet(a)
    BY <1>7, <2>5 DEF ToSet
  <2> QED  BY <2>3, <2>6, <2>7
<1>13. Len(a) = IF Len(b) < c THEN Len(b) ELSE c
  BY <1>7, <1>9
<1>14. /\ Listing(a) /\ Listing(b) /\ Ends(a, b) /\ Len(a) = IF Len(b) < c THEN Len(b) ELSE c
       /\ ToSet(a) = ToSet(rest) \cup {k} /\ ToSet(rest) \subseteq ToSet(l)
  BY <1>8, <1>9, <1>10, <1>11, <1>12, <1>13
<1> QED  BY <1>14 DEF a, b, rest, excess

-----------------------------------------------------------------------------
\* The store.

LEMMA EmptyStore ==
  ASSUME Types, EmptyCache, capacity' \in 0..MaxCapacity
  PROVE  StoreSound'
<1>1. Len(<< >>) = 0 /\ << >> \in Seq(Key) /\ DOMAIN << >> = {} /\ ToSet(<< >>) = {}
  BY DEF ToSet
<1>2. Listing(<< >>) /\ Ends(<< >>, << >>)
  BY <1>1 DEF Listing, Ends
<1>3. cache' = << >> /\ lru' = << >> /\ entries' = 0 /\ recency' = << >>
  BY DEF EmptyCache
<1>4. (0 < capacity' \/ 0 = capacity') /\ ~(0 > capacity')
  OBVIOUS
<1>5. 0 = IF 0 < capacity' THEN 0 ELSE capacity'
  BY <1>4
<1> QED  BY <1>1, <1>2, <1>3, <1>5 DEF StoreSound, Listing, Ends

LEMMA TouchStep ==
  ASSUME Types, StoreSound, NEW k \in DOMAIN cache, Touch(k),
         DOMAIN cache' = DOMAIN cache,
         \A c \in DOMAIN cache : cache'[c] = Whole(c) /\ cache'[c] \in Result,
         UNCHANGED <<net, capacity, entries>>
  PROVE  StoreSound'
<1>1. /\ Listing(recency) /\ Listing(lru) /\ Ends(lru, recency) /\ k \in ToSet(lru)
      /\ lru \in Seq(Key)
  BY DEF StoreSound, Listing
<1>2. k \in Key
  <2>1. \E i \in DOMAIN lru : k = lru[i]
    BY <1>1 DEF ToSet
  <2> QED  BY <1>1, <2>1, ElementOfSeq, LenProperties
<1>3. /\ Listing(lru') /\ Listing(recency') /\ Ends(lru', recency')
      /\ Len(lru') = Len(lru) /\ Len(recency') = Len(recency) /\ ToSet(lru') = ToSet(lru)
  BY <1>1, <1>2, TouchedEnds DEF Touch
<1>4. /\ Len(lru') = IF Len(recency') < capacity' THEN Len(recency') ELSE capacity'
      /\ DOMAIN cache' = ToSet(lru') /\ entries' = Len(lru')
  BY <1>3 DEF StoreSound
<1>5. \A c \in DOMAIN cache' : cache'[c] = Whole(c)' /\ cache'[c] \in Result'
  BY DEF Whole, Result
<1> QED  BY <1>3, <1>4, <1>5 DEF StoreSound, Listing, Ends

LEMMA CacheResultStep ==
  ASSUME Types, StoreSound, NEW k \in Key, NEW r \in Result, r = Whole(k), CacheResult(k, r),
         UNCHANGED net
  PROVE  StoreSound' /\ capacity' = capacity
<1>1. CASE capacity = 0 /\ UNCHANGED store
  BY <1>1 DEF store, StoreSound, Listing, Ends, Whole, Result
<1>2. CASE /\ capacity > 0 /\ k \in DOMAIN cache
           /\ cache' = [cache EXCEPT ![k] = r]
           /\ Touch(k)
           /\ UNCHANGED <<capacity, entries>>
  <2>1. DOMAIN cache' = DOMAIN cache /\ \A c \in DOMAIN cache : cache'[c] = Whole(c) /\ cache'[c] \in Result
    BY <1>2 DEF StoreSound
  <2> QED  BY <1>2, <2>1, TouchStep
<1>3. CASE /\ capacity > 0 /\ k \notin DOMAIN cache
           /\ LET excess == IF Len(lru) >= capacity THEN Len(lru) - capacity + 1 ELSE 0
                  rest == SubSeq(lru, excess + 1, Len(lru))
              IN  /\ lru' = Append(rest, k)
                  /\ cache' = [c \in ToSet(rest) \cup {k} |-> IF c = k THEN r ELSE cache[c]]
           /\ entries' = Len(lru')
           /\ recency' = MovedLast(recency, k)
           /\ UNCHANGED capacity
  <2> DEFINE excess == IF Len(lru) >= capacity THEN Len(lru) - capacity + 1 ELSE 0
             rest == SubSeq(lru, excess + 1, Len(lru))
  <2>1. /\ Listing(recency) /\ Listing(lru) /\ Ends(lru, recency) /\ k \notin ToSet(lru)
        /\ capacity \in Nat \ {0} /\ Len(lru) = IF Len(recency) < capacity THEN Len(recency) ELSE capacity
    BY <1>3, LeelaAssumption DEF StoreSound, Types
  <2>2. lru' = Append(rest, k) /\ recency' = MovedLast(recency, k)
        /\ cache' = [c \in ToSet(rest) \cup {k} |-> IF c = k THEN r ELSE cache[c]]
    BY <1>3
  <2>3. /\ Listing(Append(rest, k)) /\ Listing(MovedLast(recency, k))
        /\ Ends(Append(rest, k), MovedLast(recency, k))
        /\ Len(Append(rest, k)) = IF Len(MovedLast(recency, k)) < capacity
                                  THEN Len(MovedLast(recency, k)) ELSE capacity
        /\ ToSet(Append(rest, k)) = ToSet(rest) \cup {k} /\ ToSet(rest) \subseteq ToSet(lru)
    BY <2>1, AddedEnds
  <2> HIDE DEF rest
  <2>4. /\ Listing(lru') /\ Listing(recency') /\ Ends(lru', recency')
        /\ Len(lru') = IF Len(recency') < capacity THEN Len(recency') ELSE capacity
        /\ DOMAIN cache' = ToSet(lru')
    BY <2>2, <2>3
  <2>5. ASSUME NEW c \in DOMAIN cache' PROVE cache'[c] = Whole(c) /\ cache'[c] \in Result
    <3>1. c \in ToSet(rest) \cup {k} /\ cache'[c] = IF c = k THEN r ELSE cache[c]
      BY <2>2
    <3>2. c # k => c \in DOMAIN cache
      BY <2>3, <3>1 DEF StoreSound
    <3> QED  BY <3>1, <3>2 DEF StoreSound
  <2>6. \A c \in DOMAIN cache' : cache'[c] = Whole(c)' /\ cache'[c] \in Result'
    BY <2>5 DEF Whole, Result
  <2> QED  BY <1>3, <2>4, <2>6 DEF StoreSound, Listing, Ends
<1> QED  BY <1>1, <1>2, <1>3 DEF CacheResult

\* What leaves the store and the network alone keeps what is said of them.
LEMMA StoreStays ==
  ASSUME StoreSound, UNCHANGED <<net, store>> PROVE StoreSound'
BY DEF store, StoreSound, Listing, Ends, Whole, Result

-----------------------------------------------------------------------------
\* Options, the stop, and the start of a call.

LEMMA CallStays ==
  ASSUME CallSound, Progress, UNCHANGED <<net, enabled, call>>, torn => stopped'
  PROVE  CallSound' /\ Progress'
<1>1. CallSound'
  BY DEF call, CallSound, Whole, Result, Ready
<1>2. Progress'
  BY DEF call, Progress, Answered
<1> QED  BY <1>1, <1>2

\* No call is in progress: nothing is said about the network.
LEMMA IdleStays ==
  ASSUME CallSound, Progress, at = "idle", UNCHANGED call
  PROVE  CallSound' /\ Progress'
<1>1. asked = << >> /\ computed = << >> /\ ~torn /\ DOMAIN answer = {} /\ DOMAIN computed = {}
  BY DEF CallSound
<1>2. CallSound'
  BY <1>1 DEF call, CallSound
<1>3. Progress'
  BY DEF call, Progress, Answered
<1> QED  BY <1>2, <1>3

LEMMA OptionStep ==
  ASSUME IInv, Load \/ SetEnabled \/ SetCacheCapacity \/ ClearCache
  PROVE  IInv'
<1>1. /\ at = "idle" /\ UNCHANGED <<stopped, call>>
      /\ net' \in Net \cup {NoNet} /\ enabled' \in BOOLEAN /\ capacity' \in 0..MaxCapacity
  BY DEF IInv, Types, Load, SetEnabled, SetCacheCapacity, ClearCache, store
<1>2. Types'
  BY <1>1 DEF IInv, Types
<1>3. CallSound' /\ Progress'
  BY <1>1, IdleStays DEF IInv
<1>4. StoreSound'
  <2>1. CASE SetEnabled
    BY <2>1, StoreStays DEF SetEnabled, IInv
  <2>2. CASE ~SetEnabled
    <3>1. EmptyCache
      BY <2>2 DEF Load, SetCacheCapacity, ClearCache
    <3> QED  BY <1>1, <3>1, EmptyStore DEF IInv
  <2> QED  BY <2>1, <2>2
<1> QED  BY <1>2, <1>3, <1>4 DEF IInv

LEMMA StopStep == ASSUME IInv, Stop \/ NewSearch PROVE IInv'
<1>1. /\ UNCHANGED <<net, enabled, store, call>> /\ stopped' \in BOOLEAN
      /\ stopped' \/ at = "idle"
  BY DEF Stop, NewSearch
<1>2. Types' /\ (torn => stopped')
  BY <1>1 DEF IInv, Types, CallSound, store
<1>3. CallSound' /\ Progress'
  BY <1>1, <1>2, CallStays DEF IInv
<1>4. StoreSound'
  BY <1>1, StoreStays DEF IInv
<1> QED  BY <1>2, <1>3, <1>4 DEF IInv

LEMMA CachedProbeStep == ASSUME IInv, NEW k \in Key, CachedProbe(k) PROVE IInv'
<1>1. UNCHANGED <<net, enabled, capacity, cache, entries, stopped, call>> /\ Touch(k) /\ k \in DOMAIN cache
  BY DEF CachedProbe, Cached
<1>2. Types'
  BY <1>1 DEF IInv, Types
<1>3. CallSound' /\ Progress'
  <2>1. torn => stopped'
    BY <1>1 DEF IInv, CallSound
  <2> QED  BY <1>1, <2>1, CallStays DEF IInv
<1>4. DOMAIN cache' = DOMAIN cache /\ \A c \in DOMAIN cache : cache'[c] = Whole(c) /\ cache'[c] \in Result
  BY <1>1 DEF IInv, StoreSound
<1>5. StoreSound'
  BY <1>1, <1>4, TouchStep DEF IInv
<1> QED  BY <1>2, <1>3, <1>5 DEF IInv

LEMMA BeginStep ==
  ASSUME IInv, NEW keys \in Seq(Key), NEW one \in BOOLEAN, Call(keys, one)
  PROVE  IInv'
<1>1. /\ UNCHANGED <<net, enabled, store, stopped>> /\ Ready
      /\ at' = "lookup" /\ asked' = keys /\ single' = one
      /\ answer' = [i \in DOMAIN keys |-> None]
      /\ computed' = << >> /\ pending' = << >> /\ layer' = 0 /\ torn' = FALSE /\ probes' = 0
  BY DEF Call
<1>2. Types'
  BY <1>1 DEF IInv, Types, store
<1>3. StoreSound'
  BY <1>1, StoreStays DEF IInv
<1>4. Len(keys) \in Nat /\ Len(<< >>) = 0 /\ << >> \in Seq(1..Len(keys)) /\ DOMAIN << >> = {}
  OBVIOUS
<1>5. CallSound'
  <2>1. /\ asked' \in Seq(Key) /\ pending' \in Seq(1..Len(asked')) /\ Len(pending') <= Len(asked')
        /\ DOMAIN pending' = {} /\ DOMAIN computed' = {} /\ DOMAIN answer' = DOMAIN asked'
        /\ \A i \in DOMAIN answer' : answer'[i] = None
    BY <1>1, <1>4
  <2>2. Ready' /\ single' \in BOOLEAN /\ layer' \in Nat /\ torn' = FALSE
    BY <1>1 DEF Ready
  <2>3. \A i \in DOMAIN answer' :
          answer'[i] = None' \/ (answer'[i] = Whole(asked[i])' /\ answer'[i] \in Result')
    BY <2>1 DEF None
  <2> QED  BY <1>1, <2>1, <2>2, <2>3 DEF CallSound
<1>6. Progress'
  <2>1. DOMAIN keys = 1..Len(keys) /\ \A i \in 1..Len(keys) : answer'[i] = None
    BY <1>1
  <2>2. DOMAIN pending' = {} /\ Len(pending') = 0
    BY <1>1, <1>4
  <2>3. \A i \in (layer + 1)'..Len(asked') : answer'[i] = None'
    BY <1>1, <1>4, <2>1 DEF None
  <2> QED  BY <1>1, <1>4, <2>2, <2>3 DEF Progress
<1> QED  BY <1>2, <1>3, <1>5, <1>6 DEF IInv

-----------------------------------------------------------------------------
\* The steps of a call.

\* Steps that hand nothing out yet.
LEMMA WorkStays ==
  ASSUME IInv, at # "idle", at' \in {"lookup", "check", "kernel", "fill", "install", "return"},
         UNCHANGED <<net, enabled, store, stopped, asked, single, pending, answer>>,
         layer' \in Nat, torn' \in BOOLEAN, torn' => stopped,
         \A i \in DOMAIN computed' : computed'[i] = None \/
           (i \in DOMAIN pending /\ computed'[i] = Whole(asked[pending[i]]) /\ computed'[i] \in Result)
  PROVE  Types' /\ StoreSound' /\ CallSound'
<1>1. Types'
  BY DEF IInv, Types, store
<1>2. StoreSound'
  BY StoreStays DEF IInv
<1>3. \A i \in DOMAIN computed' : computed'[i] = None' \/
        (i \in DOMAIN pending' /\ computed'[i] = Whole(asked[pending[i]])' /\ computed'[i] \in Result')
  BY DEF None, Whole, Result
<1>4. \A i \in DOMAIN answer' :
        answer'[i] = None' \/ (answer'[i] = Whole(asked[i])' /\ answer'[i] \in Result')
  BY DEF IInv, CallSound, None, Whole, Result
<1>5. /\ asked' \in Seq(Key) /\ pending' \in Seq(1..Len(asked')) /\ Len(pending') <= Len(asked')
      /\ \A i, j \in DOMAIN pending' : i < j => pending'[i] < pending'[j]
      /\ DOMAIN answer' = DOMAIN asked' /\ single' \in BOOLEAN /\ Ready'
  BY DEF IInv, CallSound, Ready
<1>6. torn' => stopped'
  OBVIOUS
<1>7. CallSound'
  BY <1>3, <1>4, <1>5, <1>6 DEF CallSound
<1> QED  BY <1>1, <1>2, <1>7

\* What is left to compute: requests, each once, in their order.
LEMMA PendingIs ==
  ASSUME CallSound
  PROVE  /\ Len(asked) \in Nat /\ DOMAIN asked = 1..Len(asked)
         /\ Len(pending) \in Nat /\ DOMAIN pending = 1..Len(pending) /\ DOMAIN answer = 1..Len(asked)
         /\ \A i \in 1..Len(pending) : pending[i] \in 1..Len(asked)
         /\ \A i, j \in 1..Len(pending) : i # j => pending[i] # pending[j]
<1>1. asked \in Seq(Key) /\ pending \in Seq(1..Len(asked))
  BY DEF CallSound
<1>2. Len(asked) \in Nat /\ DOMAIN asked = 1..Len(asked)
      /\ Len(pending) \in Nat /\ DOMAIN pending = 1..Len(pending) /\ DOMAIN answer = 1..Len(asked)
  BY <1>1 DEF CallSound
<1>3. \A i \in 1..Len(pending) : pending[i] \in 1..Len(asked)
  BY <1>1, ElementOfSeq
<1>4. \A i, j \in 1..Len(pending) : i # j => pending[i] # pending[j]
  <2> SUFFICES ASSUME NEW i \in 1..Len(pending), NEW j \in 1..Len(pending), i # j
               PROVE  pending[i] # pending[j]
    OBVIOUS
  <2>1. i < j => pending[i] < pending[j]
    BY <1>2 DEF CallSound
  <2>2. j < i => pending[j] < pending[i]
    BY <1>2 DEF CallSound
  <2> QED  BY <1>2, <1>3, <2>1, <2>2
<1> QED  BY <1>2, <1>3, <1>4

LEMMA NothingAnswered ==
  ASSUME NEW n, \A i \in 1..n : answer[pending[i]] = None
  PROVE  Cardinality(Answered(n)) = 0
<1>1. Answered(n) = {}
  BY DEF Answered
<1> QED  BY <1>1, FS_EmptySet

LEMMA LookupStep == ASSUME IInv, Lookup PROVE IInv'
<1> DEFINE k == asked[layer']
<1>1. /\ at = "lookup" /\ at' = "lookup" /\ layer < Len(asked) /\ layer' = layer + 1
      /\ UNCHANGED <<net, enabled, capacity, stopped, asked, single, torn, computed, probes>>
  BY DEF Lookup
<1>2. /\ CallSound /\ layer \in Nat /\ Len(pending) <= layer /\ probes = 0
      /\ \A i \in 1..Len(pending) : pending[i] <= layer /\ answer[pending[i]] = None
  BY <1>1, PendingIs DEF IInv, CallSound, Progress
<1>3. /\ Len(asked) \in Nat /\ DOMAIN asked = 1..Len(asked)
      /\ Len(pending) \in Nat /\ DOMAIN pending = 1..Len(pending) /\ DOMAIN answer = 1..Len(asked)
      /\ \A i \in 1..Len(pending) : pending[i] \in 1..Len(asked)
      /\ asked \in Seq(Key) /\ pending \in Seq(1..Len(asked)) /\ single \in BOOLEAN
  BY <1>2, PendingIs DEF CallSound
<1>4. layer' \in 1..Len(asked) /\ layer' \in Nat
  BY <1>1, <1>2, <1>3
<1>5. Types'
  BY <1>1 DEF IInv, Types
<1>6. /\ torn' \in BOOLEAN /\ (torn' => stopped') /\ Ready'
  BY <1>1 DEF IInv, CallSound, Ready
<1>8. CASE /\ Cached(k)
           /\ answer' = [answer EXCEPT ![layer'] = cache[k]]
           /\ Touch(k)
           /\ UNCHANGED <<pending, cache, entries>>
  <2>1. k \in DOMAIN cache /\ cache[k] = Whole(k) /\ cache[k] \in Result
    BY <1>8 DEF Cached, IInv, StoreSound
  <2>2. StoreSound'
    <3>1. DOMAIN cache' = DOMAIN cache /\ \A c \in DOMAIN cache : cache'[c] = Whole(c) /\ cache'[c] \in Result
      BY <1>8 DEF IInv, StoreSound
    <3> QED  BY <1>1, <1>8, <2>1, <3>1, TouchStep DEF IInv
  <2>3. DOMAIN answer' = DOMAIN answer /\ answer'[layer'] = Whole(k) /\ answer'[layer'] \in Result
        /\ \A i \in DOMAIN answer : i # layer' => answer'[i] = answer[i]
    BY <1>3, <1>4, <1>8, <2>1
  <2>4. \A i \in DOMAIN answer' :
          answer'[i] = None' \/ (answer'[i] = Whole(asked[i])' /\ answer'[i] \in Result')
    <3>1. \A i \in DOMAIN answer :
            answer'[i] = None \/ (answer'[i] = Whole(asked[i]) /\ answer'[i] \in Result)
      BY <1>2, <2>3 DEF CallSound
    <3> QED  BY <1>1, <2>3, <3>1 DEF Whole, None, Result
  <2>5. CallSound'
    <3>1. pending' = pending /\ asked' = asked /\ DOMAIN answer' = DOMAIN asked'
          /\ single' \in BOOLEAN /\ at' = "lookup"
      BY <1>1, <1>3, <1>8, <2>3
    <3>2. \A i, j \in DOMAIN pending' : i < j => pending'[i] < pending'[j]
      BY <1>2, <3>1 DEF CallSound
    <3>3. Len(pending') <= Len(asked') /\ asked' \in Seq(Key) /\ pending' \in Seq(1..Len(asked'))
      BY <1>2, <3>1 DEF CallSound
    <3>4. \A i \in DOMAIN computed' : computed'[i] = None' \/
            (i \in DOMAIN pending' /\ computed'[i] = Whole(asked[pending[i]])' /\ computed'[i] \in Result')
      BY <1>1, <1>2, <3>1 DEF CallSound, Whole, None, Result
    <3> QED  BY <1>4, <1>6, <2>4, <3>1, <3>2, <3>3, <3>4 DEF CallSound
  <2>6. Progress'
    <3>1. \A i \in DOMAIN pending' : pending'[i] <= layer' /\ answer'[pending'[i]] = None
      BY <1>1, <1>2, <1>3, <1>8, <2>3
    <3>3. \A i \in (layer' + 1)..Len(asked) : answer'[i] = None
      <4>1. \A i \in (layer' + 1)..Len(asked) : i \in (layer + 1)..Len(asked) /\ i # layer' /\ i \in 1..Len(asked)
        BY <1>1, <1>2, <1>3
      <4>2. \A i \in (layer + 1)..Len(asked) : answer[i] = None
        BY <1>1 DEF IInv, Progress
      <4> QED  BY <1>3, <2>3, <4>1, <4>2
    <3>2. probes' = 0 /\ layer' <= Len(asked') /\ Len(pending') <= layer'
      BY <1>1, <1>2, <1>3, <1>8
    <3> QED  BY <1>1, <3>1, <3>2, <3>3 DEF Progress, None
  <2> QED  BY <1>5, <2>2, <2>5, <2>6 DEF IInv
<1>9. CASE /\ pending' = Append(pending, layer')
           /\ UNCHANGED <<answer, cache, lru, entries, recency>>
  <2>1. /\ pending' \in Seq(1..Len(asked)) /\ Len(pending') = Len(pending) + 1
        /\ DOMAIN pending' = 1..(Len(pending) + 1)
        /\ pending'[Len(pending) + 1] = layer' /\ \A i \in 1..Len(pending) : pending'[i] = pending[i]
    BY <1>3, <1>4, <1>9, AppendProperties
  <2>2. StoreSound'
    BY <1>1, <1>9, StoreStays DEF store, IInv
  <2>3. \A i \in DOMAIN answer' :
          answer'[i] = None' \/ (answer'[i] = Whole(asked[i])' /\ answer'[i] \in Result')
    BY <1>1, <1>2, <1>9 DEF CallSound, Whole, None, Result
  <2>4. \A i, j \in DOMAIN pending' : i < j => pending'[i] < pending'[j]
    <3> SUFFICES ASSUME NEW i \in DOMAIN pending', NEW j \in DOMAIN pending', i < j
                 PROVE  pending'[i] < pending'[j]
      OBVIOUS
    <3>1. CASE j = Len(pending) + 1
      <4>1. i \in 1..Len(pending)
        BY <1>3, <2>1, <3>1
      <4>2. pending[i] <= layer /\ pending[i] \in Nat
        BY <1>2, <1>3, <4>1
      <4> QED  BY <1>1, <1>2, <2>1, <3>1, <4>1, <4>2
    <3>2. CASE j # Len(pending) + 1
      <4>1. i \in 1..Len(pending) /\ j \in 1..Len(pending)
        BY <1>3, <2>1, <3>2
      <4> QED  BY <1>2, <1>3, <2>1, <4>1 DEF CallSound
    <3> QED  BY <3>1, <3>2
  <2>5. \A i \in DOMAIN computed' : computed'[i] = None' \/
          (i \in DOMAIN pending' /\ computed'[i] = Whole(asked[pending[i]])' /\ computed'[i] \in Result')
    <3>1. DOMAIN pending \subseteq DOMAIN pending' /\ \A i \in DOMAIN pending : pending'[i] = pending[i]
      BY <1>3, <2>1
    <3>2. \A i \in DOMAIN computed' : computed'[i] = None \/
            (i \in DOMAIN pending /\ computed'[i] = Whole(asked[pending[i]]) /\ computed'[i] \in Result)
      BY <1>1, <1>2 DEF CallSound
    <3> QED  BY <1>1, <3>1, <3>2 DEF Whole, None, Result
  <2>6. CallSound'
    <3>1. Len(pending') <= Len(asked') /\ asked' \in Seq(Key) /\ pending' \in Seq(1..Len(asked'))
          /\ DOMAIN answer' = DOMAIN asked' /\ single' \in BOOLEAN /\ at' = "lookup"
      BY <1>1, <1>2, <1>3, <1>9, <2>1
    <3> QED  BY <1>4, <1>6, <2>3, <2>4, <2>5, <3>1 DEF CallSound
  <2>7. Progress'
    <3>1. \A i \in (layer + 1)..Len(asked) : answer[i] = None
      BY <1>1 DEF IInv, Progress
    <3>2. layer' \in (layer + 1)..Len(asked)
          /\ \A i \in (layer' + 1)..Len(asked) : i \in (layer + 1)..Len(asked)
      BY <1>1, <1>2, <1>3
    <3>3. \A i \in DOMAIN pending' : pending'[i] <= layer' /\ answer'[pending'[i]] = None
      <4> SUFFICES ASSUME NEW i \in 1..(Len(pending) + 1)
                   PROVE  pending'[i] <= layer' /\ answer[pending'[i]] = None
        BY <1>9, <2>1
      <4>1. CASE i = Len(pending) + 1
        BY <1>4, <2>1, <3>1, <3>2, <4>1
      <4>2. CASE i \in 1..Len(pending)
        BY <1>1, <1>2, <1>3, <2>1, <4>2
      <4> QED  BY <1>3, <4>1, <4>2
    <3>4. probes' = 0 /\ layer' <= Len(asked) /\ Len(pending') <= layer'
      BY <1>1, <1>2, <1>3, <2>1
    <3>5. \A i \in (layer' + 1)..Len(asked) : answer'[i] = None
      BY <1>9, <3>1, <3>2
    <3> QED  BY <1>1, <3>3, <3>4, <3>5 DEF Progress, None
  <2> QED  BY <1>5, <2>2, <2>6, <2>7 DEF IInv
<1> QED  BY <1>8, <1>9 DEF Lookup

LEMMA EnterStep == ASSUME IInv, Enter PROVE IInv'
<1>1. /\ at = "lookup" /\ layer' = 1 /\ computed' = [i \in DOMAIN pending |-> None]
      /\ at' = IF pending = << >> THEN "return" ELSE "check"
      /\ UNCHANGED <<net, enabled, store, stopped, asked, single, pending, torn, answer, probes>>
  BY DEF Enter
<1>2. /\ CallSound /\ Len(pending) \in Nat /\ DOMAIN pending = 1..Len(pending) /\ probes = 0
      /\ \A i \in 1..Len(pending) : answer[pending[i]] = None
  BY <1>1, PendingIs DEF IInv, Progress
<1>3. Types' /\ StoreSound' /\ CallSound'
  BY <1>1, <1>2, WorkStays DEF CallSound
<1>4. Progress'
  <2>1. \A i \in DOMAIN pending' : answer'[pending'[i]] = None
    BY <1>1, <1>2
  <2>2. CASE at' = "check"
    BY <1>1, <1>2, <2>1, <2>2 DEF Progress, None
  <2>3. CASE at' = "return"
    <3>1. Cardinality(Answered(Len(pending))) = 0
      BY <1>2, NothingAnswered
    <3>2. Answered(Len(pending))' = Answered(Len(pending))
      BY <1>1 DEF Answered, None
    <3> QED  BY <1>1, <1>2, <2>3, <3>1, <3>2 DEF Progress
  <2> QED  BY <1>1, <2>2, <2>3
<1> QED  BY <1>3, <1>4 DEF IInv

LEMMA CheckStep == ASSUME IInv, Check PROVE IInv'
<1>1. /\ at = "check" /\ at' \in {"fill", "install", "kernel"}
      /\ layer' = IF at' = "kernel" THEN layer ELSE 1
      /\ UNCHANGED <<net, enabled, store, stopped, asked, single, pending, torn, computed, answer, probes>>
  BY DEF Check
<1>2. /\ CallSound /\ Len(pending) \in Nat /\ DOMAIN pending = 1..Len(pending) /\ probes = 0
      /\ \A i \in 1..Len(pending) : answer[pending[i]] = None
      /\ DOMAIN computed = DOMAIN pending
  BY <1>1, PendingIs DEF IInv, Progress
<1>3. Types' /\ StoreSound' /\ CallSound'
  BY <1>1, <1>2, WorkStays DEF CallSound
<1>4. Progress'
  <2>1. \A i \in 1..Len(pending') : answer'[pending'[i]] = None
    BY <1>1, <1>2
  <2>2. CASE at' \in {"fill", "kernel"}
    BY <1>1, <1>2, <2>1, <2>2 DEF Progress, None
  <2>3. CASE at' = "install"
    <3>1. layer' - 1 = 0 /\ probes' = 0 /\ Len(pending') \in Nat
      BY <1>1, <1>2, <2>3
    <3>2. Cardinality(Answered(0)') = 0
      <4>1. Answered(0)' = {}
        BY DEF Answered
      <4> QED  BY <4>1, FS_EmptySet
    <3> QED  BY <1>1, <1>2, <2>1, <2>3, <3>1, <3>2 DEF Progress, None
  <2> QED  BY <1>1, <2>2, <2>3
<1> QED  BY <1>3, <1>4 DEF IInv

LEMMA KernelStep == ASSUME IInv, Kernel PROVE IInv'
<1>1. /\ at = "kernel" /\ at' = "check" /\ layer' = layer + 1 /\ torn' \in {torn, torn \/ stopped}
      /\ UNCHANGED <<net, enabled, store, stopped, asked, single, pending, computed, answer, probes>>
  BY DEF Kernel
<1>2. CallSound /\ layer' \in Nat /\ torn' \in BOOLEAN /\ (torn' => stopped)
  BY <1>1 DEF IInv, CallSound, Types
<1>3. Types' /\ StoreSound' /\ CallSound'
  BY <1>1, <1>2, WorkStays DEF CallSound
<1>4. Progress'
  BY <1>1 DEF IInv, Progress, None
<1> QED  BY <1>3, <1>4 DEF IInv

LEMMA ThrowStep == ASSUME IInv, Throw PROVE IInv'
<1>1. /\ at \in {"kernel", "fill"} /\ at' = "return"
      /\ UNCHANGED <<net, enabled, store, stopped, asked, single, pending, layer, torn, computed, answer, probes>>
  BY DEF Throw
<1>2. /\ CallSound /\ Len(pending) \in Nat /\ probes = 0
      /\ \A i \in 1..Len(pending) : answer[pending[i]] = None
  BY <1>1, PendingIs DEF IInv, Progress
<1>3. Types' /\ StoreSound' /\ CallSound'
  BY <1>1, <1>2, WorkStays DEF CallSound
<1>4. Cardinality(Answered(Len(pending))) = 0 /\ Answered(Len(pending))' = Answered(Len(pending))
  BY <1>1, <1>2, NothingAnswered DEF Answered, None
<1>5. Progress'
  BY <1>1, <1>2, <1>4 DEF Progress
<1> QED  BY <1>3, <1>5 DEF IInv

\* The look in front of a result: a tensor that a stop tore apart is not read.
LEMMA FillStep == ASSUME IInv, Fill PROVE IInv'
<1> DEFINE r == [net |-> net, key |-> asked[pending[layer]], torn |-> torn]
<1>1. /\ at = "fill" /\ at' = "fill" /\ layer <= Len(pending) /\ layer' = layer + 1 /\ ~stopped
      /\ computed' = [computed EXCEPT ![layer] = r]
      /\ UNCHANGED <<net, enabled, store, stopped, asked, single, pending, torn, answer, probes>>
  BY DEF Fill
<1>2. /\ CallSound /\ Len(pending) \in Nat /\ DOMAIN pending = 1..Len(pending) /\ probes = 0
      /\ \A i \in 1..Len(pending) : answer[pending[i]] = None /\ pending[i] \in 1..Len(asked)
      /\ DOMAIN computed = DOMAIN pending /\ layer \in 1..(Len(pending) + 1)
  BY <1>1, PendingIs DEF IInv, Progress
<1>3. layer \in 1..Len(pending) /\ layer' \in 1..(Len(pending) + 1) /\ layer' \in Nat
  BY <1>1, <1>2
<1>4. r = Whole(asked[pending[layer]]) /\ r \in Result
  <2>1. ~torn /\ torn \in BOOLEAN /\ asked \in Seq(Key)
    BY <1>1 DEF IInv, CallSound
  <2>2. torn = FALSE
    BY <2>1
  <2>3. net \in Net
    BY <1>1 DEF IInv, CallSound, Types, Ready
  <2>4. asked[pending[layer]] \in Key
    BY <1>2, <1>3, <2>1, ElementOfSeq
  <2> QED  BY <2>2, <2>3, <2>4 DEF Whole, Result
<1>5. Types' /\ StoreSound' /\ CallSound'
  <2> HIDE DEF r
  <2>1. DOMAIN computed' = DOMAIN computed
        /\ \A i \in DOMAIN computed : computed'[i] = IF i = layer THEN r ELSE computed[i]
    BY <1>1, <1>2, <1>3
  <2>2. \A i \in DOMAIN computed' : computed'[i] = None \/
          (i \in DOMAIN pending /\ computed'[i] = Whole(asked[pending[i]]) /\ computed'[i] \in Result)
    BY <1>2, <1>4, <2>1 DEF CallSound
  <2>3. torn' \in BOOLEAN /\ (torn' => stopped)
    BY <1>1 DEF IInv, CallSound
  <2> QED  BY <1>1, <1>3, <2>2, <2>3, WorkStays
<1>6. Progress'
  <2>1. DOMAIN computed' = DOMAIN pending
    BY <1>1, <1>2
  <2> QED  BY <1>1, <1>2, <1>3, <2>1 DEF Progress, None
<1> QED  BY <1>5, <1>6 DEF IInv

LEMMA FilledStep == ASSUME IInv, Filled PROVE IInv'
<1>1. /\ at = "fill" /\ at' = "install" /\ layer' = 1
      /\ UNCHANGED <<net, enabled, store, stopped, asked, single, pending, torn, computed, answer, probes>>
  BY DEF Filled
<1>2. /\ CallSound /\ Len(pending) \in Nat /\ DOMAIN pending = 1..Len(pending) /\ probes = 0
      /\ \A i \in 1..Len(pending) : answer[pending[i]] = None
      /\ DOMAIN computed = DOMAIN pending
  BY <1>1, PendingIs DEF IInv, Progress
<1>3. Types' /\ StoreSound' /\ CallSound'
  BY <1>1, <1>2, WorkStays DEF CallSound
<1>4. Progress'
  <2>1. \A i \in 1..Len(pending') : answer'[pending'[i]] = None
    BY <1>1, <1>2
  <2>2. layer' - 1 = 0 /\ probes' = 0 /\ Len(pending') \in Nat
    BY <1>1, <1>2
  <2>3. Cardinality(Answered(0)') = 0
    <3>1. Answered(0)' = {}
      BY DEF Answered
    <3> QED  BY <3>1, FS_EmptySet
  <2> QED  BY <1>1, <1>2, <2>1, <2>2, <2>3 DEF Progress, None
<1> QED  BY <1>3, <1>4 DEF IInv

\* One request of the batch: its answer, its place in the cache and its charge go together.
LEMMA InstallStep == ASSUME IInv, Install PROVE IInv'
<1> DEFINE r == computed[layer]
           q == pending[layer]
           old == Answered(layer - 1)
           new == Answered(layer - 1)'
<1>1. /\ at = "install" /\ at' = "install" /\ layer <= Len(pending) /\ layer' = layer + 1
      /\ UNCHANGED <<net, enabled, stopped, asked, single, pending, torn, computed>>
  BY DEF Install
<1>2. /\ CallSound /\ Len(pending) \in Nat /\ DOMAIN pending = 1..Len(pending)
      /\ Len(asked) \in Nat /\ DOMAIN answer = 1..Len(asked) /\ DOMAIN asked = 1..Len(asked)
      /\ \A i \in 1..Len(pending) : pending[i] \in 1..Len(asked)
      /\ \A i, j \in 1..Len(pending) : i # j => pending[i] # pending[j]
  BY PendingIs DEF IInv
<1>3. /\ DOMAIN computed = DOMAIN pending /\ layer \in 1..(Len(pending) + 1)
      /\ \A i \in layer..Len(pending) : answer[pending[i]] = None
      /\ probes = Cardinality(old) /\ probes <= layer - 1
  BY <1>1 DEF IInv, Progress
<1>4. layer \in 1..Len(pending) /\ layer' \in 1..(Len(pending) + 1) /\ layer' \in Nat /\ layer' - 1 = layer
      /\ q \in 1..Len(asked)
  BY <1>1, <1>2, <1>3
<1>5. IsFiniteSet(old) /\ layer \notin old
  <2>1. old \subseteq 1..(layer - 1) /\ layer - 1 \in Int
    BY <1>4 DEF Answered
  <2>2. IsFiniteSet(1..(layer - 1))
    BY <2>1, FS_Interval
  <2> QED  BY <2>1, <2>2, <1>4, FS_Subset
<1>6. Types'
  <2>1. capacity' = capacity
    BY DEF Install, CacheResult, store
  <2> QED  BY <1>1, <2>1 DEF IInv, Types
<1>7. ASSUME StoreSound', DOMAIN answer' = DOMAIN answer,
             \A i \in DOMAIN answer :
               answer'[i] = None \/ (answer'[i] = Whole(asked[i]) /\ answer'[i] \in Result),
             \A i \in 1..Len(pending) : i # layer => answer'[pending[i]] = answer[pending[i]],
             probes' = Cardinality(new), probes' <= layer
      PROVE  IInv'
  <2>1. \A i \in DOMAIN computed' : computed'[i] = None' \/
          (i \in DOMAIN pending' /\ computed'[i] = Whole(asked[pending[i]])' /\ computed'[i] \in Result')
    BY <1>1, <1>2 DEF CallSound, None, Whole, Result
  <2>2. \A i \in DOMAIN answer' :
          answer'[i] = None' \/ (answer'[i] = Whole(asked[i])' /\ answer'[i] \in Result')
    BY <1>1, <1>7 DEF None, Whole, Result
  <2>3. /\ asked' \in Seq(Key) /\ pending' \in Seq(1..Len(asked')) /\ Len(pending') <= Len(asked')
        /\ \A i, j \in DOMAIN pending' : i < j => pending'[i] < pending'[j]
        /\ DOMAIN answer' = DOMAIN asked' /\ single' \in BOOLEAN /\ torn' \in BOOLEAN
        /\ (torn' => stopped') /\ Ready'
    BY <1>1, <1>2, <1>7 DEF CallSound, Ready
  <2>4. CallSound'
    BY <1>1, <1>4, <2>1, <2>2, <2>3 DEF CallSound
  <2>5. \A i \in layer'..Len(pending') : answer'[pending'[i]] = None
    <3>1. \A i \in layer'..Len(pending) : i \in layer..Len(pending) /\ i \in 1..Len(pending) /\ i # layer
      BY <1>1, <1>4
    <3> QED  BY <1>1, <1>3, <1>7, <3>1
  <2>6. Progress'
    <3>1. layer' \in 1..(Len(pending') + 1) /\ DOMAIN computed' = DOMAIN pending' /\ probes' <= layer' - 1
      BY <1>1, <1>3, <1>4, <1>7
    <3>2. \A i \in layer'..Len(pending') : answer'[pending'[i]] = None'
      BY <2>5 DEF None
    <3> QED  BY <1>1, <1>7, <3>1, <3>2 DEF Progress
  <2> QED  BY <1>6, <1>7, <2>4, <2>6 DEF IInv
<1>8. new = {i \in 1..layer : answer'[pending[i]] # None}
  BY <1>1, <1>4 DEF Answered, None
<1> HIDE DEF new
<1>9. CASE /\ r # None
           /\ answer' = [answer EXCEPT ![q] = r] /\ CacheResult(asked[q], r) /\ probes' = probes + 1
  <2>1. r = Whole(asked[q]) /\ r \in Result
    BY <1>2, <1>3, <1>4, <1>9 DEF CallSound
  <2>2. asked[q] \in Key
    BY <1>2, <1>4 DEF CallSound
  <2> HIDE DEF r, q
  <2>3. StoreSound'
    BY <1>1, <1>9, <2>1, <2>2, CacheResultStep DEF IInv
  <2>4. DOMAIN answer' = DOMAIN answer
        /\ \A i \in DOMAIN answer : answer'[i] = IF i = q THEN r ELSE answer[i]
    BY <1>9
  <2>5. \A i \in DOMAIN answer :
          answer'[i] = None \/ (answer'[i] = Whole(asked[i]) /\ answer'[i] \in Result)
    BY <1>2, <2>1, <2>4 DEF CallSound
  <2>6. \A i \in 1..Len(pending) : i # layer => answer'[pending[i]] = answer[pending[i]]
    BY <1>2, <1>4, <2>4 DEF q
  <2>7. answer'[pending[layer]] # None
    BY <1>2, <1>4, <1>9, <2>4 DEF q
  <2>8. new = old \cup {layer}
    <3>1. \A i \in 1..layer : answer'[pending[i]] # None <=> (i \in old \/ i = layer)
      <4> SUFFICES ASSUME NEW i \in 1..layer PROVE answer'[pending[i]] # None <=> (i \in old \/ i = layer)
        OBVIOUS
      <4>1. CASE i = layer
        BY <2>7, <4>1
      <4>2. CASE i # layer
        <5>1. i \in 1..(layer - 1) /\ i \in 1..Len(pending)
          BY <1>4, <4>2
        <5> QED  BY <2>6, <4>2, <5>1 DEF Answered
      <4> QED  BY <4>1, <4>2
    <3>2. old \subseteq 1..layer /\ layer \in 1..layer
      BY <1>4 DEF Answered
    <3> HIDE DEF old
    <3> QED  BY <1>8, <3>1, <3>2
  <2>9. probes' = Cardinality(new) /\ probes' <= layer
    <3> HIDE DEF old
    <3>1. Cardinality(old \cup {layer}) = Cardinality(old) + 1 /\ Cardinality(old) \in Nat
      BY <1>5, FS_AddElement, FS_CardinalityType
    <3> QED  BY <1>3, <1>4, <1>9, <2>8, <3>1
  <2> QED  BY <1>7, <2>3, <2>4, <2>5, <2>6, <2>9
<1>10. CASE UNCHANGED <<store, answer, probes>>
  <2>1. StoreSound'
    BY <1>1, <1>10, StoreStays DEF IInv
  <2>2. new = old
    <3>1. \A i \in 1..layer : answer[pending[i]] # None <=> i \in old
      <4> SUFFICES ASSUME NEW i \in 1..layer PROVE answer[pending[i]] # None <=> i \in old
        OBVIOUS
      <4>1. CASE i = layer
        <5>1. i \in layer..Len(pending)
          BY <1>4, <4>1
        <5> QED  BY <1>3, <1>5, <4>1, <5>1
      <4>2. CASE i # layer
        <5>1. i \in 1..(layer - 1)
          BY <1>4, <4>2
        <5> QED  BY <5>1 DEF Answered
      <4> QED  BY <4>1, <4>2
    <3>2. old \subseteq 1..layer
      BY <1>4 DEF Answered
    <3> HIDE DEF old
    <3> QED  BY <1>8, <1>10, <3>1, <3>2
  <2>3. probes' = Cardinality(new) /\ probes' <= layer
    <3> HIDE DEF old
    <3>1. Cardinality(old) \in Nat
      BY <1>5, FS_CardinalityType
    <3> QED  BY <1>3, <1>4, <1>10, <2>2, <3>1
  <2>4. \A i \in DOMAIN answer :
          answer'[i] = None \/ (answer'[i] = Whole(asked[i]) /\ answer'[i] \in Result)
    BY <1>2, <1>10 DEF CallSound
  <2> QED  BY <1>7, <1>10, <2>1, <2>3, <2>4
<1> QED  BY <1>9, <1>10 DEF Install

LEMMA InstalledStep == ASSUME IInv, Installed PROVE IInv'
<1>1. /\ at = "install" /\ at' = "return" /\ layer > Len(pending)
      /\ UNCHANGED <<net, enabled, store, stopped, asked, single, pending, layer, torn, computed, answer, probes>>
  BY DEF Installed
<1>2. CallSound /\ Len(pending) \in Nat /\ layer \in 1..(Len(pending) + 1) /\ layer - 1 = Len(pending)
  <2>1. CallSound /\ Len(pending) \in Nat /\ layer \in 1..(Len(pending) + 1)
    BY <1>1, PendingIs DEF IInv, Progress
  <2> QED  BY <1>1, <2>1
<1>3. Types' /\ StoreSound' /\ CallSound'
  BY <1>1, <1>2, WorkStays DEF CallSound
<1>4. probes = Cardinality(Answered(Len(pending))) /\ probes <= Len(pending)
  BY <1>1, <1>2 DEF IInv, Progress
<1>5. Answered(Len(pending))' = Answered(Len(pending))
  BY <1>1 DEF Answered, None
<1>6. Progress'
  BY <1>1, <1>4, <1>5 DEF Progress
<1> QED  BY <1>3, <1>6 DEF IInv

LEMMA ReturnStep == ASSUME IInv, Return PROVE IInv'
<1>1. /\ at' = "idle" /\ asked' = << >> /\ single' = FALSE /\ pending' = << >> /\ layer' = 0
      /\ torn' = FALSE /\ computed' = << >> /\ answer' = << >> /\ probes' = 0
      /\ UNCHANGED <<net, enabled, store, stopped>>
  BY DEF Return
<1>2. Types'
  BY <1>1 DEF IInv, Types, store
<1>3. StoreSound'
  BY <1>1, StoreStays DEF IInv
<1>4. << >> \in Seq(Key) /\ << >> \in Seq(1..0) /\ Len(<< >>) = 0 /\ DOMAIN << >> = {}
  OBVIOUS
<1>5. CallSound'
  <2>1. DOMAIN computed' = {} /\ DOMAIN pending' = {} /\ DOMAIN answer' = {} /\ DOMAIN asked' = {}
        /\ Len(asked') = 0 /\ Len(pending') = 0
    BY <1>1, <1>4
  <2>2. asked' \in Seq(Key) /\ pending' \in Seq(1..Len(asked'))
    BY <1>1, <1>4
  <2>3. torn' = FALSE /\ single' = FALSE /\ layer' = 0 /\ at' = "idle" /\ asked' = << >> /\ computed' = << >>
    BY <1>1
  <2>4. torn' \in BOOLEAN /\ single' \in BOOLEAN /\ ~torn'
    BY <2>3
  <2>5. layer' \in Nat
    BY <2>3
  <2>6. (\A i, j \in DOMAIN pending' : i < j => pending'[i] < pending'[j])
        /\ (\A i \in DOMAIN answer' : FALSE) /\ (\A i \in DOMAIN computed' : FALSE)
    BY <2>1
  <2> QED  BY <2>1, <2>2, <2>3, <2>4, <2>5, <2>6 DEF CallSound
<1>6. Progress'
  BY <1>1, <1>4 DEF Progress
<1> QED  BY <1>2, <1>3, <1>5, <1>6 DEF IInv

LEMMA Initially == Init => IInv
<1> SUFFICES ASSUME Init PROVE IInv
  OBVIOUS
<1>1. << >> \in Seq(Key) /\ << >> \in Seq(1..0) /\ Len(<< >>) = 0 /\ DOMAIN << >> = {} /\ ToSet(<< >>) = {}
  BY DEF ToSet
<1>2. Types
  <2>1. net = NoNet /\ enabled = TRUE /\ stopped = FALSE /\ capacity = MaxCapacity
    BY DEF Init
  <2>2. enabled \in BOOLEAN /\ stopped \in BOOLEAN /\ capacity \in 0..MaxCapacity
    <3>1. enabled \in BOOLEAN /\ stopped \in BOOLEAN
      BY <2>1
    <3>2. capacity \in 0..MaxCapacity
      BY <2>1, LeelaAssumption
    <3> QED  BY <3>1, <3>2
  <2> QED  BY <2>1, <2>2 DEF Types
<1>3. StoreSound
  <2>1. Listing(<< >>) /\ Ends(<< >>, << >>)
    BY <1>1 DEF Listing, Ends
  <2>2. 0 = IF 0 < capacity THEN 0 ELSE capacity
    BY LeelaAssumption DEF Init
  <2> QED  BY <1>1, <2>1, <2>2 DEF Init, StoreSound
<1>4. CallSound
  <2>1. DOMAIN computed = {} /\ DOMAIN pending = {} /\ DOMAIN answer = {} /\ DOMAIN asked = {}
        /\ Len(asked) = 0 /\ Len(pending) = 0
    BY <1>1 DEF Init
  <2>2. asked \in Seq(Key) /\ pending \in Seq(1..Len(asked))
    BY <1>1 DEF Init
  <2>3. torn = FALSE /\ single = FALSE /\ layer = 0 /\ at = "idle" /\ asked = << >> /\ computed = << >>
    BY DEF Init
  <2>4. torn \in BOOLEAN /\ single \in BOOLEAN /\ ~torn
    BY <2>3
  <2>5. layer \in Nat
    BY <2>3
  <2>6. (\A i, j \in DOMAIN pending : i < j => pending[i] < pending[j])
        /\ (\A i \in DOMAIN answer : FALSE) /\ (\A i \in DOMAIN computed : FALSE)
    BY <2>1
  <2> QED  BY <2>1, <2>2, <2>3, <2>4, <2>5, <2>6 DEF CallSound
<1>5. Progress
  BY <1>1 DEF Init, Progress
<1> QED  BY <1>2, <1>3, <1>4, <1>5 DEF IInv

LEMMA NextStep == IInv /\ [Next]_vars => IInv'
<1> SUFFICES ASSUME IInv, [Next]_vars PROVE IInv'
  OBVIOUS
<1>1. CASE Load \/ SetEnabled \/ SetCacheCapacity \/ ClearCache
  BY <1>1, OptionStep
<1>2. CASE Stop \/ NewSearch
  BY <1>2, StopStep
<1>3. CASE CallStep
  BY <1>3, LookupStep, EnterStep, CheckStep, KernelStep, FillStep, FilledStep, InstallStep,
     InstalledStep, ReturnStep DEF CallStep
<1>4. CASE Throw
  BY <1>4, ThrowStep
<1>5. ASSUME NEW k \in Key, CachedProbe(k) \/ Call(<<k>>, TRUE) PROVE IInv'
  <2>1. <<k>> \in Seq(Key)
    OBVIOUS
  <2> QED  BY <1>5, <2>1, CachedProbeStep, BeginStep
<1>6. ASSUME NEW keys \in BoundedSeq(Key, MaxBatch), Call(keys, FALSE) PROVE IInv'
  <2>1. PICK n \in 0..MaxBatch : keys \in [1..n -> Key]
    BY DEF BoundedSeq, SeqOf
  <2>2. keys \in Seq(Key)
    BY <2>1, LeelaAssumption
  <2> QED  BY <1>6, <2>2, BeginStep
<1>7. CASE UNCHANGED vars
  <2>1. UNCHANGED <<net, enabled, store, stopped, call>>
    BY <1>7 DEF vars
  <2>2. Types' /\ (torn => stopped')
    BY <2>1 DEF IInv, Types, CallSound, store
  <2> QED  BY <2>1, <2>2, CallStays, StoreStays DEF IInv
<1> QED  BY <1>1, <1>2, <1>3, <1>4, <1>5, <1>6, <1>7 DEF Next

LEMMA Invariance == Spec => []IInv
BY Initially, NextStep, PTL DEF Spec

-----------------------------------------------------------------------------
\* What the invariant means.

\* Nothing that a stop cut short, that another request of the batch needed or that an
\* earlier network left behind is ever handed out or kept.
THEOREM OnlyWholeAnswers == Spec => []AnswersAreWhole
<1>1. IInv => AnswersAreWhole
  BY DEF IInv, StoreSound, CallSound, AnswersAreWhole, Whole
<1> QED  BY <1>1, Invariance, PTL

\* Every state has its type.
LEMMA Typed == IInv => TypeOK
<1> SUFFICES ASSUME IInv PROVE TypeOK
  OBVIOUS
<1>1. Types /\ StoreSound /\ CallSound /\ Progress
  BY DEF IInv
<1>2. /\ Len(asked) \in Nat /\ DOMAIN asked = 1..Len(asked)
      /\ Len(pending) \in Nat /\ Len(pending) <= Len(asked)
  BY <1>1, PendingIs DEF CallSound
<1>3. lru \in Seq(Key) /\ recency \in Seq(Key) /\ Len(lru) \in Nat /\ Len(recency) \in Nat
  BY <1>1 DEF StoreSound, Listing
<1>4. entries \in 0..MaxCapacity
  <2>1. capacity \in 0..MaxCapacity /\ MaxCapacity \in Nat
    BY <1>1, LeelaAssumption DEF Types
  <2>2. entries = Len(lru) /\ Len(lru) = IF Len(recency) < capacity THEN Len(recency) ELSE capacity
    BY <1>1 DEF StoreSound
  <2> QED  BY <1>3, <2>1, <2>2
<1>5. DOMAIN cache \subseteq Key /\ \A k \in DOMAIN cache : cache[k] \in Result
  <2>1. \A i \in DOMAIN lru : lru[i] \in Key
    BY <1>3
  <2>2. ToSet(lru) \subseteq Key
    BY <2>1 DEF ToSet
  <2> QED  BY <1>1, <2>2 DEF StoreSound
<1>6. probes \in 0..Len(asked)
  <2>1. probes = 0 \/ (at = "install" /\ probes <= layer - 1 /\ probes = Cardinality(Answered(layer - 1))
                       /\ layer \in 1..(Len(pending) + 1))
        \/ (at = "return" /\ probes <= Len(pending) /\ probes = Cardinality(Answered(Len(pending))))
    BY <1>1 DEF CallSound, Progress
  <2>2. ASSUME NEW n \in Nat PROVE Cardinality(Answered(n)) \in Nat
    <3>1. Answered(n) \subseteq 1..n /\ IsFiniteSet(1..n)
      BY FS_Interval DEF Answered
    <3> QED  BY <3>1, FS_Subset, FS_CardinalityType
  <2>3. CASE probes = 0
    BY <1>2, <2>3
  <2>4. CASE probes <= layer - 1 /\ probes = Cardinality(Answered(layer - 1)) /\ layer \in 1..(Len(pending) + 1)
    <3>1. layer - 1 \in Nat /\ layer - 1 <= Len(pending)
      BY <1>2, <2>4
    <3> QED  BY <1>2, <2>2, <2>4, <3>1
  <2>5. CASE probes <= Len(pending) /\ probes = Cardinality(Answered(Len(pending)))
    BY <1>2, <2>2, <2>5
  <2> QED  BY <2>1, <2>3, <2>4, <2>5
<1>7. /\ \A i \in DOMAIN answer : answer[i] \in Result \cup {None}
      /\ \A i \in DOMAIN computed : computed[i] \in Result \cup {None}
  BY <1>1 DEF CallSound
<1>8. pending \in Seq(DOMAIN asked)
  BY <1>1, <1>2 DEF CallSound
<1> QED  BY <1>1, <1>3, <1>4, <1>5, <1>6, <1>7, <1>8 DEF TypeOK, Types, CallSound

\* The cache is always the keys used last, as many as fit, in the order of their last use.
THEOREM KeepsTheRecent == Spec => []CacheIsRecent
<1>1. ASSUME IInv PROVE CacheIsRecent
  <2> DEFINE n == IF Len(recency) < capacity THEN Len(recency) ELSE capacity
  <2>1. StoreSound /\ TypeOK
    BY <1>1, Typed DEF IInv
  <2>2. Len(lru) = n /\ lru = SubSeq(recency, Len(recency) - Len(lru) + 1, Len(recency))
    BY <2>1, EndsIs DEF StoreSound, Listing
  <2>3. lru = SubSeq(recency, Len(recency) - n + 1, Len(recency))
        /\ DOMAIN cache = ToSet(lru) /\ entries = Len(lru)
    BY <2>1, <2>2 DEF StoreSound
  <2> QED  BY <2>1, <2>3 DEF CacheIsRecent
<1> QED  BY <1>1, Invariance, PTL

\* A call that returns has charged for what it computed and handed out, and for nothing else.
THEOREM ChargesWhatItAnswers == Spec => []ChargedForAnswers
<1>1. ASSUME IInv, at = "return" PROVE probes = Cardinality(Computed)
  <2>1. DOMAIN pending = 1..Len(pending)
    BY <1>1, PendingIs DEF IInv
  <2>2. Computed = Answered(Len(pending))
    BY <2>1 DEF Computed, Answered
  <2> QED  BY <1>1, <2>2 DEF IInv, Progress
<1>2. IInv => ChargedForAnswers
  BY <1>1 DEF ChargedForAnswers
<1> QED  BY <1>2, Invariance, PTL

=============================================================================
