-------------------------- MODULE ModernBStar_proofs --------------------------
(***************************************************************************)
(* The proof driver on every game graph, with every budget and every       *)
(* scoring. The first part is the interval arithmetic; the second, what    *)
(* one handler makes of one node's record; the third lifts that to the     *)
(* tree, whose shape is preserved by every step; the last derives what     *)
(* holds between a node and everything below it from what holds between    *)
(* a node and its children.                                                *)
(***************************************************************************)
EXTENDS ModernBStar, FiniteSetTheorems, WellFoundedInduction, TLAPS

-----------------------------------------------------------------------------
\* The interval arithmetic.

(* Turning the board round keeps a corridor well formed.                   *)
LEMMA NegateValid ==
  ASSUME NEW c \in Corridors, Valid(c)
  PROVE  Negate(c) \in Corridors /\ Valid(Negate(c))
BY DEF Corridors, Valid, Negate

(* backup_node never produces an inverted interval, whichever of its three *)
(* cases applies.                                                          *)
THEOREM RefineValid ==
  ASSUME NEW backed \in Corridors, NEW local \in Corridors, NEW full \in BOOLEAN,
         Valid(backed), Valid(local)
  PROVE  Refine(backed, local, full) \in Corridors /\ Valid(Refine(backed, local, full))
<1> DEFINE agreed == Overlap(backed, local)
           hull == Hull(backed, local)
           c == IF Valid(agreed) THEN agreed ELSE hull
<1>1. agreed \in Corridors /\ hull \in Corridors /\ Valid(hull)
  BY DEF Corridors, Overlap, Hull, Lesser, Greater, Valid
<1>2. c \in Corridors /\ Valid(c)
  BY <1>1
<1>3. Hull(c, local) \in Corridors /\ Valid(Hull(c, local))
  <2> HIDE DEF c
  <2> QED
    BY <1>2 DEF Corridors, Hull, Lesser, Greater, Valid
<1> QED
  BY <1>2, <1>3 DEF Refine

(* A partly expanded node never claims more than its local corridor does:  *)
(* deferred candidates retain their influence (manifest, "Frontier").      *)
THEOREM PartialKeepsLocal ==
  ASSUME NEW backed \in Corridors, NEW local \in Corridors, Valid(backed), Valid(local)
  PROVE  Inside(local, Refine(backed, local, FALSE))
<1> DEFINE c == IF Valid(Overlap(backed, local)) THEN Overlap(backed, local) ELSE Hull(backed, local)
<1>1. c \in Corridors
  BY DEF Corridors, Overlap, Hull, Lesser, Greater
<1>2. Inside(local, Hull(c, local))
  <2> HIDE DEF c
  <2> QED
    BY <1>1 DEF Corridors, Hull, Lesser, Greater, Inside
<1> QED
  BY <1>2 DEF Refine

(* A fully expanded node stays between its two sources of evidence: inside *)
(* both when they agree, around both when they contradict each other.      *)
THEOREM FullBetweenSources ==
  ASSUME NEW backed \in Corridors, NEW local \in Corridors, Valid(backed), Valid(local)
  PROVE  LET r == Refine(backed, local, TRUE) IN
         \/ Inside(r, backed) /\ Inside(r, local)
         \/ Inside(backed, r) /\ Inside(local, r)
BY DEF Refine, Corridors, Overlap, Hull, Lesser, Greater, Valid, Inside

(* A leaf corridor that is not a mate never leaves the heuristic band, so  *)
(* it can neither outbid a tablebase result nor look like a mate.          *)
THEOREM LeafBounded ==
  ASSUME NEW low \in Int, NEW high \in Int, low <= high, NEW margin \in Nat
  PROVE  /\ Leaf(low, high, margin) \in Corridors
         /\ Valid(Leaf(low, high, margin))
         /\ ~IsMate(Leaf(low, high, margin).lower)
         /\ ~IsMate(Leaf(low, high, margin).upper)
BY ScaleAssumption DEF Leaf, Clamp, Corridors, Valid, IsMate

(* Verifying an expanded node again keeps its local corridor well formed,  *)
(* and, whatever the score, free of mates.                                 *)
THEOREM WidenedBounded ==
  ASSUME NEW local \in Corridors, Valid(local), NEW score \in Int, NEW margin \in Nat
  PROVE  /\ Widened(local, score, margin) \in Corridors
         /\ Valid(Widened(local, score, margin))
         /\ ~IsMate(Widened(local, score, margin).lower)
         /\ ~IsMate(Widened(local, score, margin).upper)
BY ScaleAssumption DEF Widened, Clamp, Lesser, Greater, Corridors, Valid, IsMate

\* Of finitely many things one has the largest value.
LEMMA Greatest ==
  ASSUME NEW S, IsFiniteSet(S), NEW f \in [S -> Int]
  PROVE  \A A \in SUBSET S : A # {} => \E x \in A : \A y \in A : f[y] <= f[x]
<1> DEFINE HasOne(A) == A # {} => \E x \in A : \A y \in A : f[y] <= f[x]
           Without == {A \in SUBSET S : ~HasOne(A)}
<1>1. IsWellFoundedOn(StrictSubsetOrdering(S), SUBSET S)
  BY FS_FiniteSubsetsOfFinite, FS_StrictSubsetOrderingWellFounded
<1>2. Without = {}
  <2> SUFFICES ASSUME Without # {} PROVE FALSE
    OBVIOUS
  <2>1. PICK A \in Without : \A B \in Without : <<B, A>> \notin StrictSubsetOrdering(S)
    BY <1>1, WFMin
  <2>2. A \in SUBSET S /\ A # {} /\ ~HasOne(A)
    OBVIOUS
  <2>3. PICK a \in A : TRUE
    BY <2>2
  <2>4. A \ {a} \in SUBSET S /\ <<A \ {a}, A>> \in StrictSubsetOrdering(S)
    BY <2>2, <2>3 DEF StrictSubsetOrdering
  <2>5. HasOne(A \ {a})
    BY <2>1, <2>4
  <2>6. \A x \in A : f[x] \in Int
    BY <2>2
  <2>7. CASE A \ {a} = {}
    <3>1. \A y \in A : f[y] <= f[a]
      BY <2>6, <2>7
    <3> QED BY <2>2, <2>3, <3>1
  <2>8. CASE A \ {a} # {}
    <3>1. PICK x \in A \ {a} : \A y \in A \ {a} : f[y] <= f[x]
      BY <2>5, <2>8
    <3>2. CASE f[a] <= f[x]
      BY <2>2, <3>1, <3>2
    <3>3. CASE f[x] < f[a]
      <4>1. \A y \in A : f[y] <= f[a]
        BY <2>6, <3>1, <3>3
      <4> QED BY <2>2, <2>3, <4>1
    <3> QED BY <2>6, <3>1, <3>2, <3>3
  <2> QED BY <2>7, <2>8
<1> QED BY <1>2

\* The best of finitely many moves: each bound is that of one of them, and at least
\* that of every one.
LEMMA BestIs ==
  ASSUME NEW C, IsFiniteSet(C), C # {}, NEW f \in [C -> Corridors], \A c \in C : Valid(f[c]),
         NEW S, \A d : d \in S <=> \E c \in C : d = f[c]
  PROVE  LET b == Best(S) IN
         /\ b \in Corridors /\ Valid(b)
         /\ \A c \in C : f[c].lower <= b.lower /\ f[c].upper <= b.upper
         /\ \E c \in C : b.lower = f[c].lower
         /\ \E c \in C : b.upper = f[c].upper
<1> DEFINE low == {d.lower : d \in S}
           up == {d.upper : d \in S}
           b == Best(S)
<1>1. \A c \in C : f[c].lower \in Int /\ f[c].upper \in Int /\ f[c].lower <= f[c].upper
  BY DEF Corridors, Valid
<1>2. PICK x \in C : \A y \in C : f[y].lower <= f[x].lower
  <2> DEFINE g == [c \in C |-> f[c].lower]
  <2>1. g \in [C -> Int]
    BY <1>1
  <2>2. \E k \in C : \A y \in C : g[y] <= g[k]
    <3> HIDE DEF g
    <3> QED BY <2>1, Greatest
  <2> QED BY <2>2
<1>3. PICK z \in C : \A y \in C : f[y].upper <= f[z].upper
  <2> DEFINE g == [c \in C |-> f[c].upper]
  <2>1. g \in [C -> Int]
    BY <1>1
  <2>2. \E k \in C : \A y \in C : g[y] <= g[k]
    <3> HIDE DEF g
    <3> QED BY <2>1, Greatest
  <2> QED BY <2>2
<1>4. (CHOOSE v \in low : \A c \in S : c.lower <= v) = f[x].lower
  <2>1. \A v \in low : v \in Int
    BY <1>1
  <2>2. f[x].lower \in low /\ \A c \in S : c.lower <= f[x].lower
    BY <1>2
  <2>3. \A v \in low : (\A c \in S : c.lower <= v) => v = f[x].lower
    BY <1>1, <1>2
  <2> HIDE DEF low
  <2> QED BY <2>2, <2>3
<1>5. (CHOOSE v \in up : \A c \in S : c.upper <= v) = f[z].upper
  <2>1. f[z].upper \in up /\ \A c \in S : c.upper <= f[z].upper
    BY <1>3
  <2>2. \A v \in up : (\A c \in S : c.upper <= v) => v = f[z].upper
    BY <1>1, <1>3
  <2> HIDE DEF up
  <2> QED BY <2>1, <2>2
<1>6. b = [lower |-> f[x].lower, upper |-> f[z].upper]
  BY <1>4, <1>5 DEF Best
<1>7. b.lower = f[x].lower /\ b.upper = f[z].upper
  BY <1>6
<1>8. b \in Corridors /\ Valid(b)
  BY <1>1, <1>3, <1>6, <1>7 DEF Corridors, Valid
<1> HIDE DEF b
<1> QED BY <1>2, <1>3, <1>7, <1>8 DEF b

-----------------------------------------------------------------------------
\* The inductive invariant.

\* A node that has children lies above the depth limit, except that the root's
\* moves are materialised in any case.
MayHaveChildren(n) == n = 0 \/ Ply[n] < MaxTreeDepth

\* What holds of a node's record by itself: an unexpanded node is its local
\* corridor, a terminal one is closed, and a mate is never part of a span.
Sound(n, r) ==
  /\ r \in Records
  /\ ~r.interned => r = Absent
  /\ r.next <= Len(Moves[n])
  /\ r.next > 0 => r.expansion # "unexpanded" /\ MayHaveChildren(n)
  /\ r.next = 0 => r.interval = r.local /\ (r.expansion = "unexpanded" \/ r.terminal)
  /\ r.terminal => r.next = 0 /\ r.saturated
  /\ Valid(r.local) /\ Valid(r.interval)
  /\ IsMate(r.local.lower) \/ IsMate(r.local.upper) => IsPoint(r.local)

\* A node is closed for a reason: the game or the tree ends there, or nothing is
\* left to do below.
ClosedFor(T, n) ==
  \/ T[n].terminal
  \/ T[n].next = 0 /\ Ply[n] >= MaxTreeDepth
  \/ Exhausted(T, n)

TreeSound(T) ==
  /\ \A n \in Node : Sound(n, T[n])
  /\ \A n \in Node : Children(T, n) \subseteq Tree(T)
  /\ \A n \in Node : T[n].saturated => ClosedFor(T, n)

\* Whoever disagrees with its children waits in the worklist.
StaleIsQueued == \A n \in Node : BackedUp(node, n) = node[n] \/ n \in queued

\* Before the root is expanded it is all there is.
Opening ==
  phase \in {"baseline", "root"} =>
    /\ Tree(node) = {0} /\ node[0].next = 0 /\ ~node[0].terminal /\ ~node[0].saturated
    /\ queued = {}
    /\ phase = "root" => node[0].fresh /\ node[0].verifiedDepth >= verifyDepth

\* The iteration's leaf, and what was verified of it.
Iterating ==
  /\ phase \in {"verify", "leader", "probe", "rebuild", "expand"} => leaf \in Tree(node) \ {0}
  /\ resolved # {} => phase = "rebuild"
  /\ \A c \in resolved : node[c].interned /\ node[c].leela
  /\ phase \in {"probe", "expand"} \/ (phase = "rebuild" /\ ~node[leaf].leela) =>
       stopped \/ node[leaf].terminal \/ ~NeedsVerification(node[leaf])

Ending ==
  phase \in {"final", "done"} => queued = {} /\ (Infinite => stopped \/ MateProved(node))

IInv ==
  /\ TypeOK
  /\ TreeSound(node)
  /\ BudgetHeld
  /\ StaleIsQueued
  /\ Opening
  /\ Iterating
  /\ Ending

-----------------------------------------------------------------------------
\* One record: what each handler makes of it.

\* The fields a node's relation to its children is about.
SameShape(r, t) ==
  /\ t.interned = r.interned /\ t.expansion = r.expansion /\ t.next = r.next
  /\ t.depth = r.depth /\ t.terminal = r.terminal /\ t.saturated = r.saturated

LEMMA PointIs ==
  ASSUME NEW v \in Int
  PROVE  /\ Point(v) \in Corridors /\ Valid(Point(v)) /\ IsPoint(Point(v))
         /\ Point(v).lower = v /\ Point(v).upper = v
BY DEF Point, Corridors, Valid, IsPoint

LEMMA AbsentSound == \A n \in Node : Sound(n, Absent)
<1>1. Absent \in Records
  BY PointIs, BoundAssumption DEF Absent, Records
<1>2. ~IsMate(0)
  BY ScaleAssumption DEF IsMate
<1>3. \A n \in Node : 0 <= Len(Moves[n])
  BY GraphAssumption
<1> QED BY <1>1, <1>2, <1>3, PointIs DEF Sound, Absent

LEMMA GuessIs ==
  ASSUME NEW g \in Guess
  PROVE  g \in Corridors /\ Valid(g) /\ ~IsMate(g.lower) /\ ~IsMate(g.upper)
<1>1. g \in Corridors /\ Valid(g) /\ -Cap <= g.lower /\ g.upper <= Cap
  BY EvidenceAssumption
<1> QED BY <1>1, ScaleAssumption DEF Corridors, Valid, IsMate

\* A record stays sound if only its evidence changes.
LEMMA SoundEvidence ==
  ASSUME NEW n \in Node, NEW r, Sound(n, r), r.interned,
         NEW t \in Records, SameShape(r, t), Valid(t.local), Valid(t.interval),
         IsMate(t.local.lower) \/ IsMate(t.local.upper) => IsPoint(t.local),
         r.next = 0 => t.interval = t.local
  PROVE  Sound(n, t)
BY DEF Sound, SameShape

LEMMA RebuiltIs ==
  ASSUME NEW n \in Node, NEW r, Sound(n, r), r.interned, NEW g \in Guess
  PROVE  /\ Sound(n, Rebuilt(r, g))
         /\ SameShape(r, Rebuilt(r, g))
         /\ Rebuilt(r, g).leela = r.leela
         /\ Rebuilt(r, g).tactical = r.tactical
         /\ Rebuilt(r, g).verifiedDepth = r.verifiedDepth
<1> DEFINE local == IF r.tactical # NoScore /\ IsMate(r.tactical) THEN Point(r.tactical) ELSE g
           t == [r EXCEPT !.local = local, !.interval = local, !.fresh = @ /\ local = r.local]
<1>1. r \in Records
  BY DEF Sound
<1>2. CASE r.terminal \/ r.expansion # "unexpanded"
  <2>1. Rebuilt(r, g) = r
    BY <1>2 DEF Rebuilt
  <2> QED BY <2>1 DEF SameShape
<1>3. CASE ~(r.terminal \/ r.expansion # "unexpanded")
  <2>1. /\ local \in Corridors /\ Valid(local)
        /\ IsMate(local.lower) \/ IsMate(local.upper) => IsPoint(local)
    <3>1. CASE r.tactical # NoScore /\ IsMate(r.tactical)
      <4>1. r.tactical \in Int
        BY <1>1, <3>1, EvidenceAssumption DEF Records
      <4> QED BY <3>1, <4>1, PointIs
    <3>2. CASE ~(r.tactical # NoScore /\ IsMate(r.tactical))
      BY <3>2, GuessIs
    <3> QED BY <3>1, <3>2
  <2> HIDE DEF local
  <2>2. (r.fresh /\ local = r.local) \in BOOLEAN
    BY <1>1 DEF Records
  <2>3. t \in Records
    BY <1>1, <2>1, <2>2 DEF Records
  <2>4. /\ SameShape(r, t) /\ t.local = local /\ t.interval = local
        /\ t.leela = r.leela /\ t.tactical = r.tactical /\ t.verifiedDepth = r.verifiedDepth
    BY <1>1 DEF Records, SameShape
  <2>5. Rebuilt(r, g) = t
    BY <1>3 DEF Rebuilt, local
  <2> HIDE DEF t
  <2> QED BY <2>1, <2>3, <2>4, <2>5, SoundEvidence
<1> QED BY <1>2, <1>3

LEMMA WithLeelaIs ==
  ASSUME NEW n \in Node, NEW r, Sound(n, r), r.interned, NEW g \in Guess
  PROVE  /\ Sound(n, WithLeela(r, g))
         /\ SameShape(r, WithLeela(r, g))
         /\ WithLeela(r, g).leela
<1> DEFINE t == [r EXCEPT !.leela = TRUE]
<1>1. r \in Records
  BY DEF Sound
<1>2. /\ t \in Records /\ SameShape(r, t) /\ t.local = r.local /\ t.interval = r.interval
      /\ t.leela
  BY <1>1 DEF Records, SameShape
<1> HIDE DEF t
<1>3. Sound(n, t) /\ t.interned
  BY <1>1, <1>2, SoundEvidence DEF Sound, SameShape
<1>4. WithLeela(r, g) = Rebuilt(t, g)
  BY DEF WithLeela, t
<1>5. Sound(n, Rebuilt(t, g)) /\ SameShape(t, Rebuilt(t, g)) /\ Rebuilt(t, g).leela = t.leela
  BY <1>3, RebuiltIs
<1> HIDE DEF SameShape
<1>6. SameShape(r, Rebuilt(t, g))
  BY <1>2, <1>5 DEF SameShape
<1> QED BY <1>2, <1>4, <1>5, <1>6

\* A verification is recorded as fresh, at the epoch's depth.
LEMMA VerifiedIs ==
  ASSUME NEW n \in Node, NEW r, Sound(n, r), r.interned, ~r.terminal,
         NEW s \in Score, NEW g \in Guess, verifyDepth \in 0..MaxVerifyDepth
  PROVE  /\ Sound(n, Verified(r, s, g))
         /\ SameShape(r, Verified(r, s, g))
         /\ Verified(r, s, g).leela = r.leela
         /\ Verified(r, s, g).fresh
         /\ Verified(r, s, g).verifiedDepth = verifyDepth
<1> DEFINE t == [r EXCEPT !.tactical = s, !.verifiedDepth = verifyDepth]
           wide == Widened(r.local, s, 1)
           u == [t EXCEPT !.local = wide]
           w == IF r.expansion = "unexpanded" THEN Rebuilt(t, g) ELSE u
<1>1. r \in Records /\ s \in Int /\ 1 \in Nat
  BY EvidenceAssumption DEF Sound
<1>2. /\ t \in Records /\ SameShape(r, t) /\ t.local = r.local /\ t.interval = r.interval
      /\ t.leela = r.leela /\ t.verifiedDepth = verifyDepth
  BY <1>1 DEF Records, SameShape
<1> HIDE DEF t
<1>3. Sound(n, t) /\ t.interned
  BY <1>1, <1>2, SoundEvidence DEF Sound, SameShape
<1>4. /\ wide \in Corridors /\ Valid(wide)
      /\ IsMate(wide.lower) \/ IsMate(wide.upper) => IsPoint(wide)
  <2>1. r.local \in Corridors /\ Valid(r.local)
    BY <1>1 DEF Records, Sound
  <2> QED BY <1>1, <2>1, WidenedBounded
<1> HIDE DEF wide
<1>5. /\ u \in Records /\ SameShape(t, u) /\ u.local = wide /\ u.interval = t.interval
      /\ u.leela = t.leela /\ u.verifiedDepth = t.verifiedDepth
  BY <1>2, <1>4 DEF Records, SameShape
<1> HIDE DEF u
<1>6. /\ Sound(n, w) /\ SameShape(r, w) /\ w.leela = r.leela /\ w.verifiedDepth = verifyDepth
  <2>1. CASE r.expansion = "unexpanded"
    <3>1. /\ Sound(n, Rebuilt(t, g)) /\ SameShape(t, Rebuilt(t, g))
          /\ Rebuilt(t, g).leela = t.leela /\ Rebuilt(t, g).verifiedDepth = t.verifiedDepth
      BY <1>3, RebuiltIs
    <3>2. SameShape(r, Rebuilt(t, g))
      BY <1>2, <3>1 DEF SameShape
    <3> QED BY <1>2, <2>1, <3>1, <3>2
  <2>2. CASE r.expansion # "unexpanded"
    <3>1. r.next # 0
      BY <2>2 DEF Sound
    <3>2. t.next # 0 /\ Valid(u.interval)
      BY <1>2, <1>3, <1>5, <3>1 DEF Sound, SameShape
    <3>3. Sound(n, u)
      BY <1>3, <1>4, <1>5, <3>2, SoundEvidence
    <3>4. SameShape(r, u)
      BY <1>2, <1>5 DEF SameShape
    <3> QED BY <1>2, <1>5, <2>2, <3>3, <3>4
  <2> QED BY <2>1, <2>2
<1>7. w.interned
  BY <1>6 DEF SameShape
<1> DEFINE v == [w EXCEPT !.fresh = TRUE]
<1>8. Verified(r, s, g) = v
  BY DEF Verified, t, u, wide
<1> HIDE DEF w
<1>9. w \in Records
  BY <1>6 DEF Sound
<1>10. /\ v \in Records /\ SameShape(w, v) /\ v.local = w.local /\ v.interval = w.interval
       /\ v.leela = w.leela /\ v.fresh /\ v.verifiedDepth = w.verifiedDepth
  BY <1>9 DEF Records, SameShape
<1> HIDE DEF v
<1>11. Sound(n, v)
  BY <1>6, <1>7, <1>10, SoundEvidence DEF Sound
<1> QED BY <1>6, <1>8, <1>10, <1>11 DEF SameShape

\* A new node has no children, and is closed only if it is terminal.
LEMMA EvaluatedIs ==
  ASSUME NEW n \in Node, NEW g \in Guess
  PROVE  /\ Sound(n, Evaluated(n, g))
         /\ Evaluated(n, g).interned
         /\ Evaluated(n, g).next = 0
         /\ Evaluated(n, g).expansion = "unexpanded"
         /\ Evaluated(n, g).saturated => Evaluated(n, g).terminal
         /\ Exact[n] = NoScore => ~Evaluated(n, g).saturated /\ ~Evaluated(n, g).terminal
<1> DEFINE r == [Absent EXCEPT !.interned = TRUE]
           p == Point(Exact[n])
           t == [r EXCEPT !.local = p, !.interval = p, !.terminal = TRUE, !.saturated = TRUE]
<1>1. Sound(n, Absent) /\ Absent \in Records
  BY AbsentSound DEF Sound
<1>2. /\ r \in Records /\ r.interned /\ r.next = 0 /\ r.expansion = "unexpanded"
      /\ ~r.saturated /\ ~r.terminal /\ r.local = Absent.local /\ r.interval = Absent.interval
  BY <1>1 DEF Records, Absent
<1>3. Absent.local = Absent.interval /\ Absent.next = 0
  BY DEF Absent
<1> HIDE DEF r
<1>4. Sound(n, r)
  BY <1>1, <1>2, <1>3 DEF Sound
<1>5. CASE Exact[n] = NoScore
  <2>1. Evaluated(n, g) = Rebuilt(r, g)
    BY <1>5 DEF Evaluated, r
  <2> QED BY <1>2, <1>4, <2>1, RebuiltIs DEF SameShape
<1>6. CASE Exact[n] # NoScore
  <2>1. Exact[n] \in Int
    BY <1>6, EvidenceAssumption
  <2>2. p \in Corridors /\ Valid(p) /\ IsPoint(p)
    BY <2>1, PointIs
  <2>3. Evaluated(n, g) = t
    BY <1>6 DEF Evaluated, r
  <2> HIDE DEF p
  <2>4. /\ t \in Records /\ t.interned /\ t.next = 0 /\ t.expansion = "unexpanded"
        /\ t.terminal /\ t.saturated /\ t.local = p /\ t.interval = p
    BY <1>2, <2>2 DEF Records
  <2> HIDE DEF t
  <2>5. 0 <= Len(Moves[n])
    BY GraphAssumption
  <2>6. Sound(n, t)
    BY <2>2, <2>4, <2>5 DEF Sound
  <2> QED BY <1>6, <2>3, <2>4, <2>6
<1> QED BY <1>5, <1>6

-----------------------------------------------------------------------------
\* A node and its children.

LEMMA UpToIs ==
  ASSUME NEW n \in Node, NEW i \in 0..Len(Moves[n])
  PROVE  /\ UpTo(n, i) \subseteq Node /\ IsFiniteSet(UpTo(n, i))
         /\ \A c \in UpTo(n, i) : Ply[c] = Ply[n] + 1
         /\ n \notin UpTo(n, i) /\ 0 \notin UpTo(n, i)
         /\ UpTo(n, i) = {} <=> i = 0
<1>1. Moves[n] \in Seq(Node) /\ Ply \in [Node -> Nat] /\ Ply[0] = 0 /\ 0 \in Node
  BY GraphAssumption
<1>2. \A j \in 1..i : j \in DOMAIN Moves[n]
  BY <1>1
<1>3. \A j \in 1..i : Moves[n][j] \in Node /\ Ply[Moves[n][j]] = Ply[n] + 1
  BY <1>1, <1>2, GraphAssumption
<1>4. UpTo(n, i) \subseteq Node /\ \A c \in UpTo(n, i) : Ply[c] = Ply[n] + 1
  BY <1>3 DEF UpTo
<1>5. IsFiniteSet(UpTo(n, i))
  BY <1>4, FS_Subset, GraphAssumption
<1>6. \A m \in Node : Ply[m] \in Nat
  BY <1>1
<1>7. n \notin UpTo(n, i) /\ 0 \notin UpTo(n, i)
  BY <1>1, <1>4, <1>6
<1>8. UpTo(n, i) = {} <=> i = 0
  <2>1. ASSUME i # 0 PROVE Moves[n][1] \in UpTo(n, i)
    BY <2>1 DEF UpTo
  <2>2. i = 0 => UpTo(n, i) = {}
    BY DEF UpTo
  <2> QED BY <2>1, <2>2
<1> QED BY <1>4, <1>5, <1>7, <1>8

LEMMA ChildrenIs ==
  ASSUME NEW T, NEW n \in Node, Sound(n, T[n])
  PROVE  /\ Children(T, n) \subseteq Node /\ IsFiniteSet(Children(T, n))
         /\ \A c \in Children(T, n) : Ply[c] = Ply[n] + 1
         /\ n \notin Children(T, n) /\ 0 \notin Children(T, n)
         /\ Children(T, n) = {} <=> T[n].next = 0
         /\ Children(T, n) = UpTo(n, T[n].next)
<1>1. T[n].next \in 0..Len(Moves[n])
  <2>1. T[n].next \in Nat /\ T[n].next <= Len(Moves[n])
    BY DEF Sound, Records
  <2>2. Len(Moves[n]) \in Nat
    BY GraphAssumption
  <2> QED BY <2>1, <2>2
<1>2. Children(T, n) = UpTo(n, T[n].next)
  BY DEF Children, UpTo
<1> QED BY <1>1, <1>2, UpToIs

LEMMA SameChildren ==
  ASSUME NEW T, NEW U, NEW n \in Node, U[n].next = T[n].next
  PROVE  Children(U, n) = Children(T, n)
BY DEF Children

\* Every bound that backup computes is a bound of the local corridor or, turned
\* round, of a child's.
LEMMA BackedIntervalIs ==
  ASSUME NEW T, \A m \in Node : Sound(m, T[m]), NEW n \in Node, T[n].next # 0
  PROVE  /\ BackedInterval(T, n) \in Corridors /\ Valid(BackedInterval(T, n))
         /\ \/ BackedInterval(T, n).upper = T[n].local.upper
            \/ \E c \in Children(T, n) : BackedInterval(T, n).upper = -T[c].interval.lower
         /\ \/ BackedInterval(T, n).lower = T[n].local.lower
            \/ \E c \in Children(T, n) : BackedInterval(T, n).lower = -T[c].interval.upper
<1> DEFINE C == Children(T, n)
           f == [c \in C |-> Negate(T[c].interval)]
           S == {Negate(T[c].interval) : c \in C}
           best == Best(S)
           local == T[n].local
           full == T[n].expansion = "full"
<1>1. C \subseteq Node /\ IsFiniteSet(C) /\ C # {}
  BY ChildrenIs
<1>2. \A c \in C : T[c].interval \in Corridors /\ Valid(T[c].interval)
  BY <1>1 DEF Sound, Records
<1>3. f \in [C -> Corridors] /\ \A c \in C : Valid(f[c])
  BY <1>2, NegateValid
<1>4. \A c \in C : f[c].lower = -T[c].interval.upper /\ f[c].upper = -T[c].interval.lower
  BY DEF Negate
<1>5. local \in Corridors /\ Valid(local) /\ full \in BOOLEAN
  BY DEF Sound, Records
<1>6. \A d : d \in S <=> \E c \in C : d = f[c]
  OBVIOUS
<1>7. BackedInterval(T, n) = Refine(best, local, full)
  BY DEF BackedInterval
<1> HIDE DEF C, f, S, local, full
<1>8. /\ best \in Corridors /\ Valid(best)
      /\ \E c \in C : best.lower = f[c].lower
      /\ \E c \in C : best.upper = f[c].upper
  BY <1>1, <1>3, <1>6, BestIs
<1> HIDE DEF best
<1>9. Refine(best, local, full) \in Corridors /\ Valid(Refine(best, local, full))
  BY <1>5, <1>8, RefineValid
<1>10. /\ Refine(best, local, full).upper \in {best.upper, local.upper}
       /\ Refine(best, local, full).lower \in {best.lower, local.lower}
  BY <1>5, <1>8 DEF Refine, Overlap, Hull, Greater, Lesser
<1> QED BY <1>4, <1>7, <1>8, <1>9, <1>10 DEF C, local

LEMMA DeepestIs ==
  ASSUME NEW T, \A m \in Node : Sound(m, T[m]), NEW n \in Node, T[n].next # 0
  PROVE  Deepest(T, Children(T, n)) \in Nat
<1> DEFINE C == Children(T, n)
           g == [c \in C |-> T[c].depth]
           D == {T[c].depth : c \in C}
<1>1. C \subseteq Node /\ IsFiniteSet(C) /\ C # {}
  BY ChildrenIs
<1>2. \A c \in C : T[c].depth \in Nat
  BY <1>1 DEF Sound, Records
<1>3. g \in [C -> Int]
  BY <1>2
<1> HIDE DEF C
<1>4. PICK x \in C : \A y \in C : T[y].depth <= T[x].depth
  <2>1. \E x \in C : \A y \in C : g[y] <= g[x]
    <3> HIDE DEF g
    <3> QED BY <1>1, <1>3, Greatest
  <2> QED BY <2>1
<1>5. T[x].depth \in D /\ \A c \in C : T[c].depth <= T[x].depth
  BY <1>4
<1>6. D \subseteq Nat
  BY <1>2
<1>7. Deepest(T, C) \in D
  <2> HIDE DEF D
  <2>1. \E d \in D : \A c \in C : T[c].depth <= d
    BY <1>5
  <2>2. (CHOOSE d \in D : \A c \in C : T[c].depth <= d) \in D
    BY <2>1
  <2> QED BY <2>2 DEF Deepest, D
<1> QED BY <1>6, <1>7 DEF C

\* A node that agrees with its children.
Settled(T, n) ==
  \/ T[n].expansion = "unexpanded" \/ Children(T, n) = {}
  \/ /\ T[n].interval = BackedInterval(T, n)
     /\ T[n].depth = 1 + Deepest(T, Children(T, n))
     /\ T[n].saturated = Exhausted(T, n)

LEMMA SettledIs ==
  ASSUME NEW T, NEW n \in Node, T[n] \in Records
  PROVE  BackedUp(T, n) = T[n] <=> Settled(T, n)
<1>1. CASE T[n].expansion = "unexpanded" \/ Children(T, n) = {}
  BY <1>1 DEF BackedUp, Settled
<1>2. CASE ~(T[n].expansion = "unexpanded" \/ Children(T, n) = {})
  <2> DEFINE i == BackedInterval(T, n)
             d == 1 + Deepest(T, Children(T, n))
             s == Exhausted(T, n)
  <2>1. BackedUp(T, n) = [T[n] EXCEPT !.interval = i, !.depth = d, !.saturated = s]
    BY <1>2 DEF BackedUp
  <2>2. Settled(T, n) <=> T[n].interval = i /\ T[n].depth = d /\ T[n].saturated = s
    BY <1>2 DEF Settled
  <2> HIDE DEF i, d, s
  <2>3. ASSUME T[n].interval = i, T[n].depth = d, T[n].saturated = s
        PROVE  [T[n] EXCEPT !.interval = i, !.depth = d, !.saturated = s] = T[n]
    BY <2>3 DEF Records
  <2>4. ASSUME [T[n] EXCEPT !.interval = i, !.depth = d, !.saturated = s] = T[n]
        PROVE  T[n].interval = i /\ T[n].depth = d /\ T[n].saturated = s
    BY <2>4 DEF Records
  <2> QED BY <2>1, <2>2, <2>3, <2>4
<1> QED BY <1>1, <1>2

\* Whether it does depends on its shape and corridors, and its children's.
LEMMA SettledStays ==
  ASSUME NEW T, NEW U, NEW n \in Node, Settled(T, n),
         SameShape(T[n], U[n]), U[n].local = T[n].local, U[n].interval = T[n].interval,
         \A c \in Children(T, n) : SameShape(T[c], U[c]) /\ U[c].interval = T[c].interval
  PROVE  Settled(U, n)
<1> DEFINE C == Children(T, n)
<1>1. Children(U, n) = C
  BY SameChildren DEF SameShape
<1>2. {Negate(U[c].interval) : c \in C} = {Negate(T[c].interval) : c \in C}
  OBVIOUS
<1>3. BackedInterval(U, n) = BackedInterval(T, n)
  BY <1>1, <1>2 DEF BackedInterval, SameShape
<1>4. {U[c].depth : c \in C} = {T[c].depth : c \in C}
  BY DEF SameShape
<1>5. Deepest(U, C) = Deepest(T, C)
  <2>1. \A d : (\A c \in C : U[c].depth <= d) <=> (\A c \in C : T[c].depth <= d)
    BY DEF SameShape
  <2> HIDE DEF C
  <2> QED BY <1>4, <2>1 DEF Deepest
<1>6. Exhausted(U, n) = Exhausted(T, n)
  BY <1>1 DEF Exhausted, Refinable, SameShape
<1> QED BY <1>1, <1>3, <1>5, <1>6 DEF Settled, SameShape

\* What a turn of the worklist makes of a node's record.
LEMMA BackedUpIs ==
  ASSUME NEW T, TreeSound(T), NEW n \in Node
  PROVE  LET r == BackedUp(T, n) IN
         /\ Sound(n, r)
         /\ r.interned = T[n].interned /\ r.expansion = T[n].expansion /\ r.next = T[n].next
         /\ r.terminal = T[n].terminal /\ r.local = T[n].local /\ r.leela = T[n].leela
         /\ r.tactical = T[n].tactical /\ r.fresh = T[n].fresh
         /\ r.verifiedDepth = T[n].verifiedDepth
         /\ T[n].saturated => r.saturated
         /\ r.saturated => T[n].saturated \/ Exhausted(T, n)
<1>1. \A m \in Node : Sound(m, T[m])
  BY DEF TreeSound
<1>2. T[n] \in Records
  BY <1>1 DEF Sound
<1>3. CASE T[n].expansion = "unexpanded" \/ Children(T, n) = {}
  BY <1>1, <1>3 DEF BackedUp
<1>4. CASE ~(T[n].expansion = "unexpanded" \/ Children(T, n) = {})
  <2> DEFINE i == BackedInterval(T, n)
             d == 1 + Deepest(T, Children(T, n))
             s == Exhausted(T, n)
             r == [T[n] EXCEPT !.interval = i, !.depth = d, !.saturated = s]
  <2>1. T[n].next # 0
    BY <1>1, <1>4, ChildrenIs
  <2>2. i \in Corridors /\ Valid(i)
    BY <1>1, <2>1, BackedIntervalIs
  <2>3. d \in Nat
    BY <1>1, <2>1, DeepestIs
  <2>4. s \in BOOLEAN
    BY DEF Exhausted
  <2>5. ~T[n].terminal /\ T[n].interned
    <3>1. Absent.next = 0
      BY DEF Absent
    <3> QED BY <1>1, <2>1, <3>1 DEF Sound
  <2>6. T[n].saturated => s
    BY <2>1, <2>5 DEF TreeSound, ClosedFor
  <2>7. BackedUp(T, n) = r
    BY <1>4 DEF BackedUp
  <2>8. s => Exhausted(T, n)
    OBVIOUS
  <2> HIDE DEF i, d, s
  <2>9. /\ r \in Records /\ r.interned = T[n].interned /\ r.expansion = T[n].expansion
        /\ r.next = T[n].next /\ r.terminal = T[n].terminal /\ r.local = T[n].local
        /\ r.leela = T[n].leela /\ r.tactical = T[n].tactical /\ r.fresh = T[n].fresh
        /\ r.verifiedDepth = T[n].verifiedDepth /\ r.interval = i /\ r.saturated = s
    BY <1>2, <2>2, <2>3, <2>4 DEF Records
  <2> HIDE DEF r
  <2>10. Sound(n, r)
    BY <1>1, <2>1, <2>2, <2>5, <2>9 DEF Sound
  <2> QED BY <2>6, <2>7, <2>8, <2>9, <2>10
<1> QED BY <1>3, <1>4

-----------------------------------------------------------------------------
\* The tree.

\* U comes after T: no node is forgotten or opened again, and each node that is
\* closed was closed before, without new children since, or is closed for a reason.
LEMMA TreeSoundLater ==
  ASSUME NEW T, TreeSound(T), NEW U,
         \A n \in Node : Sound(n, U[n]) /\ Children(U, n) \subseteq Tree(U),
         \A n \in Node : ~Refinable(T, n) => ~Refinable(U, n),
         \A n \in Node : U[n].saturated =>
           \/ ClosedFor(U, n)
           \/ /\ T[n].saturated /\ U[n].next = T[n].next
              /\ T[n].terminal => U[n].terminal
              /\ T[n].expansion = "full" => U[n].expansion = "full"
  PROVE  TreeSound(U)
<1> SUFFICES ASSUME NEW n \in Node, U[n].saturated PROVE ClosedFor(U, n)
  BY DEF TreeSound
<1>1. CASE ~ClosedFor(U, n)
  <2>1. /\ T[n].saturated /\ U[n].next = T[n].next
        /\ T[n].terminal => U[n].terminal
        /\ T[n].expansion = "full" => U[n].expansion = "full"
    BY <1>1
  <2>2. ClosedFor(T, n)
    BY <2>1 DEF TreeSound
  <2>3. Exhausted(T, n) => Exhausted(U, n)
    <3>1. Children(U, n) = Children(T, n) /\ Children(T, n) \subseteq Node
      BY <2>1, SameChildren DEF TreeSound, Tree
    <3> QED BY <2>1, <3>1 DEF Exhausted
  <2> QED BY <2>1, <2>2, <2>3 DEF ClosedFor
<1> QED BY <1>1

\* One node gets a new record and no new children.
LEMMA OneChanged ==
  ASSUME NEW T \in [Node -> Records], TreeSound(T), NEW x \in Tree(T), NEW r,
         Sound(x, r), r.interned, r.next = T[x].next,
         T[x].expansion = "full" => r.expansion = "full",
         T[x].terminal => r.terminal, T[x].saturated => r.saturated,
         r.saturated => T[x].saturated \/ r.terminal \/ Exhausted(T, x)
                        \/ (r.next = 0 /\ Ply[x] >= MaxTreeDepth)
  PROVE  LET U == [T EXCEPT ![x] = r] IN
         /\ U \in [Node -> Records] /\ TreeSound(U) /\ Tree(U) = Tree(T)
         /\ \A n \in Node : ~Refinable(T, n) => ~Refinable(U, n)
<1> DEFINE U == [T EXCEPT ![x] = r]
<1>1. x \in Node /\ T[x].interned
  BY DEF Tree
<1>2. r \in Records
  BY DEF Sound
<1>3. U \in [Node -> Records] /\ U[x] = r /\ \A n \in Node \ {x} : U[n] = T[n]
  BY <1>1, <1>2
<1> HIDE DEF U
<1>4. Tree(U) = Tree(T)
  BY <1>1, <1>3 DEF Tree
<1>5. \A n \in Node : Children(U, n) = Children(T, n)
  BY <1>3, SameChildren
<1>6. \A n \in Node : Sound(n, U[n]) /\ Children(U, n) \subseteq Tree(U)
  BY <1>3, <1>4, <1>5 DEF TreeSound
<1>7. \A n \in Node : ~Refinable(T, n) => ~Refinable(U, n)
  BY <1>3 DEF Refinable
<1>8. ASSUME NEW n \in Node, U[n].saturated
      PROVE  \/ ClosedFor(U, n)
             \/ /\ T[n].saturated /\ U[n].next = T[n].next
                /\ T[n].terminal => U[n].terminal
                /\ T[n].expansion = "full" => U[n].expansion = "full"
  <2>1. CASE n # x
    BY <1>3, <1>8, <2>1
  <2>2. CASE n = x
    <3>1. Exhausted(T, x) => Exhausted(U, x)
      <4>1. Children(T, x) \subseteq Node
        BY <1>1 DEF TreeSound, Tree
      <4> QED BY <1>3, <1>5, <1>7, <4>1, <1>1 DEF Exhausted
    <3> QED BY <1>3, <1>8, <2>2, <3>1 DEF ClosedFor
  <2> QED BY <2>1, <2>2
<1>9. TreeSound(U)
  BY <1>6, <1>7, <1>8, TreeSoundLater
<1> QED BY <1>3, <1>4, <1>7, <1>9 DEF U

\* After a change at x, and new leaves, only x and its parents can disagree with
\* their children.
LEMMA StaleAfter ==
  ASSUME NEW T \in [Node -> Records], TreeSound(T), NEW U \in [Node -> Records], NEW x,
         \A n \in Tree(T) \ {x} : U[n] = T[n],
         \A n \in Node \ (Tree(T) \cup {x}) : U[n].expansion = "unexpanded",
         NEW n \in Node, n \notin {x} \cup Parents(T, x), BackedUp(T, n) = T[n]
  PROVE  BackedUp(U, n) = U[n]
<1>1. U[n] \in Records /\ T[n] \in Records /\ Children(T, n) \subseteq Tree(T)
  BY DEF TreeSound
<1>2. CASE n \in Tree(T)
  <2>1. U[n] = T[n]
    BY <1>2
  <2>2. \A c \in Children(T, n) : U[c] = T[c]
    BY <1>1 DEF Parents
  <2>3. Settled(T, n)
    BY <1>1, SettledIs
  <2>4. Settled(U, n)
    BY <2>1, <2>2, <2>3, SettledStays DEF SameShape
  <2> QED BY <1>1, <2>4, SettledIs
<1>3. CASE n \notin Tree(T)
  <2>1. U[n].expansion = "unexpanded"
    BY <1>3
  <2> QED BY <2>1 DEF BackedUp
<1> QED BY <1>2, <1>3

\* What expand_node does to the tree.
LEMMA ExpandedIs ==
  ASSUME NEW T \in [Node -> Records], TreeSound(T), NEW n \in Tree(T),
         Refinable(T, n), T[n].expansion # "full", MayHaveChildren(n),
         NEW i \in T[n].next..Len(Moves[n]), NEW g,
         \A m \in UpTo(n, i) \ Tree(T) : g[m] \in Guess
  PROVE  LET U == Expanded(T, n, i, g) IN
         /\ U \in [Node -> Records] /\ TreeSound(U) /\ Tree(U) = Tree(T) \cup UpTo(n, i)
         /\ \A m \in Tree(T) \ {n} : U[m] = T[m]
         /\ \A m \in Node \ Tree(T) : U[m].expansion = "unexpanded" /\ U[m].next = 0
         /\ \A m \in Node : ~Refinable(T, m) => ~Refinable(U, m)
         /\ U[n].leela = T[n].leela /\ U[n].fresh = T[n].fresh
         /\ ~U[n].saturated /\ U[n].next = i
<1> DEFINE U == Expanded(T, n, i, g)
           state == IF i = 0 THEN "unexpanded" ELSE IF i = Len(Moves[n]) THEN "full" ELSE "partial"
           r == [T[n] EXCEPT !.next = i, !.expansion = state, !.saturated = (state = "full" /\ @)]
<1>1. n \in Node /\ T[n].interned /\ \A m \in Node : Sound(m, T[m])
  BY DEF Tree, TreeSound
<1>2. T[n] \in Records /\ ~T[n].terminal /\ ~T[n].saturated /\ T[n].next \in Nat
  BY <1>1 DEF Refinable, Records
<1>3. Len(Moves[n]) \in Nat
  BY <1>1, GraphAssumption
<1>4. i \in Nat /\ i <= Len(Moves[n]) /\ T[n].next <= i /\ i \in 0..Len(Moves[n])
  BY <1>2, <1>3
<1>5. state \in {"unexpanded", "partial", "full"} /\ (state = "unexpanded" <=> i = 0)
  OBVIOUS
<1> HIDE DEF state
<1>6. /\ r \in Records /\ r.next = i /\ r.expansion = state /\ ~r.saturated
      /\ r.interned /\ ~r.terminal /\ r.local = T[n].local /\ r.interval = T[n].interval
      /\ r.leela = T[n].leela /\ r.fresh = T[n].fresh
  BY <1>1, <1>2, <1>4, <1>5 DEF Records
<1>7. Sound(n, r)
  <2>1. i = 0 => T[n].next = 0
    BY <1>2, <1>4
  <2> HIDE DEF r
  <2> QED BY <1>1, <1>4, <1>5, <1>6, <2>1 DEF Sound
<1>8. /\ U[n] = r
      /\ \A m \in Node : m # n => U[m] = IF m \in UpTo(n, i) \ Tree(T) THEN Evaluated(m, g[m]) ELSE T[m]
      /\ DOMAIN U = Node /\ U = [m \in Node |-> U[m]]
  BY <1>1 DEF Expanded, state
<1> HIDE DEF U, r
<1>9. \A m \in UpTo(n, i) \ Tree(T) : m \in Node /\ m # n /\ g[m] \in Guess
  BY <1>1, <1>4, UpToIs
<1>10. \A m \in UpTo(n, i) \ Tree(T) :
         /\ Sound(m, U[m]) /\ U[m].interned /\ U[m].next = 0 /\ U[m].expansion = "unexpanded"
         /\ U[m].saturated => U[m].terminal
  BY <1>8, <1>9, EvaluatedIs
<1>11. \A m \in Node \ UpTo(n, i) : m # n => U[m] = T[m]
  BY <1>8
<1>12. \A m \in Tree(T) \ {n} : U[m] = T[m]
  BY <1>8 DEF Tree
<1>13. \A m \in Node : Sound(m, U[m])
  BY <1>1, <1>7, <1>8, <1>10
<1>14. U \in [Node -> Records]
  BY <1>8, <1>13 DEF Sound
<1>15. UpTo(n, i) \subseteq Node
  BY <1>1, <1>4, UpToIs
<1>16. Tree(U) = Tree(T) \cup UpTo(n, i)
  <2>1. \A m \in Tree(T) : U[m].interned
    BY <1>6, <1>8, <1>12 DEF Tree
  <2>2. \A m \in UpTo(n, i) : U[m].interned
    BY <1>10, <2>1
  <2>3. \A m \in Node : U[m].interned => m \in Tree(T) \cup UpTo(n, i)
    BY <1>1, <1>11 DEF Tree
  <2> QED BY <1>15, <2>1, <2>2, <2>3 DEF Tree
<1>17. \A m \in Node \ Tree(T) : U[m].expansion = "unexpanded" /\ U[m].next = 0
  <2> SUFFICES ASSUME NEW m \in Node \ Tree(T) PROVE U[m].expansion = "unexpanded" /\ U[m].next = 0
    OBVIOUS
  <2>1. CASE m \in UpTo(n, i)
    BY <1>10, <2>1
  <2>2. CASE m \notin UpTo(n, i)
    <3>1. U[m] = T[m] /\ T[m] = Absent
      BY <1>1, <1>11, <2>2 DEF Tree, Sound
    <3> QED BY <3>1 DEF Absent
  <2> QED BY <2>1, <2>2
<1>18. \A m \in Node : Children(U, m) \subseteq Tree(U)
  <2> SUFFICES ASSUME NEW m \in Node PROVE Children(U, m) \subseteq Tree(U)
    OBVIOUS
  <2>1. CASE m = n
    BY <1>1, <1>6, <1>8, <1>13, <1>16, <2>1, ChildrenIs
  <2>2. CASE m \in Tree(T) \ {n}
    BY <1>12, <1>16, <2>2, SameChildren DEF TreeSound
  <2>3. CASE m \notin Tree(T)
    BY <1>13, <1>17, <2>3, ChildrenIs
  <2> QED BY <2>1, <2>2, <2>3
<1>19. \A m \in Node : ~Refinable(T, m) => ~Refinable(U, m)
  <2> SUFFICES ASSUME NEW m \in Node, ~Refinable(T, m) PROVE ~Refinable(U, m)
    OBVIOUS
  <2>1. m # n
    OBVIOUS
  <2>2. m \in Tree(T)
    <3>1. Refinable([k \in {m} |-> Absent], m)
      BY DEF Refinable, Absent
    <3>2. ~(T[m] = Absent)
      BY <3>1 DEF Refinable
    <3> QED BY <1>1, <3>2 DEF Tree, Sound
  <2> QED BY <1>12, <2>1, <2>2 DEF Refinable
<1>20. \A m \in Node : U[m].saturated =>
          \/ ClosedFor(U, m)
          \/ /\ T[m].saturated /\ U[m].next = T[m].next
             /\ T[m].terminal => U[m].terminal
             /\ T[m].expansion = "full" => U[m].expansion = "full"
  <2> SUFFICES ASSUME NEW m \in Node, U[m].saturated, U[m] # T[m] PROVE ClosedFor(U, m)
    OBVIOUS
  <2>1. m \in UpTo(n, i) \ Tree(T)
    BY <1>6, <1>8
  <2> QED BY <1>10, <2>1 DEF ClosedFor
<1>21. TreeSound(U)
  BY <1>13, <1>18, <1>19, <1>20, TreeSoundLater
<1>22. U[n].leela = T[n].leela /\ U[n].fresh = T[n].fresh /\ ~U[n].saturated /\ U[n].next = i
  BY <1>6, <1>8
<1> QED BY <1>12, <1>14, <1>16, <1>17, <1>19, <1>21, <1>22 DEF U

-----------------------------------------------------------------------------
\* The steps. Each keeps the invariant, opens no closed node and gives no node its
\* first children that was not verified for the epoch.

KeepsClosed == \A n \in Node : ~Refinable(node, n) => ~Refinable(node', n)

VerifiedFirst ==
  \A n \in Node : node[n].next = 0 /\ node'[n].next > 0 =>
    /\ node[n].fresh /\ node[n].verifiedDepth >= verifyDepth
    /\ node'[n].fresh \/ (~node[n].leela /\ node'[n].leela)

StepHolds == IInv' /\ KeepsClosed /\ VerifiedFirst

LEMMA TreeIsFinite ==
  ASSUME NEW T
  PROVE  Tree(T) \subseteq Node /\ IsFiniteSet(Tree(T)) /\ Cardinality(Tree(T)) \in Nat
<1>1. Tree(T) \in SUBSET Node
  BY DEF Tree
<1>2. IsFiniteSet(Tree(T))
  BY <1>1, FS_Subset, GraphAssumption
<1> QED BY <1>1, <1>2, FS_CardinalityType

\* What every handler that changes one node and queues it has in common.
LEMMA NodeChanged ==
  ASSUME IInv, NEW x \in Tree(node), NEW r,
         Sound(x, r), r.interned, r.next = node[x].next,
         node[x].expansion = "full" => r.expansion = "full",
         node[x].terminal => r.terminal, node[x].saturated => r.saturated,
         r.saturated => node[x].saturated \/ r.terminal \/ Exhausted(node, x)
                        \/ (r.next = 0 /\ Ply[x] >= MaxTreeDepth),
         node' = [node EXCEPT ![x] = r], queued = {}, Enqueue(x), budget' = budget
  PROVE  /\ node' \in [Node -> Records] /\ TreeSound(node)' /\ Tree(node') = Tree(node)
         /\ queued' \in SUBSET Node /\ StaleIsQueued' /\ BudgetHeld'
         /\ KeepsClosed /\ VerifiedFirst
         /\ node'[x] = r /\ \A n \in Node \ {x} : node'[n] = node[n]
<1>1. node \in [Node -> Records] /\ TreeSound(node) /\ x \in Node
  BY DEF IInv, TypeOK, Tree
<1>2. /\ node' \in [Node -> Records] /\ TreeSound(node') /\ Tree(node') = Tree(node)
      /\ KeepsClosed
  BY <1>1, OneChanged DEF KeepsClosed
<1>3. node'[x] = r /\ \A n \in Node \ {x} : node'[n] = node[n]
  BY <1>1
<1>4. queued' = {x} \cup Parents(node, x) /\ queued' \in SUBSET Node
  BY <1>1 DEF Enqueue, Parents
<1>5. StaleIsQueued'
  <2> SUFFICES ASSUME NEW n \in Node, n \notin queued' PROVE BackedUp(node', n) = node'[n]
    BY DEF StaleIsQueued
  <2>1. BackedUp(node, n) = node[n]
    BY DEF IInv, StaleIsQueued
  <2>2. \A m \in Node \ (Tree(node) \cup {x}) : node'[m].expansion = "unexpanded"
    BY <1>1, <1>3 DEF TreeSound, Sound, Tree, Absent
  <2>3. \A m \in Tree(node) \ {x} : node'[m] = node[m]
    BY <1>3 DEF Tree
  <2> QED BY <1>1, <1>2, <1>4, <2>1, <2>2, <2>3, StaleAfter
<1>6. BudgetHeld'
  BY <1>2 DEF IInv, BudgetHeld
<1>7. VerifiedFirst
  BY <1>1, <1>3 DEF VerifiedFirst
<1> QED BY <1>2, <1>3, <1>4, <1>5, <1>6, <1>7

\* What every step that leaves the tree alone has in common.
LEMMA NodeUnchanged ==
  ASSUME IInv, node' = node, queued' = queued, budget' \in Nat, budget' >= budget
  PROVE  /\ TreeSound(node)' /\ Tree(node)' = Tree(node) /\ StaleIsQueued' /\ BudgetHeld'
         /\ KeepsClosed /\ VerifiedFirst
<1>1. TreeSound(node)' /\ Tree(node)' = Tree(node) /\ StaleIsQueued'
  BY DEF IInv, StaleIsQueued
<1>2. BudgetHeld'
  <2>1. budget \in Nat /\ Cardinality(Tree(node)) <= budget
    BY BoundAssumption, GraphAssumption DEF IInv, TypeOK, BudgetHeld
  <2> QED BY <2>1, <1>1, TreeIsFinite DEF BudgetHeld
<1>3. KeepsClosed /\ VerifiedFirst
  BY DEF KeepsClosed, VerifiedFirst
<1> QED BY <1>1, <1>2, <1>3

LEMMA AdvanceEpochIs ==
  ASSUME TypeOK, AdvanceEpoch
  PROVE  /\ budget' \in FirstBudget..NodeLimit /\ budget' \in Nat /\ budget' >= budget
         /\ widening' \in 1..MaxWidening /\ verifyDepth' \in 1..MaxVerifyDepth
<1>1. /\ NodeLimit \in Nat /\ MaxWidening \in Nat /\ MaxVerifyDepth \in Nat
      /\ FirstBudget \in Nat
  BY BoundAssumption, GraphAssumption
<1> QED BY <1>1 DEF TypeOK, AdvanceEpoch, Lesser

LEMMA Initially == Init => IInv
<1> SUFFICES ASSUME Init PROVE IInv
  OBVIOUS
<1>1. PICK g \in Guess, probed \in BOOLEAN, paid \in BOOLEAN :
        /\ probed => LeelaBudget > 0
        /\ paid => probed
        /\ node = [n \in Node |-> IF n = 0 THEN [Evaluated(0, g) EXCEPT !.leela = probed] ELSE Absent]
        /\ leelaLeft = LeelaBudget - (IF paid THEN 1 ELSE 0)
  BY Zenon DEF Init
<1>2. 0 \in Node /\ Exact[0] = NoScore
  BY GraphAssumption
<1> DEFINE e == Evaluated(0, g)
           r == [e EXCEPT !.leela = probed]
<1>3. /\ Sound(0, r) /\ r.interned /\ r.next = 0 /\ r.expansion = "unexpanded"
      /\ ~r.saturated /\ ~r.terminal
  <2>1. /\ Sound(0, e) /\ e.interned /\ e.next = 0 /\ e.expansion = "unexpanded"
        /\ ~e.saturated /\ ~e.terminal /\ e \in Records
    BY <1>2, EvaluatedIs DEF Sound
  <2> HIDE DEF e
  <2>2. r \in Records /\ SameShape(e, r) /\ r.local = e.local /\ r.interval = e.interval
    BY <2>1 DEF Records, SameShape
  <2> HIDE DEF r
  <2>3. Sound(0, r)
    BY <1>2, <2>1, <2>2, SoundEvidence DEF Sound
  <2> QED BY <2>1, <2>2, <2>3 DEF SameShape
<1> HIDE DEF e, r
<1>4. node[0] = r /\ \A n \in Node \ {0} : node[n] = Absent
  BY <1>1, <1>2 DEF e, r
<1>5. \A n \in Node : Sound(n, node[n])
  BY <1>3, <1>4, AbsentSound
<1>6. node \in [Node -> Records]
  <2>1. DOMAIN node = Node /\ node = [n \in Node |-> node[n]]
    BY <1>1
  <2> QED BY <1>5, <2>1 DEF Sound
<1>7. \A n \in Node : ~node[n].saturated /\ node[n].next = 0 /\ node[n].expansion = "unexpanded"
  BY <1>3, <1>4 DEF Absent
<1>8. Tree(node) = {0}
  BY <1>2, <1>3, <1>4 DEF Tree, Absent
<1>9. TypeOK
  <2>1. /\ FirstBudget \in FirstBudget..NodeLimit /\ FirstWidening \in 1..MaxWidening
        /\ FirstVerifyDepth \in 1..MaxVerifyDepth
    BY BoundAssumption, GraphAssumption
  <2>2. leelaLeft \in 0..LeelaBudget
    BY <1>1, BoundAssumption
  <2> QED BY <1>2, <1>6, <2>1, <2>2 DEF Init, TypeOK
<1>10. TreeSound(node)
  BY <1>5, <1>7, ChildrenIs DEF TreeSound
<1>11. BudgetHeld
  <2>1. 1 <= FirstBudget
    BY BoundAssumption, GraphAssumption
  <2> QED BY <1>8, <2>1, FS_Singleton DEF BudgetHeld, Init
<1>12. StaleIsQueued
  BY <1>7 DEF StaleIsQueued, BackedUp
<1>13. Opening /\ Iterating /\ Ending
  BY <1>3, <1>4, <1>8 DEF Init, Opening, Iterating, Ending
<1> QED BY <1>9, <1>10, <1>11, <1>12, <1>13 DEF IInv

LEMMA StopStep ==
  ASSUME IInv, Stop
  PROVE  StepHolds
<1>1. /\ UNCHANGED <<node, phase, queued, resolved, leaf, budget, widening, verifyDepth, leelaLeft>>
      /\ stopped' = TRUE
  BY DEF Stop, epoch
<1>2. budget \in Nat
  BY BoundAssumption, GraphAssumption DEF IInv, TypeOK
<1>3. /\ TreeSound(node)' /\ StaleIsQueued' /\ BudgetHeld' /\ KeepsClosed /\ VerifiedFirst
  BY <1>1, <1>2, NodeUnchanged
<1>4. TypeOK'
  BY <1>1 DEF IInv, TypeOK
<1>5. Opening' /\ Iterating' /\ Ending'
  BY <1>1 DEF IInv, Opening, Iterating, Ending
<1> QED BY <1>3, <1>4, <1>5 DEF StepHolds, IInv

\* The main loop's steps that only read the tree.
LEMMA FlowStep ==
  ASSUME IInv, queued = {},
         \/ \E s \in Score : RootFallback(s)
         \/ Select \/ NextEpoch \/ SkipSanitise \/ SkipExpand \/ EndIteration \/ Leave \/ Decide
  PROVE  StepHolds
<1>1. /\ TypeOK /\ Opening /\ Iterating /\ Ending
  BY DEF IInv
<1>2. UNCHANGED <<node, queued, resolved, leelaLeft, stopped>>
  BY DEF RootFallback, Select, NextEpoch, SkipSanitise, SkipExpand, EndIteration, Leave, Decide
<1>3. /\ budget' \in FirstBudget..NodeLimit /\ budget' \in Nat /\ budget' >= budget
      /\ widening' \in 1..MaxWidening /\ verifyDepth' \in 1..MaxVerifyDepth
  <2>1. CASE AdvanceEpoch
    BY <1>1, <2>1, AdvanceEpochIs
  <2>2. CASE UNCHANGED epoch
    BY <1>1, <2>2, BoundAssumption, GraphAssumption DEF TypeOK, epoch
  <2> QED
    BY <2>1, <2>2 DEF RootFallback, Select, NextEpoch, SkipSanitise, SkipExpand, EndIteration, Leave, Decide
<1>4. /\ TreeSound(node)' /\ StaleIsQueued' /\ BudgetHeld' /\ KeepsClosed /\ VerifiedFirst
  BY <1>2, <1>3, NodeUnchanged
<1>5. Frontier(node) \subseteq Tree(node) \ {0}
  <2> DEFINE open == [p \in Node |-> {c \in Children(node, p) : Refinable(node, c)}]
             C == Tree(node) \cap Deeper(0)
  <2>1. \A p \in Node : Children(node, p) \subseteq Tree(node) /\ \A c \in Children(node, p) : Ply[c] > Ply[p]
    <3>1. \A p \in Node : Sound(p, node[p]) /\ Children(node, p) \subseteq Tree(node)
      BY DEF IInv, TreeSound
    <3>2. \A p \in Node : \A c \in Children(node, p) : Ply[c] = Ply[p] + 1
      BY <3>1, ChildrenIs
    <3>3. \A p \in Node : Ply[p] \in Nat
      BY GraphAssumption
    <3> QED BY <3>1, <3>2, <3>3
  <2>2. 0 \in Node /\ Ply[0] = 0 /\ \A p \in Node : Ply[p] \in Nat
    BY GraphAssumption
  <2>3. C \in SUBSET Deeper(0) /\ open[0] \subseteq C /\ \A n \in C : open[n] \subseteq C
    <3>1. \A n \in Node : open[n] \subseteq C
      <4> SUFFICES ASSUME NEW n \in Node, NEW c \in open[n] PROVE c \in C
        OBVIOUS
      <4>1. c \in Children(node, n)
        OBVIOUS
      <4>2. c \in Tree(node) /\ c \in Node /\ Ply[c] > Ply[n]
        BY <4>1, <2>1 DEF Tree
      <4> QED BY <4>2, <2>2 DEF Deeper
    <3> QED BY <3>1, <2>2 DEF Tree
  <2>4. Reach(Deeper(0), open[0], open) \subseteq C
    <3> HIDE DEF C, open
    <3> QED BY <2>3 DEF Reach
  <2>5. 0 \notin Deeper(0)
    BY <2>2 DEF Deeper
  <2>6. Frontier(node) \subseteq Reach(Deeper(0), open[0], open)
    BY DEF Frontier
  <2> QED BY <2>4, <2>5, <2>6
<1>6. Children(node, 0) \subseteq Tree(node) \ {0}
  <2>1. 0 \in Node /\ Sound(0, node[0]) /\ Children(node, 0) \subseteq Tree(node)
    BY GraphAssumption DEF IInv, TreeSound
  <2> QED BY <2>1, ChildrenIs
<1>7. TypeOK'
  <2>1. leaf' \in Node
    BY <1>1, <1>5, <1>6, TreeIsFinite
    DEF RootFallback, Select, NextEpoch, SkipSanitise, SkipExpand, EndIteration, Leave, Decide, TypeOK
  <2>2. phase' \in {"loop", "verify", "leader", "probe", "tail", "final", "done"}
    BY DEF RootFallback, Select, NextEpoch, SkipSanitise, SkipExpand, EndIteration, Leave, Decide
  <2> QED BY <1>1, <1>2, <1>3, <2>1, <2>2 DEF TypeOK
<1>8. Opening'
  BY DEF Opening, RootFallback, Select, NextEpoch, SkipSanitise, SkipExpand, EndIteration, Leave, Decide
<1>9. Iterating'
  <2>1. CASE Select
    BY <1>1, <1>2, <1>5, <2>1 DEF Select, Iterating
  <2>2. CASE NextEpoch
    BY <1>1, <1>2, <1>6, <2>2 DEF NextEpoch, Iterating
  <2>3. CASE SkipSanitise
    BY <1>1, <1>2, <2>3 DEF SkipSanitise, Iterating, epoch, NeedsVerification
  <2>4. CASE (\E s \in Score : RootFallback(s)) \/ SkipExpand \/ EndIteration \/ Leave \/ Decide
    <3>1. phase' \in {"tail", "loop", "final", "done"} /\ phase # "rebuild"
      BY <2>4 DEF RootFallback, SkipExpand, EndIteration, Leave, Decide
    <3> QED BY <1>1, <1>2, <3>1 DEF Iterating
  <2> QED BY <2>1, <2>2, <2>3, <2>4
<1>10. Ending'
  <2>1. CASE phase' \in {"final", "done"}
    <3>1. Infinite => stopped \/ MateProved(node)
      BY <1>1, <2>1
      DEF RootFallback, Select, NextEpoch, SkipSanitise, SkipExpand, EndIteration, Leave, Decide, Ending
    <3> QED BY <1>2, <3>1 DEF Ending
  <2> QED BY <2>1 DEF Ending
<1> QED BY <1>4, <1>7, <1>8, <1>9, <1>10 DEF StepHolds, IInv

\* A node that was backed up agrees with its children.
LEMMA BackedUpSettles ==
  ASSUME NEW T \in [Node -> Records], TreeSound(T), NEW n \in Node,
         NEW U \in [Node -> Records], U = [T EXCEPT ![n] = BackedUp(T, n)]
  PROVE  BackedUp(U, n) = U[n]
<1>1. U[n] = BackedUp(T, n) /\ \A c \in Node \ {n} : U[c] = T[c]
  OBVIOUS
<1>2. T[n] \in Records /\ U[n] \in Records /\ Sound(n, T[n])
  BY DEF TreeSound
<1>3. Children(T, n) \subseteq Node \ {n}
  BY <1>2, ChildrenIs
<1>4. CASE T[n].expansion = "unexpanded" \/ Children(T, n) = {}
  <2>1. U[n] = T[n]
    BY <1>1, <1>4 DEF BackedUp
  <2>2. Children(U, n) = Children(T, n)
    BY <2>1, SameChildren
  <2> QED BY <1>4, <2>1, <2>2 DEF BackedUp
<1>5. CASE ~(T[n].expansion = "unexpanded" \/ Children(T, n) = {})
  <2> DEFINE i == BackedInterval(T, n)
             d == 1 + Deepest(T, Children(T, n))
             s == Exhausted(T, n)
             V == [T EXCEPT ![n] = U[n]]
  <2>1. U[n] = [T[n] EXCEPT !.interval = i, !.depth = d, !.saturated = s]
    BY <1>1, <1>5 DEF BackedUp
  <2> HIDE DEF i, d, s
  <2>2. /\ U[n].interval = i /\ U[n].depth = d /\ U[n].saturated = s
        /\ U[n].expansion = T[n].expansion /\ U[n].next = T[n].next /\ U[n].local = T[n].local
    BY <1>2, <2>1 DEF Records
  <2>3. Children(U, n) = Children(T, n)
    BY <2>2, SameChildren
  <2>4. \A c \in Children(T, n) : U[c] = T[c]
    BY <1>1, <1>3
  <2>5. {Negate(U[c].interval) : c \in Children(T, n)} = {Negate(T[c].interval) : c \in Children(T, n)}
    BY <2>4
  <2>6. BackedInterval(U, n) = i
    BY <2>2, <2>3, <2>5 DEF BackedInterval, i
  <2>7. Deepest(U, Children(T, n)) = Deepest(T, Children(T, n))
    <3>1. {U[c].depth : c \in Children(T, n)} = {T[c].depth : c \in Children(T, n)}
      BY <2>4
    <3>2. \A e : (\A c \in Children(T, n) : U[c].depth <= e) <=> (\A c \in Children(T, n) : T[c].depth <= e)
      BY <2>4
    <3> QED BY <3>1, <3>2 DEF Deepest
  <2>8. Exhausted(U, n) = s
    BY <2>2, <2>3, <2>4 DEF Exhausted, Refinable, s
  <2>9. Settled(U, n)
    BY <2>2, <2>3, <2>6, <2>7, <2>8 DEF Settled, d
  <2> QED BY <1>2, <2>9, SettledIs
<1> QED BY <1>4, <1>5

LEMMA BackUpStep ==
  ASSUME IInv, NEW n \in queued, BackUp(n)
  PROVE  StepHolds
<1> DEFINE r == BackedUp(node, n)
<1>1. /\ TypeOK /\ TreeSound(node) /\ Opening /\ Iterating /\ Ending /\ BudgetHeld
      /\ node \in [Node -> Records] /\ queued \in SUBSET Node /\ n \in Node
  BY DEF IInv, TypeOK
<1>2. /\ node' = [node EXCEPT ![n] = r]
      /\ queued' = (queued \ {n}) \cup (IF r # node[n] THEN Parents(node, n) ELSE {})
      /\ UNCHANGED <<phase, resolved, leaf, budget, widening, verifyDepth, leelaLeft, stopped>>
  BY DEF BackUp, epoch
<1>3. /\ Sound(n, r)
      /\ r.interned = node[n].interned /\ r.expansion = node[n].expansion /\ r.next = node[n].next
      /\ r.terminal = node[n].terminal /\ r.local = node[n].local /\ r.leela = node[n].leela
      /\ r.tactical = node[n].tactical /\ r.fresh = node[n].fresh
      /\ r.verifiedDepth = node[n].verifiedDepth
      /\ node[n].saturated => r.saturated
      /\ r.saturated => node[n].saturated \/ Exhausted(node, n)
  BY <1>1, BackedUpIs
<1>4. n \notin Tree(node) => r = node[n]
  <2>1. n \notin Tree(node) => node[n].expansion = "unexpanded"
    BY <1>1 DEF TreeSound, Sound, Tree, Absent
  <2> QED BY <2>1 DEF BackedUp
<1> HIDE DEF r
<1>5. r = node[n] => node' = node
  BY <1>1, <1>2
<1>6. /\ node' \in [Node -> Records] /\ TreeSound(node') /\ Tree(node') = Tree(node)
      /\ KeepsClosed
  <2>1. CASE r = node[n]
    BY <1>1, <1>5, <2>1 DEF KeepsClosed
  <2>2. CASE r # node[n]
    <3>1. n \in Tree(node) /\ r.interned
      BY <1>3, <1>4, <2>2 DEF Tree
    <3> QED BY <1>1, <1>2, <1>3, <3>1, OneChanged DEF KeepsClosed
  <2> QED BY <2>1, <2>2
<1>7. node'[n] = r /\ \A m \in Node \ {n} : node'[m] = node[m]
  BY <1>1, <1>2
<1>8. StaleIsQueued'
  <2> SUFFICES ASSUME NEW m \in Node, m \notin queued' PROVE BackedUp(node', m) = node'[m]
    BY DEF StaleIsQueued
  <2>1. CASE m = n
    BY <1>1, <1>2, <1>6, <2>1, BackedUpSettles DEF r
  <2>2. CASE m # n
    <3>1. m \notin queued /\ BackedUp(node, m) = node[m]
      BY <1>2, <2>2 DEF IInv, StaleIsQueued
    <3>2. CASE r = node[n]
      BY <1>5, <3>1, <3>2
    <3>3. CASE r # node[n]
      <4>1. m \notin {n} \cup Parents(node, n)
        BY <1>2, <2>2, <3>3
      <4>2. \A k \in Node \ (Tree(node) \cup {n}) : node'[k].expansion = "unexpanded"
        BY <1>1, <1>7 DEF TreeSound, Sound, Tree, Absent
      <4>3. \A k \in Tree(node) \ {n} : node'[k] = node[k]
        BY <1>7 DEF Tree
      <4> QED BY <1>1, <1>6, <3>1, <4>1, <4>2, <4>3, StaleAfter
    <3> QED BY <3>2, <3>3
  <2> QED BY <2>1, <2>2
<1>9. BudgetHeld'
  BY <1>1, <1>2, <1>6 DEF BudgetHeld
<1>10. VerifiedFirst
  BY <1>1, <1>3, <1>7 DEF VerifiedFirst
<1>11. TypeOK'
  <2>1. queued' \in SUBSET Node
    BY <1>1, <1>2 DEF Parents
  <2> QED BY <1>1, <1>2, <1>6, <2>1 DEF TypeOK
<1>12. phase \notin {"baseline", "root", "final", "done"}
  BY <1>1 DEF Opening, Ending
<1>13. Opening' /\ Ending'
  BY <1>2, <1>12 DEF Opening, Ending
<1>14. Iterating'
  <2>1. resolved' = resolved /\ leaf' = leaf /\ phase' = phase /\ leaf \in Node
    BY <1>1, <1>2 DEF TypeOK
  <2>2. \A m \in Node : /\ node'[m].interned = node[m].interned /\ node'[m].leela = node[m].leela
                        /\ node'[m].terminal = node[m].terminal
                        /\ node'[m].tactical = node[m].tactical /\ node'[m].fresh = node[m].fresh
                        /\ node'[m].verifiedDepth = node[m].verifiedDepth
    BY <1>3, <1>7
  <2>3. resolved \subseteq Node
    BY <1>1 DEF TypeOK
  <2> QED BY <1>1, <1>2, <1>6, <2>1, <2>2, <2>3 DEF Iterating, NeedsVerification
<1> QED BY <1>6, <1>8, <1>9, <1>10, <1>11, <1>13, <1>14 DEF StepHolds, IInv

LEMMA RootVerifyStep ==
  ASSUME IInv, queued = {}, NEW s \in Score, NEW g \in Guess, RootVerify(s, g)
  PROVE  StepHolds
<1> DEFINE r == Verified(node[0], s, g)
<1>1. /\ TypeOK /\ TreeSound(node) /\ Opening /\ Iterating /\ Ending /\ BudgetHeld
      /\ node \in [Node -> Records] /\ 0 \in Node /\ verifyDepth \in 0..MaxVerifyDepth
      /\ verifyDepth \in Int
  BY BoundAssumption, GraphAssumption DEF IInv, TypeOK
<1>2. /\ node' = [node EXCEPT ![0] = r] /\ phase = "baseline" /\ phase' = "root"
      /\ UNCHANGED <<queued, resolved, leaf, budget, widening, verifyDepth, leelaLeft, stopped>>
  BY DEF RootVerify, epoch
<1>3. Tree(node) = {0} /\ node[0].next = 0 /\ ~node[0].terminal /\ ~node[0].saturated
  BY <1>1, <1>2 DEF Opening
<1>4. 0 \in Tree(node) /\ node[0].interned /\ Sound(0, node[0])
  BY <1>1, <1>3 DEF Tree, TreeSound
<1>5. Sound(0, r) /\ SameShape(node[0], r) /\ r.fresh /\ r.verifiedDepth = verifyDepth
  BY <1>1, <1>3, <1>4, VerifiedIs
<1> HIDE DEF r
<1>6. /\ node' \in [Node -> Records] /\ TreeSound(node') /\ Tree(node') = Tree(node)
      /\ KeepsClosed
  BY <1>1, <1>2, <1>4, <1>5, OneChanged DEF KeepsClosed, SameShape
<1>7. node'[0] = r /\ \A m \in Node \ {0} : node'[m] = node[m]
  BY <1>1, <1>2
<1>8. StaleIsQueued'
  <2> SUFFICES ASSUME NEW m \in Node PROVE BackedUp(node', m) = node'[m]
    BY DEF StaleIsQueued
  <2>1. node'[m].expansion = "unexpanded"
    <3>1. CASE m = 0
      BY <1>3, <1>4, <1>5, <1>7, <3>1 DEF Sound, SameShape
    <3>2. CASE m # 0
      BY <1>1, <1>3, <1>7, <3>2 DEF TreeSound, Sound, Tree, Absent
    <3> QED BY <3>1, <3>2
  <2> QED BY <2>1 DEF BackedUp
<1>9. BudgetHeld'
  BY <1>1, <1>2, <1>6 DEF BudgetHeld
<1>10. VerifiedFirst
  BY <1>1, <1>5, <1>7 DEF VerifiedFirst, SameShape
<1>11. TypeOK'
  BY <1>1, <1>2, <1>6 DEF TypeOK
<1>12. Opening' /\ Ending'
  <2>1. node'[0].fresh /\ node'[0].verifiedDepth >= verifyDepth'
    BY <1>1, <1>2, <1>5, <1>7
  <2>2. node'[0].next = 0 /\ ~node'[0].terminal /\ ~node'[0].saturated
    BY <1>3, <1>5, <1>7 DEF SameShape
  <2> QED BY <1>2, <1>3, <1>6, <2>1, <2>2 DEF Opening, Ending
<1>13. Iterating'
  <2>1. resolved = {}
    BY <1>1, <1>2 DEF Iterating
  <2> QED BY <1>2, <2>1 DEF Iterating
<1> QED BY <1>6, <1>8, <1>9, <1>10, <1>11, <1>12, <1>13 DEF StepHolds, IInv

LEMMA SanitiseStep ==
  ASSUME IInv, queued = {}, NEW s \in Score, NEW g \in Guess, Sanitise(s, g)
  PROVE  StepHolds
<1> DEFINE r == Verified(node[leaf], s, g)
<1>1. /\ TypeOK /\ TreeSound(node) /\ Iterating /\ node \in [Node -> Records]
      /\ verifyDepth \in 0..MaxVerifyDepth
  BY DEF IInv, TypeOK
<1>2. /\ phase \in {"verify", "leader"} /\ ~node[leaf].terminal
      /\ node' = [node EXCEPT ![leaf] = r] /\ Enqueue(leaf) /\ phase' \in {"tail", "loop"}
      /\ UNCHANGED <<resolved, leaf, budget, widening, verifyDepth, leelaLeft, stopped>>
  BY DEF Sanitise, epoch
<1>3. leaf \in Tree(node) /\ leaf \in Node /\ node[leaf].interned /\ Sound(leaf, node[leaf])
  BY <1>1, <1>2 DEF Iterating, Tree, TreeSound
<1>4. Sound(leaf, r) /\ SameShape(node[leaf], r) /\ r.leela = node[leaf].leela
  BY <1>1, <1>2, <1>3, VerifiedIs
<1> HIDE DEF r
<1>5. /\ node' \in [Node -> Records] /\ TreeSound(node)' /\ Tree(node') = Tree(node)
      /\ queued' \in SUBSET Node /\ StaleIsQueued' /\ BudgetHeld'
      /\ KeepsClosed /\ VerifiedFirst
      /\ node'[leaf] = r /\ \A n \in Node \ {leaf} : node'[n] = node[n]
  BY <1>2, <1>3, <1>4, NodeChanged DEF SameShape
<1>6. TypeOK'
  BY <1>1, <1>2, <1>5 DEF TypeOK
<1>7. Opening' /\ Ending'
  BY <1>2 DEF Opening, Ending
<1>8. Iterating'
  BY <1>1, <1>2, <1>3, <1>4, <1>5 DEF Iterating, SameShape, TypeOK
<1> QED BY <1>5, <1>6, <1>7, <1>8 DEF StepHolds, IInv

LEMMA RebuildProbedStep ==
  ASSUME IInv, queued = {}, NEW c \in resolved, NEW g \in Guess, RebuildProbed(c, g)
  PROVE  StepHolds
<1> DEFINE r == Rebuilt(node[c], g)
<1>1. /\ TypeOK /\ TreeSound(node) /\ Iterating /\ node \in [Node -> Records]
      /\ resolved \in SUBSET Node /\ leaf \in Node
  BY DEF IInv, TypeOK
<1>2. /\ phase = "rebuild" /\ node' = [node EXCEPT ![c] = r] /\ Enqueue(c)
      /\ resolved' = resolved \ {c}
      /\ phase' = IF resolved' # {} THEN "rebuild" ELSE IF node[leaf].leela THEN "tail" ELSE "expand"
      /\ UNCHANGED <<leaf, budget, widening, verifyDepth, leelaLeft, stopped>>
  BY DEF RebuildProbed, epoch
<1>3. c \in Tree(node) /\ c \in Node /\ node[c].interned /\ node[c].leela /\ Sound(c, node[c])
  BY <1>1 DEF Iterating, Tree, TreeSound
<1>4. Sound(c, r) /\ SameShape(node[c], r) /\ r.leela = node[c].leela
  BY <1>3, RebuiltIs
<1> HIDE DEF r
<1>5. /\ node' \in [Node -> Records] /\ TreeSound(node)' /\ Tree(node') = Tree(node)
      /\ queued' \in SUBSET Node /\ StaleIsQueued' /\ BudgetHeld'
      /\ KeepsClosed /\ VerifiedFirst
      /\ node'[c] = r /\ \A n \in Node \ {c} : node'[n] = node[n]
  BY <1>2, <1>3, <1>4, NodeChanged DEF SameShape
<1>6. phase' \in {"rebuild", "tail", "expand"}
  BY <1>2
<1>7. TypeOK'
  BY <1>1, <1>2, <1>5, <1>6 DEF TypeOK
<1>8. Opening' /\ Ending'
  BY <1>6 DEF Opening, Ending
<1>9. Iterating'
  <2>1. leaf \in Tree(node) \ {0}
    BY <1>1, <1>2 DEF Iterating
  <2>2. ASSUME ~node'[leaf].leela PROVE stopped \/ node'[leaf].terminal \/ ~NeedsVerification(node'[leaf])
    <3>1. leaf # c /\ node'[leaf] = node[leaf]
      BY <1>1, <1>3, <1>4, <1>5, <2>2
    <3>2. stopped \/ node[leaf].terminal \/ ~NeedsVerification(node[leaf])
      BY <1>1, <1>2, <2>2, <3>1 DEF Iterating
    <3> QED BY <3>1, <3>2
  <2>3. phase' = "expand" => ~node'[leaf].leela
    BY <1>1, <1>2, <1>3, <1>4, <1>5
  <2>4. \A m \in resolved' : node'[m].interned /\ node'[m].leela
    BY <1>1, <1>2, <1>5 DEF Iterating
  <2> QED BY <1>2, <1>5, <1>6, <2>1, <2>2, <2>3, <2>4 DEF Iterating, NeedsVerification
<1> QED BY <1>5, <1>7, <1>8, <1>9 DEF StepHolds, IInv

LEMMA CloseLeafStep ==
  ASSUME IInv, queued = {}, CloseLeaf
  PROVE  StepHolds
<1> DEFINE r == [node[leaf] EXCEPT !.saturated = TRUE]
<1>1. /\ TypeOK /\ TreeSound(node) /\ Iterating /\ node \in [Node -> Records]
      /\ resolved \in SUBSET Node /\ leaf \in Node
  BY DEF IInv, TypeOK
<1>2. /\ phase = "expand" /\ Ply[leaf] >= MaxTreeDepth
      /\ node' = [node EXCEPT ![leaf] = r] /\ Enqueue(leaf) /\ phase' = "tail"
      /\ UNCHANGED <<resolved, leaf, budget, widening, verifyDepth, leelaLeft, stopped>>
  BY DEF CloseLeaf, epoch
<1>3. /\ leaf \in Tree(node) /\ leaf # 0 /\ node[leaf].interned /\ Sound(leaf, node[leaf])
      /\ node[leaf] \in Records
  BY <1>1, <1>2 DEF Iterating, Tree, TreeSound
<1>4. /\ r \in Records /\ r.saturated /\ r.interned /\ r.expansion = node[leaf].expansion
      /\ r.next = node[leaf].next /\ r.terminal = node[leaf].terminal
      /\ r.local = node[leaf].local /\ r.interval = node[leaf].interval
      /\ r.leela = node[leaf].leela
  BY <1>3 DEF Records
<1> HIDE DEF r
<1>5. r.next = 0
  <2>1. ~MayHaveChildren(leaf)
    <3>1. Ply[leaf] \in Nat /\ MaxTreeDepth \in Nat
      BY <1>1, GraphAssumption, BoundAssumption
    <3> QED BY <1>2, <1>3, <3>1 DEF MayHaveChildren
  <2>2. node[leaf].next \in Nat
    BY <1>3 DEF Records
  <2> QED BY <1>3, <1>4, <2>1, <2>2 DEF Sound
<1>6. Sound(leaf, r)
  BY <1>3, <1>4 DEF Sound
<1>7. /\ node' \in [Node -> Records] /\ TreeSound(node)' /\ Tree(node') = Tree(node)
      /\ queued' \in SUBSET Node /\ StaleIsQueued' /\ BudgetHeld'
      /\ KeepsClosed /\ VerifiedFirst
      /\ node'[leaf] = r /\ \A n \in Node \ {leaf} : node'[n] = node[n]
  BY <1>2, <1>3, <1>4, <1>5, <1>6, NodeChanged
<1>8. TypeOK'
  BY <1>1, <1>2, <1>7 DEF TypeOK
<1>9. Opening' /\ Ending'
  BY <1>2 DEF Opening, Ending
<1>10. Iterating'
  BY <1>1, <1>2, <1>3, <1>4, <1>7 DEF Iterating
<1> QED BY <1>7, <1>8, <1>9, <1>10 DEF StepHolds, IInv

\* The evaluators answer for every context an expansion creates.
LEMMA GuessesCover ==
  ASSUME NEW n \in Node, NEW probed, NEW g \in Guesses(n, probed), NEW i \in 0..Len(Moves[n])
  PROVE  /\ \A m \in UpTo(n, i) \ Tree(node) : g[m] \in Guess
         /\ \A m \in probed : g[m] \in Guess
<1>1. Moves[n] \in Seq(Node)
  BY GraphAssumption
<1>2. UpTo(n, i) \subseteq Range(Moves[n])
  <2>1. \A j \in 1..i : j \in DOMAIN Moves[n]
    BY <1>1
  <2> QED BY <2>1 DEF UpTo, Range
<1> QED BY <1>2 DEF Guesses

LEMMA Payable ==
  ASSUME NEW paid, paid \subseteq Node, TypeOK, Cardinality(paid) <= leelaLeft
  PROVE  leelaLeft - Cardinality(paid) \in 0..LeelaBudget
<1>1. Cardinality(paid) \in Nat
  BY FS_Subset, FS_CardinalityType, GraphAssumption
<1> QED BY <1>1, BoundAssumption DEF TypeOK

\* A node after its own LD2 probe, or without one: only its evidence changes.
LEMMA ProbedNode ==
  ASSUME NEW T \in [Node -> Records], TreeSound(T), NEW x \in Tree(T), NEW r,
         Sound(x, r) /\ SameShape(T[x], r) /\ r.leela
  PROVE  LET t == [T EXCEPT ![x] = r] IN
         /\ t \in [Node -> Records] /\ TreeSound(t) /\ Tree(t) = Tree(T)
         /\ SameShape(T[x], t[x]) /\ t[x].leela /\ \A n \in Node \ {x} : t[n] = T[n]
<1>1. x \in Node /\ T[x].interned /\ Sound(x, T[x])
  BY DEF Tree, TreeSound
<1> DEFINE U == [T EXCEPT ![x] = r]
<1>2. /\ r.interned /\ r.next = T[x].next /\ r.expansion = T[x].expansion
      /\ r.terminal = T[x].terminal /\ r.saturated = T[x].saturated
  BY <1>1 DEF SameShape
<1>3. /\ T[x].expansion = "full" => r.expansion = "full"
      /\ T[x].terminal => r.terminal
      /\ T[x].saturated => r.saturated
      /\ r.saturated => T[x].saturated \/ r.terminal \/ Exhausted(T, x)
                        \/ (r.next = 0 /\ Ply[x] >= MaxTreeDepth)
  BY <1>2
<1>4. U \in [Node -> Records] /\ TreeSound(U) /\ Tree(U) = Tree(T)
  BY <1>2, <1>3, OneChanged
<1> QED BY <1>1, <1>4

LEMMA RootExpandStep ==
  ASSUME IInv, queued = {}, NEW i \in 0..Len(Moves[0]), NEW probed, NEW paid,
         NEW g \in Guesses(0, probed), RootExpand(i, g, probed, paid)
  PROVE  StepHolds
<1> DEFINE root == IF 0 \in probed THEN [node EXCEPT ![0] = WithLeela(@, g[0])] ELSE node
           t == Expanded(root, 0, i, g)
<1>1. /\ TypeOK /\ TreeSound(node) /\ Opening /\ Iterating /\ BudgetHeld
      /\ node \in [Node -> Records] /\ 0 \in Node
  BY GraphAssumption DEF IInv, TypeOK
<1>2. /\ phase = "root" /\ Materialises(node, 0, Len(Moves[0]), i)
      /\ probed \ {0} \subseteq {c \in Children(t, 0) : Refinable(t, c)}
      /\ node' = [c \in Node |-> IF c \in probed \ {0} THEN WithLeela(t[c], g[c]) ELSE t[c]]
      /\ 0 \in probed => ~node[0].leela
      /\ paid \subseteq probed /\ Cardinality(paid) <= leelaLeft
      /\ leelaLeft' = leelaLeft - Cardinality(paid)
      /\ Enqueue(0) /\ phase' = "loop"
      /\ UNCHANGED <<resolved, leaf, budget, widening, verifyDepth, stopped>>
  BY Zenon DEF RootExpand, epoch
<1> HIDE DEF t
<1>3. /\ Tree(node) = {0} /\ node[0].next = 0 /\ Refinable(node, 0)
      /\ node[0].fresh /\ node[0].verifiedDepth >= verifyDepth
  BY <1>1, <1>2 DEF Opening, Refinable
<1>4. Sound(0, node[0]) /\ node[0].expansion = "unexpanded" /\ i \in node[0].next..Len(Moves[0])
  BY <1>1, <1>2, <1>3 DEF TreeSound, Sound, Refinable, Materialises
<1>5. /\ t \in [Node -> Records] /\ TreeSound(t) /\ Tree(t) = Tree(node) \cup UpTo(0, i)
      /\ \A m \in Node \ Tree(node) : t[m].expansion = "unexpanded" /\ t[m].next = 0
      /\ \A m \in Node : ~Refinable(node, m) => ~Refinable(t, m)
      /\ t[0].fresh \/ (~node[0].leela /\ t[0].leela)
  <2>1. 0 \in Tree(node) /\ MayHaveChildren(0) /\ node[0].expansion # "full"
    BY <1>3, <1>4 DEF MayHaveChildren
  <2> DEFINE r == WithLeela(node[0], g[0])
  <2>2. 0 \in probed => Sound(0, r) /\ SameShape(node[0], r) /\ r.leela
    <3>1. 0 \in probed => g[0] \in Guess
      BY <1>1, GuessesCover
    <3> QED BY <1>1, <1>3, <1>4, <3>1, WithLeelaIs DEF Tree
  <2>3. root = IF 0 \in probed THEN [node EXCEPT ![0] = r] ELSE node
    OBVIOUS
  <2> HIDE DEF root, r
  <2>4. /\ root \in [Node -> Records] /\ TreeSound(root) /\ Tree(root) = Tree(node)
        /\ SameShape(node[0], root[0]) /\ \A n \in Node \ {0} : root[n] = node[n]
        /\ root = node \/ (0 \in probed /\ root[0].leela)
    <3>1. CASE 0 \in probed
      <4> DEFINE U == [node EXCEPT ![0] = r]
      <4>1. node \in [Node -> Records] /\ TreeSound(node) /\ root = U
        BY <1>1, <2>3, <3>1
      <4>2. /\ U \in [Node -> Records] /\ TreeSound(U) /\ Tree(U) = Tree(node)
            /\ SameShape(node[0], U[0]) /\ U[0].leela
            /\ \A n \in Node \ {0} : U[n] = node[n]
        BY <2>1, <2>2, <3>1, <4>1, ProbedNode, Zenon
      <4> HIDE DEF U
      <4> QED BY <3>1, <4>1, <4>2, Zenon
    <3>2. CASE 0 \notin probed
      BY <1>1, <2>3, <3>2 DEF SameShape
    <3> QED BY <3>1, <3>2
  <2>5. /\ 0 \in Tree(root) /\ Refinable(root, 0) /\ root[0].expansion # "full"
        /\ i \in root[0].next..Len(Moves[0])
    BY <1>3, <1>4, <2>1, <2>4 DEF SameShape, Refinable
  <2>6. \A m \in UpTo(0, i) \ Tree(root) : g[m] \in Guess
    BY <1>1, <2>4, GuessesCover
  <2>7. /\ t \in [Node -> Records] /\ TreeSound(t) /\ Tree(t) = Tree(root) \cup UpTo(0, i)
        /\ \A m \in Node \ Tree(root) : t[m].expansion = "unexpanded" /\ t[m].next = 0
        /\ \A m \in Node : ~Refinable(root, m) => ~Refinable(t, m)
        /\ t[0].leela = root[0].leela /\ t[0].fresh = root[0].fresh
    BY <2>1, <2>4, <2>5, <2>6, ExpandedIs DEF t
  <2>8. \A m \in Node : ~Refinable(node, m) => ~Refinable(root, m)
    BY <1>3, <2>4 DEF Refinable
  <2>9. t[0].fresh \/ (~node[0].leela /\ t[0].leela)
    BY <1>2, <1>3, <2>4, <2>7
  <2> QED BY <2>4, <2>7, <2>8, <2>9
<1>6. probed \ {0} \subseteq Tree(t) \ {0} /\ probed \subseteq Node /\ Tree(t) \subseteq Node
  <2>1. Sound(0, t[0]) /\ Children(t, 0) \subseteq Tree(t)
    BY <1>1, <1>5 DEF TreeSound
  <2> QED BY <1>1, <1>2, <2>1, ChildrenIs, TreeIsFinite
<1>7. /\ \A m \in Node : SameShape(t[m], node'[m]) /\ Sound(m, node'[m]) /\ node'[m] \in Records
      /\ node'[0] = t[0]
  <2>1. node'[0] = t[0]
    BY <1>1, <1>2
  <2> SUFFICES ASSUME NEW m \in Node PROVE SameShape(t[m], node'[m]) /\ Sound(m, node'[m])
    BY <2>1 DEF Sound
  <2>2. Sound(m, t[m])
    BY <1>5 DEF TreeSound
  <2>3. CASE m \in probed \ {0}
    <3>1. g[m] \in Guess /\ t[m].interned
      BY <1>1, <1>6, <2>3, GuessesCover DEF Tree
    <3>2. node'[m] = WithLeela(t[m], g[m])
      BY <1>2, <2>3
    <3> QED BY <2>2, <3>1, <3>2, WithLeelaIs
  <2>4. CASE m \notin probed \ {0}
    BY <1>2, <2>2, <2>4 DEF SameShape
  <2> QED BY <2>3, <2>4
<1>8. node' \in [Node -> Records]
  BY <1>2, <1>7
<1>9. Tree(node') = Tree(t)
  BY <1>7 DEF Tree, SameShape
<1>10. TreeSound(node')
  <2>1. \A m \in Node : Children(node', m) = Children(t, m)
    BY <1>7, SameChildren DEF SameShape
  <2>2. \A m \in Node : Sound(m, node'[m]) /\ Children(node', m) \subseteq Tree(node')
    BY <1>5, <1>7, <1>9, <2>1 DEF TreeSound
  <2>3. \A m \in Node : ~Refinable(t, m) => ~Refinable(node', m)
    BY <1>7 DEF Refinable, SameShape
  <2>4. \A m \in Node : node'[m].saturated =>
          /\ t[m].saturated /\ node'[m].next = t[m].next
          /\ t[m].terminal => node'[m].terminal
          /\ t[m].expansion = "full" => node'[m].expansion = "full"
    BY <1>7 DEF SameShape
  <2> QED BY <1>5, <2>2, <2>3, <2>4, TreeSoundLater
<1>11. KeepsClosed
  BY <1>5, <1>7 DEF KeepsClosed, Refinable, SameShape
<1>12. VerifiedFirst
  <2>1. \A m \in Node \ {0} : node'[m].next = 0
    BY <1>3, <1>5, <1>7 DEF SameShape
  <2> QED BY <1>3, <1>5, <1>7, <2>1 DEF VerifiedFirst
<1>13. StaleIsQueued'
  <2>1. queued' = {0} \cup Parents(node, 0)
    BY <1>2 DEF Enqueue
  <2> SUFFICES ASSUME NEW m \in Node, m \notin {0} PROVE BackedUp(node', m) = node'[m]
    BY <2>1 DEF StaleIsQueued
  <2>2. node'[m].expansion = "unexpanded"
    BY <1>3, <1>5, <1>7 DEF SameShape
  <2> QED BY <2>2 DEF BackedUp
<1>14. BudgetHeld'
  BY <1>2, <1>5, <1>9 DEF BudgetHeld, Materialises, Fits
<1>15. TypeOK'
  <2>1. queued' \in SUBSET Node
    BY <1>1, <1>2 DEF Enqueue, Parents
  <2>2. leelaLeft' \in 0..LeelaBudget
    BY <1>1, <1>2, <1>6, Payable
  <2> QED BY <1>1, <1>2, <1>8, <2>1, <2>2 DEF TypeOK
<1>16. Opening' /\ Ending'
  BY <1>2 DEF Opening, Ending
<1>17. Iterating'
  <2>1. resolved = {}
    BY <1>1, <1>2 DEF Iterating
  <2> QED BY <1>2, <2>1 DEF Iterating
<1> QED BY <1>10, <1>11, <1>12, <1>13, <1>14, <1>15, <1>16, <1>17 DEF StepHolds, IInv

LEMMA ProbeBatchStep ==
  ASSUME IInv, queued = {}, NEW probed, NEW paid, ProbeBatch(probed, paid)
  PROVE  StepHolds
<1>1. /\ TypeOK /\ TreeSound(node) /\ Iterating /\ BudgetHeld /\ StaleIsQueued
      /\ node \in [Node -> Records] /\ leaf \in Node
  BY DEF IInv, TypeOK
<1>2. /\ phase = "probe" /\ probed \subseteq Schedulable
      /\ paid \subseteq probed /\ Cardinality(paid) <= leelaLeft
      /\ node' = [c \in Node |-> IF c \in probed THEN [node[c] EXCEPT !.leela = TRUE] ELSE node[c]]
      /\ resolved' = probed /\ leelaLeft' = leelaLeft - Cardinality(paid)
      /\ phase' = IF probed = {} THEN "expand" ELSE "rebuild"
      /\ UNCHANGED <<queued, leaf, budget, widening, verifyDepth, stopped>>
  BY DEF ProbeBatch, epoch
<1>3. leaf \in Tree(node) \ {0}
  BY <1>1, <1>2 DEF Iterating
<1>4. probed \subseteq Tree(node) /\ Tree(node) \subseteq Node
  <2>1. \A p \in Node : Children(node, p) \subseteq Tree(node)
    BY <1>1 DEF TreeSound
  <2>2. Parents(node, leaf) \subseteq Node /\ 0 \in Node
    BY GraphAssumption DEF Parents
  <2> QED BY <1>2, <1>3, <2>1, <2>2, TreeIsFinite DEF Schedulable
<1>5. \A m \in Node :
        /\ node'[m] \in Records /\ SameShape(node[m], node'[m])
        /\ node'[m].local = node[m].local /\ node'[m].interval = node[m].interval
        /\ m \in probed => node'[m].leela
        /\ m \notin probed => node'[m] = node[m]
  <2> SUFFICES ASSUME NEW m \in Node
               PROVE  /\ node'[m] \in Records /\ SameShape(node[m], node'[m])
                      /\ node'[m].local = node[m].local /\ node'[m].interval = node[m].interval
                      /\ m \in probed => node'[m].leela
                      /\ m \notin probed => node'[m] = node[m]
    OBVIOUS
  <2>1. node[m] \in Records
    BY <1>1
  <2>2. CASE m \in probed
    <3>1. node'[m] = [node[m] EXCEPT !.leela = TRUE]
      BY <1>2, <2>2
    <3> QED BY <2>1, <2>2, <3>1 DEF Records, SameShape
  <2>3. CASE m \notin probed
    <3>1. node'[m] = node[m]
      BY <1>2, <2>3
    <3> QED BY <2>1, <2>3, <3>1 DEF SameShape
  <2> QED BY <2>2, <2>3
<1>6. \A m \in Node : Sound(m, node'[m])
  <2> SUFFICES ASSUME NEW m \in Node PROVE Sound(m, node'[m])
    OBVIOUS
  <2>1. Sound(m, node[m])
    BY <1>1 DEF TreeSound
  <2>2. CASE m \in probed
    <3>1. node[m].interned
      BY <1>4, <2>2 DEF Tree
    <3> QED BY <1>5, <2>1, <3>1, SoundEvidence DEF Sound
  <2>3. CASE m \notin probed
    BY <1>5, <2>1, <2>3
  <2> QED BY <2>2, <2>3
<1>7. node' \in [Node -> Records]
  BY <1>2, <1>5
<1>8. Tree(node') = Tree(node)
  BY <1>5 DEF Tree, SameShape
<1>9. TreeSound(node')
  <2>1. \A m \in Node : Children(node', m) = Children(node, m)
    BY <1>5, SameChildren DEF SameShape
  <2>2. \A m \in Node : Sound(m, node'[m]) /\ Children(node', m) \subseteq Tree(node')
    BY <1>1, <1>6, <1>8, <2>1 DEF TreeSound
  <2>3. \A m \in Node : ~Refinable(node, m) => ~Refinable(node', m)
    BY <1>5 DEF Refinable, SameShape
  <2>4. \A m \in Node : node'[m].saturated =>
          /\ node[m].saturated /\ node'[m].next = node[m].next
          /\ node[m].terminal => node'[m].terminal
          /\ node[m].expansion = "full" => node'[m].expansion = "full"
    BY <1>5 DEF SameShape
  <2> QED BY <1>1, <2>2, <2>3, <2>4, TreeSoundLater
<1>10. KeepsClosed
  BY <1>5 DEF KeepsClosed, Refinable, SameShape
<1>11. VerifiedFirst
  <2>1. \A m \in Node : node'[m].next = node[m].next /\ node[m].next \in Nat
    BY <1>1, <1>5 DEF SameShape, Records
  <2> QED BY <2>1 DEF VerifiedFirst
<1>12. StaleIsQueued'
  <2> SUFFICES ASSUME NEW m \in Node PROVE BackedUp(node', m) = node'[m]
    BY DEF StaleIsQueued
  <2>1. BackedUp(node, m) = node[m] /\ node[m] \in Records
    BY <1>1 DEF StaleIsQueued
  <2>2. Settled(node, m)
    BY <2>1, SettledIs
  <2>3. Children(node, m) \subseteq Node
    BY <1>1, TreeIsFinite DEF TreeSound
  <2>4. Settled(node', m)
    BY <1>5, <2>2, <2>3, SettledStays
  <2> QED BY <1>5, <2>4, SettledIs
<1>13. BudgetHeld'
  BY <1>1, <1>2, <1>8 DEF BudgetHeld
<1>14. TypeOK'
  <2>1. leelaLeft' \in 0..LeelaBudget
    BY <1>1, <1>2, <1>4, Payable
  <2>2. resolved' \in SUBSET Node
    BY <1>2, <1>4
  <2> QED BY <1>1, <1>2, <1>7, <2>1, <2>2 DEF TypeOK
<1>15. Opening' /\ Ending'
  BY <1>2 DEF Opening, Ending
<1>16. Iterating'
  <2>1. stopped \/ node[leaf].terminal \/ ~NeedsVerification(node[leaf])
    BY <1>1, <1>2 DEF Iterating
  <2>2. leaf \notin probed => node'[leaf] = node[leaf]
    BY <1>1, <1>5
  <2>3. \A c \in resolved' : node'[c].interned /\ node'[c].leela
    BY <1>2, <1>4, <1>5, <1>8 DEF Tree
  <2>4. leaf \in probed => phase' = "rebuild" /\ node'[leaf].leela
    BY <1>1, <1>2, <1>5
  <2> QED BY <1>2, <1>3, <1>8, <2>1, <2>2, <2>3, <2>4 DEF Iterating, NeedsVerification
<1> QED BY <1>9, <1>10, <1>11, <1>12, <1>13, <1>14, <1>15, <1>16 DEF StepHolds, IInv

\* The game ends at x.
LEMMA GameOverIs ==
  ASSUME NEW T \in [Node -> Records], TreeSound(T), NEW x \in Tree(T), Moves[x] = <<>>
  PROVE  LET U == GameOver(T, x) IN
         /\ U \in [Node -> Records] /\ TreeSound(U) /\ Tree(U) = Tree(T)
         /\ U[x].terminal /\ U[x].next = 0 /\ \A n \in Node \ {x} : U[n] = T[n]
<1> DEFINE p == Point(Mated[x])
           r == [T[x] EXCEPT !.local = p, !.interval = p, !.terminal = TRUE,
                             !.saturated = TRUE, !.expansion = "full"]
<1>1. x \in Node /\ T[x].interned /\ Sound(x, T[x]) /\ T[x] \in Records
  BY DEF Tree, TreeSound
<1>2. p \in Corridors /\ Valid(p) /\ IsPoint(p)
  BY <1>1, EvidenceAssumption, PointIs
<1>3. T[x].next = 0
  <2>1. T[x].next \in Nat /\ T[x].next <= Len(Moves[x]) /\ Len(Moves[x]) = 0
    BY <1>1 DEF Sound, Records
  <2> QED BY <2>1
<1> HIDE DEF p
<1>4. /\ r \in Records /\ r.local = p /\ r.interval = p /\ r.terminal /\ r.saturated
      /\ r.expansion = "full" /\ r.interned /\ r.next = T[x].next
  BY <1>1, <1>2 DEF Records
<1> HIDE DEF r
<1>5. Sound(x, r)
  BY <1>1, <1>2, <1>3, <1>4 DEF Sound
<1>6. GameOver(T, x) = [T EXCEPT ![x] = r]
  BY DEF GameOver, r, p
<1> DEFINE U == [T EXCEPT ![x] = r]
<1>7. U \in [Node -> Records] /\ TreeSound(U) /\ Tree(U) = Tree(T)
  BY <1>1, <1>4, <1>5, OneChanged
<1>8. U[x] = r /\ \A n \in Node \ {x} : U[n] = T[n]
  BY <1>1
<1> HIDE DEF U
<1> QED BY <1>3, <1>4, <1>6, <1>7, <1>8 DEF U

LEMMA ExpandLeafStep ==
  ASSUME IInv, queued = {}, NEW i \in 0..Len(Moves[leaf]), NEW probed \in BOOLEAN,
         NEW paid \in BOOLEAN, NEW g \in Guesses(leaf, IF probed THEN {leaf} ELSE {}),
         ExpandLeaf(i, g, probed, paid)
  PROVE  StepHolds
<1> DEFINE t == IF probed THEN [node EXCEPT ![leaf] = WithLeela(@, g[leaf])] ELSE node
           limit == Lesser(Len(Moves[leaf]), node[leaf].next + widening)
<1>1. /\ TypeOK /\ TreeSound(node) /\ Iterating /\ BudgetHeld /\ StaleIsQueued
      /\ node \in [Node -> Records] /\ leaf \in Node
  BY DEF IInv, TypeOK
<1>2. /\ phase = "expand" /\ ~stopped /\ Refinable(node, leaf) /\ node[leaf].expansion # "full"
      /\ Ply[leaf] < MaxTreeDepth
      /\ paid => leelaLeft > 0
      /\ probed => ~node[leaf].leela
      /\ Materialises(node, leaf, limit, i)
      /\ node' = IF Moves[leaf] = <<>> THEN GameOver(t, leaf) ELSE Expanded(t, leaf, i, g)
      /\ leelaLeft' = leelaLeft - (IF paid THEN 1 ELSE 0)
      /\ Enqueue(leaf) /\ phase' = "tail"
      /\ UNCHANGED <<resolved, leaf, budget, widening, verifyDepth, stopped>>
  BY DEF ExpandLeaf, epoch
<1>3. /\ leaf \in Tree(node) \ {0} /\ ~node[leaf].terminal /\ ~NeedsVerification(node[leaf])
  BY <1>1, <1>2 DEF Iterating, Refinable
<1> DEFINE r == WithLeela(node[leaf], g[leaf])
<1>4. probed => Sound(leaf, r) /\ SameShape(node[leaf], r) /\ r.leela
  <2>1. probed => g[leaf] \in Guess
    BY <1>1, GuessesCover
  <2>2. Sound(leaf, node[leaf]) /\ node[leaf].interned
    BY <1>1, <1>3 DEF TreeSound, Tree
  <2> QED BY <1>1, <2>1, <2>2, WithLeelaIs
<1>15. t = IF probed THEN [node EXCEPT ![leaf] = r] ELSE node
  OBVIOUS
<1> HIDE DEF r, t
<1>5. /\ t \in [Node -> Records] /\ TreeSound(t) /\ Tree(t) = Tree(node)
      /\ SameShape(node[leaf], t[leaf]) /\ \A n \in Node \ {leaf} : t[n] = node[n]
      /\ t = node \/ (~node[leaf].leela /\ t[leaf].leela)
  <2>1. CASE probed
    <3>1. /\ leaf \in Tree(node) /\ node \in [Node -> Records] /\ TreeSound(node)
          /\ Sound(leaf, r) /\ SameShape(node[leaf], r) /\ r.leela
          /\ t = [node EXCEPT ![leaf] = r]
      BY <1>1, <1>3, <1>4, <1>15, <2>1
    <3> DEFINE U == [node EXCEPT ![leaf] = r]
    <3>2. /\ U \in [Node -> Records] /\ TreeSound(U) /\ Tree(U) = Tree(node)
          /\ SameShape(node[leaf], U[leaf]) /\ U[leaf].leela
          /\ \A n \in Node \ {leaf} : U[n] = node[n]
      BY ONLY <3>1, ProbedNode, Zenon
    <3>3. t = U /\ ~node[leaf].leela
      BY <1>2, <2>1, <3>1
    <3> HIDE DEF U
    <3> QED BY <3>2, <3>3, Zenon
  <2>2. CASE ~probed
    BY <1>1, <1>15, <2>2 DEF SameShape
  <2> QED BY <2>1, <2>2
<1>6. i \in node[leaf].next..Len(Moves[leaf]) /\ Fits(node, UpTo(leaf, i))
  <2>1. widening \in Nat
    BY <1>1, BoundAssumption DEF TypeOK
  <2>2. node[leaf].next \in Nat /\ Len(Moves[leaf]) \in Nat
    <3>1. node[leaf] \in Records /\ Moves[leaf] \in Seq(Node)
      BY <1>1, GraphAssumption
    <3> QED BY <3>1 DEF Records
  <2> QED BY <1>2, <2>1, <2>2 DEF Materialises, Lesser
<1>7. /\ node' \in [Node -> Records] /\ TreeSound(node') /\ Cardinality(Tree(node')) <= budget
      /\ Tree(node) \subseteq Tree(node')
      /\ \A n \in Tree(node) \ {leaf} : node'[n] = node[n]
      /\ \A n \in Node \ Tree(node) : node'[n].expansion = "unexpanded" /\ node'[n].next = 0
      /\ node'[leaf].next = 0 \/ node'[leaf].fresh \/ (~node[leaf].leela /\ node'[leaf].leela)
      /\ KeepsClosed
  <2>1. CASE Moves[leaf] = <<>>
    <3>1. node' = GameOver(t, leaf)
      BY <1>2, <2>1
    <3>2. /\ node' \in [Node -> Records] /\ TreeSound(node') /\ Tree(node') = Tree(node)
          /\ node'[leaf].next = 0 /\ \A n \in Node \ {leaf} : node'[n] = node[n]
      BY <1>3, <1>5, <2>1, <3>1, GameOverIs
    <3>3. \A n \in Node \ Tree(node) : node[n].expansion = "unexpanded" /\ node[n].next = 0
      BY <1>1 DEF TreeSound, Sound, Tree, Absent
    <3>4. KeepsClosed
      BY <1>2, <3>2 DEF KeepsClosed, Refinable
    <3> QED BY <1>1, <1>3, <3>2, <3>3, <3>4, TreeIsFinite DEF BudgetHeld
  <2>2. CASE Moves[leaf] # <<>>
    <3>1. node' = Expanded(t, leaf, i, g)
      BY <1>2, <2>2
    <3>2. /\ leaf \in Tree(t) /\ Refinable(t, leaf) /\ t[leaf].expansion # "full"
          /\ i \in t[leaf].next..Len(Moves[leaf])
      BY <1>2, <1>3, <1>5, <1>6 DEF SameShape, Refinable
    <3>3. MayHaveChildren(leaf)
      BY <1>2 DEF MayHaveChildren
    <3>4. \A m \in UpTo(leaf, i) \ Tree(t) : g[m] \in Guess
      BY <1>1, <1>5, GuessesCover
    <3>5. /\ node' \in [Node -> Records] /\ TreeSound(node')
          /\ Tree(node') = Tree(node) \cup UpTo(leaf, i)
          /\ \A m \in Tree(node) \ {leaf} : node'[m] = t[m]
          /\ \A m \in Node \ Tree(node) : node'[m].expansion = "unexpanded" /\ node'[m].next = 0
          /\ \A m \in Node : ~Refinable(t, m) => ~Refinable(node', m)
          /\ node'[leaf].leela = t[leaf].leela /\ node'[leaf].fresh = t[leaf].fresh
      BY <1>5, <3>1, <3>2, <3>3, <3>4, ExpandedIs
    <3>6. KeepsClosed
      <4>1. \A m \in Node : ~Refinable(node, m) => ~Refinable(t, m)
        BY <1>5 DEF Refinable, SameShape
      <4> QED BY <3>5, <4>1 DEF KeepsClosed
    <3>7. Cardinality(Tree(node')) <= budget
      BY <1>6, <3>5 DEF Fits
    <3>8. \A m \in Tree(node) \ {leaf} : node'[m] = node[m]
      BY <1>5, <3>5 DEF Tree
    <3>9. node'[leaf].fresh \/ (~node[leaf].leela /\ node'[leaf].leela)
      BY <1>3, <1>5, <3>5 DEF NeedsVerification
    <3> QED BY <3>5, <3>6, <3>7, <3>8, <3>9
  <2> QED BY <2>1, <2>2
<1>8. queued' = {leaf} \cup Parents(node, leaf)
  BY <1>2 DEF Enqueue
<1>9. StaleIsQueued'
  <2> SUFFICES ASSUME NEW m \in Node, m \notin queued' PROVE BackedUp(node', m) = node'[m]
    BY DEF StaleIsQueued
  <2>1. BackedUp(node, m) = node[m] /\ m \notin {leaf} \cup Parents(node, leaf)
    BY <1>1, <1>8 DEF StaleIsQueued
  <2> QED BY <1>1, <1>7, <2>1, StaleAfter
<1>10. VerifiedFirst
  <2>1. node[leaf].fresh /\ node[leaf].verifiedDepth >= verifyDepth
    <3>1. node[leaf].fresh /\ ~(node[leaf].verifiedDepth < verifyDepth)
      BY <1>3 DEF NeedsVerification
    <3>2. node[leaf].verifiedDepth \in Int /\ verifyDepth \in Int
      BY <1>1, BoundAssumption DEF TypeOK, Records
    <3> QED BY <3>1, <3>2
  <2>2. \A m \in Node \ {leaf} : node[m].next = 0 => node'[m].next = 0
    BY <1>7
  <2> QED BY <1>7, <2>1, <2>2 DEF VerifiedFirst
<1>11. BudgetHeld'
  BY <1>2, <1>7 DEF BudgetHeld
<1>12. TypeOK'
  <2>1. queued' \in SUBSET Node
    BY <1>1, <1>8 DEF Parents
  <2>2. leelaLeft' \in 0..LeelaBudget
    <3>1. leelaLeft' = leelaLeft - (IF paid THEN 1 ELSE 0) /\ (paid => leelaLeft > 0)
      BY <1>2
    <3> QED BY <1>1, <3>1, BoundAssumption DEF TypeOK
  <2> QED BY <1>1, <1>2, <1>7, <2>1, <2>2 DEF TypeOK
<1>13. Opening' /\ Ending'
  BY <1>2 DEF Opening, Ending
<1>14. Iterating'
  <2>1. resolved = {}
    BY <1>1, <1>2 DEF Iterating
  <2> QED BY <1>2, <2>1 DEF Iterating
<1> QED BY <1>7, <1>9, <1>10, <1>11, <1>12, <1>13, <1>14 DEF StepHolds, IInv

LEMMA NextStep == IInv /\ Next => StepHolds
<1> SUFFICES ASSUME IInv, Next PROVE StepHolds
  OBVIOUS
<1>1. CASE Stop
  BY <1>1, StopStep
<1>2. CASE \E n \in queued : BackUp(n)
  BY <1>2, BackUpStep
<1>3. CASE queued = {} /\ Handler
  <2>1. CASE \/ \E s \in Score : RootFallback(s)
             \/ Select \/ NextEpoch \/ SkipSanitise \/ SkipExpand \/ EndIteration \/ Leave \/ Decide
    BY <1>3, <2>1, FlowStep
  <2>2. CASE \E s \in Score, g \in Guess : RootVerify(s, g)
    BY <1>3, <2>2, RootVerifyStep
  <2>3. CASE ExpandRoot
    <3>1. PICK probed, paid : \E i \in 0..Len(Moves[0]), g \in Guesses(0, probed) : RootExpand(i, g, probed, paid)
      BY <2>3 DEF ExpandRoot
    <3> QED BY <1>3, <3>1, RootExpandStep
  <2>4. CASE \E s \in Score, g \in Guess : Sanitise(s, g)
    BY <1>3, <2>4, SanitiseStep
  <2>5. CASE Probe
    BY <1>3, <2>5, ProbeBatchStep DEF Probe
  <2>6. CASE \E c \in resolved, g \in Guess : RebuildProbed(c, g)
    BY <1>3, <2>6, RebuildProbedStep
  <2>7. CASE Expand
    <3>1. PICK probed \in BOOLEAN, paid \in BOOLEAN :
            \E i \in 0..Len(Moves[leaf]), g \in Guesses(leaf, IF probed THEN {leaf} ELSE {}) :
              ExpandLeaf(i, g, probed, paid)
      BY <2>7 DEF Expand
    <3> QED BY <1>3, <3>1, ExpandLeafStep
  <2>8. CASE CloseLeaf
    BY <1>3, <2>8, CloseLeafStep
  <2> QED BY <1>3, <2>1, <2>2, <2>3, <2>4, <2>5, <2>6, <2>7, <2>8 DEF Handler
<1> QED BY <1>1, <1>2, <1>3 DEF Next, SearchStep

LEMMA Invariance == Spec => []IInv
<1>1. IInv /\ UNCHANGED vars => IInv'
  <2> SUFFICES ASSUME IInv, UNCHANGED vars PROVE IInv'
    OBVIOUS
  <2>1. UNCHANGED <<node, phase, queued, resolved, leaf, budget, widening, verifyDepth, leelaLeft, stopped>>
    BY DEF vars, epoch
  <2>2. TypeOK' /\ BudgetHeld' /\ TreeSound(node)' /\ StaleIsQueued'
    BY <2>1 DEF IInv, TypeOK, BudgetHeld, StaleIsQueued
  <2>3. Opening' /\ Iterating' /\ Ending'
    BY <2>1 DEF IInv, Opening, Iterating, Ending, NeedsVerification
  <2> QED BY <2>2, <2>3 DEF IInv
<1>2. IInv /\ [Next]_vars => IInv'
  BY <1>1, NextStep DEF StepHolds
<1> QED BY <1>2, Initially, PTL DEF Spec

-----------------------------------------------------------------------------
\* What the search relies on.

(* However evidence and proof contradict each other, no corridor is ever    *)
(* inverted, and everything has its type (backup_node, verify_leaf).        *)
THEOREM CorridorsStayValid == Spec => []CorridorsValid
<1>1. IInv => CorridorsValid
  BY TreeIsFinite DEF IInv, TreeSound, Sound, CorridorsValid
<1> QED BY <1>1, Invariance, PTL

(* The tree never outgrows the active node budget (expand_node's reserve).  *)
THEOREM TreeFitsBudget == Spec => []BudgetHeld
<1>1. IInv => BudgetHeld
  BY DEF IInv
<1> QED BY <1>1, Invariance, PTL

LEMMA BackupIsComplete == IInv => BackupComplete
BY TreeIsFinite DEF IInv, StaleIsQueued, BackupComplete

(* Once the worklist of propagate_dag_change is empty every node agrees     *)
(* with its children, on any graph of transpositions.                       *)
THEOREM BackupReachesAll == Spec => []BackupComplete
<1> QED BY BackupIsComplete, Invariance, PTL

(* In analysis the search ends on stop or with a mate, never by itself.     *)
THEOREM AnalysisWaits == Spec => []InfiniteWaits
<1>1. IInv => InfiniteWaits
  BY DEF IInv, Ending, InfiniteWaits
<1> QED BY <1>1, Invariance, PTL

(* No node gets children before it was verified at the epoch's depth, and   *)
(* with them it keeps the corridor that was verified, unless the step that  *)
(* makes them (expand_node) also brings the node's first LD2 evidence.      *)
THEOREM VerificationComesFirst == Spec => VerifiedBeforeExpansion
<1> DEFINE First == \A n \in Node : node[n].next = 0 /\ node'[n].next > 0 =>
                      /\ node[n].fresh /\ node[n].verifiedDepth >= verifyDepth
                      /\ node'[n].fresh \/ (~node[n].leela /\ node'[n].leela)
<1>1. IInv /\ [Next]_vars => [First]_vars
  <2> SUFFICES ASSUME IInv, Next PROVE First
    OBVIOUS
  <2> QED BY NextStep DEF StepHolds, VerifiedFirst
<1> QED BY <1>1, Invariance, PTL DEF Spec, VerifiedBeforeExpansion

(* What is terminal or saturated is never opened again.                     *)
THEOREM ClosedIsFinal == Spec => ClosedStaysClosed
<1> DEFINE Stays == \A n \in Tree(node) : ~Refinable(node, n) => ~Refinable(node, n)'
<1>1. IInv /\ [Next]_vars => [Stays]_vars
  <2> SUFFICES ASSUME IInv, Next PROVE Stays
    OBVIOUS
  <2> QED BY NextStep, TreeIsFinite DEF StepHolds, KeepsClosed
<1> QED BY <1>1, Invariance, PTL DEF Spec, ClosedStaysClosed

-----------------------------------------------------------------------------
\* A node and everything below it.

LEMMA BelowIs ==
  ASSUME NEW T, TreeSound(T), NEW n \in Node
  PROVE  /\ n \in Below(T, n) /\ Below(T, n) \subseteq {n} \cup Deeper(n)
         /\ \A m \in Below(T, n) : Children(T, m) \subseteq Below(T, n)
         /\ \A C \in SUBSET Deeper(n) :
              Children(T, n) \subseteq C /\ (\A m \in C : Children(T, m) \subseteq C)
                => Below(T, n) \subseteq {n} \cup C
<1> DEFINE next == [m \in Node |-> Children(T, m)]
           R == Reach(Deeper(n), Children(T, n), next)
<1>1. \A p \in Node : Ply[p] \in Nat
  BY GraphAssumption
<1>2. \A p \in Node : /\ Children(T, p) \subseteq Node
                      /\ \A c \in Children(T, p) : Ply[c] = Ply[p] + 1
  BY ChildrenIs DEF TreeSound
<1>3. Deeper(n) \subseteq Node /\ \A p \in Deeper(n) : next[p] = Children(T, p)
  BY DEF Deeper
<1>4. /\ Children(T, n) \subseteq Deeper(n)
      /\ \A p \in Deeper(n) : Children(T, p) \subseteq Deeper(n)
  BY <1>1, <1>2 DEF Deeper
<1> HIDE DEF next
<1>5. Below(T, n) = {n} \cup R
  BY DEF Below, next
<1>6. R \subseteq Deeper(n)
  BY DEF Reach
<1>7. Children(T, n) \subseteq R
  BY <1>4 DEF Reach
<1>8. \A m \in R : Children(T, m) \subseteq R
  BY <1>3, <1>4 DEF Reach
<1>9. ASSUME NEW C \in SUBSET Deeper(n), Children(T, n) \subseteq C,
             \A m \in C : Children(T, m) \subseteq C
      PROVE  R \subseteq C
  <2>1. \A m \in C : next[m] \subseteq C
    BY <1>3, <1>9
  <2> QED BY <1>9, <2>1 DEF Reach
<1> HIDE DEF R
<1> QED BY <1>5, <1>6, <1>7, <1>8, <1>9

\* What lies below a child lies below its parent.
LEMMA BelowChild ==
  ASSUME NEW T, TreeSound(T), NEW n \in Node, NEW c \in Children(T, n)
  PROVE  c \in Node /\ Ply[c] = Ply[n] + 1 /\ Below(T, c) \subseteq Below(T, n)
<1>1. c \in Node /\ Ply[c] = Ply[n] + 1
  BY ChildrenIs DEF TreeSound
<1>2. /\ n \in Below(T, n) /\ Below(T, n) \subseteq {n} \cup Deeper(n)
      /\ \A m \in Below(T, n) : Children(T, m) \subseteq Below(T, n)
  BY BelowIs
<1> DEFINE C == Below(T, n) \cap Deeper(c)
<1>3. c \in Below(T, n)
  BY <1>2
<1>4. \A p \in Node : Ply[p] \in Nat
  BY GraphAssumption
<1>5. \A p \in Node : /\ Children(T, p) \subseteq Node
                      /\ \A k \in Children(T, p) : Ply[k] = Ply[p] + 1
  BY ChildrenIs DEF TreeSound
<1>6. Children(T, c) \subseteq C
  BY <1>1, <1>2, <1>3, <1>4, <1>5 DEF Deeper
<1>7. \A m \in C : Children(T, m) \subseteq C
  BY <1>1, <1>2, <1>4, <1>5 DEF Deeper
<1>8. C \in SUBSET Deeper(c)
  OBVIOUS
<1> HIDE DEF C
<1>9. Below(T, c) \subseteq {c} \cup C
  BY <1>1, <1>6, <1>7, <1>8, BelowIs
<1> QED BY <1>1, <1>3, <1>9 DEF C

\* Among some nodes one is at least as deep as the others.
LEMMA DeepestNode == \A A \in SUBSET Node : A # {} => \E x \in A : \A y \in A : Ply[y] <= Ply[x]
<1>1. Ply \in [Node -> Int] /\ IsFiniteSet(Node)
  BY GraphAssumption
<1> QED BY <1>1, Greatest

LEMMA NothingIsHidden == IInv => NothingHidden
<1> SUFFICES ASSUME IInv, queued = {}, NEW n \in Tree(node)
             PROVE  node[n].saturated <=>
                      \A m \in Below(node, n) :
                        \/ node[m].terminal
                        \/ node[m].expansion = "full"
                        \/ Ply[m] >= MaxTreeDepth /\ node[m].saturated
  BY DEF NothingHidden
<1>1. n \in Node /\ TreeSound(node) /\ \A m \in Node : Sound(m, node[m])
  BY DEF IInv, TreeSound, Tree
<1>2. /\ n \in Below(node, n) /\ Below(node, n) \subseteq {n} \cup Deeper(n)
      /\ \A m \in Below(node, n) : Children(node, m) \subseteq Below(node, n)
  BY <1>1, BelowIs
<1>3. Deeper(n) \subseteq Node
  BY DEF Deeper
<1>4. \A m \in Node : Children(node, m) \subseteq Node
  BY <1>1, ChildrenIs
<1>5. ASSUME node[n].saturated, NEW m \in Below(node, n)
      PROVE  \/ node[m].terminal
             \/ node[m].expansion = "full"
             \/ Ply[m] >= MaxTreeDepth /\ node[m].saturated
  <2> DEFINE C == {k \in Deeper(n) : ~Refinable(node, k)}
  <2>1. ASSUME NEW k \in Node, ~Refinable(node, k)
        PROVE  \A c \in Children(node, k) : ~Refinable(node, c)
    <3>1. node[k].terminal \/ node[k].saturated
      BY <2>1 DEF Refinable
    <3>2. ClosedFor(node, k)
      BY <1>1, <3>1 DEF TreeSound, ClosedFor
    <3>3. node[k].terminal => node[k].next = 0
      BY <1>1 DEF Sound
    <3>4. node[k].next = 0 => Children(node, k) = {}
      BY <1>1, ChildrenIs
    <3> QED BY <3>2, <3>3, <3>4 DEF ClosedFor, Exhausted
  <2>2. Children(node, n) \subseteq C /\ \A k \in C : Children(node, k) \subseteq C
    <3>1. \A p \in Node : Ply[p] \in Nat
      BY GraphAssumption
    <3>2. \A p \in Node : \A c \in Children(node, p) : Ply[c] = Ply[p] + 1
      BY <1>1, ChildrenIs
    <3>3. ~Refinable(node, n)
      BY <1>5 DEF Refinable
    <3>4. Children(node, n) \subseteq C
      BY <1>1, <1>4, <2>1, <3>1, <3>2, <3>3 DEF Deeper
    <3>5. \A k \in C : Children(node, k) \subseteq C
      BY <1>1, <1>4, <2>1, <3>1, <3>2 DEF Deeper
    <3> QED BY <3>4, <3>5
  <2>3. C \in SUBSET Deeper(n)
    OBVIOUS
  <2>4. m = n \/ m \in C
    <3> HIDE DEF C
    <3> QED BY <1>1, <2>2, <2>3, BelowIs
  <2>5. m \in Node /\ (node[m].terminal \/ node[m].saturated)
    BY <1>1, <1>3, <1>5, <2>4 DEF Refinable
  <2>6. ClosedFor(node, m)
    BY <1>1, <2>5 DEF TreeSound, ClosedFor
  <2> QED BY <2>5, <2>6 DEF ClosedFor, Exhausted
<1>6. ASSUME \A m \in Below(node, n) :
               \/ node[m].terminal
               \/ node[m].expansion = "full"
               \/ Ply[m] >= MaxTreeDepth /\ node[m].saturated
      PROVE  node[n].saturated
  <2> DEFINE open == {m \in Below(node, n) : ~node[m].saturated}
  <2> SUFFICES ASSUME open # {} PROVE FALSE
    BY <1>2
  <2>1. open \in SUBSET Node
    BY <1>1, <1>2, <1>3
  <2>2. PICK x \in open : \A y \in open : Ply[y] <= Ply[x]
    <3> HIDE DEF open
    <3> QED BY <2>1, DeepestNode
  <2>3. x \in Node /\ x \in Below(node, n) /\ ~node[x].saturated
    BY <2>1
  <2>4. ~node[x].terminal /\ node[x].expansion = "full"
    BY <1>1, <1>6, <2>3 DEF Sound
  <2>5. node[x].next # 0
    BY <1>1, <2>3, <2>4 DEF Sound
  <2>6. Children(node, x) # {} /\ \A c \in Children(node, x) : c \in Node /\ Ply[c] > Ply[x]
    <3>1. \A p \in Node : Ply[p] \in Nat
      BY GraphAssumption
    <3> QED BY <1>1, <2>3, <2>5, <3>1, ChildrenIs
  <2>7. \A c \in Children(node, x) : node[c].saturated
    <3> SUFFICES ASSUME NEW c \in Children(node, x), ~node[c].saturated PROVE FALSE
      OBVIOUS
    <3>1. c \in open
      BY <1>2, <2>3
    <3>2. Ply[c] <= Ply[x] /\ Ply[c] > Ply[x] /\ Ply[c] \in Nat /\ Ply[x] \in Nat
      BY <2>2, <2>3, <2>6, <3>1, GraphAssumption
    <3> QED BY <3>2
  <2>8. Exhausted(node, x)
    BY <2>4, <2>7 DEF Exhausted, Refinable
  <2>9. node[x] \in Records /\ BackedUp(node, x) = node[x]
    BY <1>1, <2>3 DEF IInv, StaleIsQueued, Sound
  <2>10. Settled(node, x)
    BY <2>3, <2>9, SettledIs
  <2>11. node[x].saturated = Exhausted(node, x)
    BY <2>4, <2>6, <2>10 DEF Settled
  <2> QED BY <2>3, <2>8, <2>11
<1> QED BY <1>5, <1>6

(* A subtree is closed exactly when nothing below it is left to refine: no  *)
(* handler has to look further than a node's children to keep that up.      *)
THEOREM SubtreeClosedWhenDone == Spec => []NothingHidden
<1> QED BY NothingIsHidden, Invariance, PTL

\* The corridor's bound for sign 1, the side to move, or -1, the other side, is a mate.
Claims(c, sign) == Greater(sign * c.lower, sign * c.upper) >= Mate

\* The node m below n is a mate for that side.
Witness(n, sign, m) ==
  LET side == IF (Ply[m] - Ply[n]) % 2 = 0 THEN sign ELSE -sign
  IN  IsPoint(node[m].local) /\ side * node[m].local.lower >= Mate

LEMMA ClaimIs ==
  ASSUME NEW c \in Corridors, Valid(c)
  PROVE  /\ Claims(c, 1) <=> c.upper >= Mate
         /\ Claims(c, -1) <=> c.lower <= -Mate
<1>1. c.lower \in Int /\ c.upper \in Int /\ c.lower <= c.upper /\ Mate \in Int
  BY ScaleAssumption DEF Corridors, Valid
<1> QED BY <1>1 DEF Claims, Greater

\* A claim that is not the local corridor's is a child's, for the other side.
LEMMA ClaimFromChild ==
  ASSUME IInv, queued = {}, NEW x \in Tree(node), NEW sign \in {1, -1},
         Claims(node[x].interval, sign), ~Claims(node[x].local, sign)
  PROVE  \E c \in Children(node, x) : Claims(node[c].interval, -sign)
<1>1. /\ x \in Node /\ \A m \in Node : Sound(m, node[m])
      /\ BackedUp(node, x) = node[x]
  BY DEF IInv, TreeSound, Tree, StaleIsQueued
<1>2. \A m \in Node : /\ node[m] \in Records /\ Valid(node[m].local) /\ Valid(node[m].interval)
                      /\ node[m].local \in Corridors /\ node[m].interval \in Corridors
  BY <1>1 DEF Sound, Records
<1>3. node[x].next # 0
  BY <1>1 DEF Sound
<1>4. Children(node, x) # {} /\ Children(node, x) \subseteq Node /\ node[x].expansion # "unexpanded"
  <2>1. node[x].next \in Nat
    BY <1>1, <1>2 DEF Records
  <2> QED BY <1>1, <1>3, <2>1, ChildrenIs DEF Sound
<1>5. node[x].interval = BackedInterval(node, x)
  BY <1>1, <1>2, <1>4, SettledIs DEF Settled
<1>6. /\ \/ node[x].interval.upper = node[x].local.upper
         \/ \E c \in Children(node, x) : node[x].interval.upper = -node[c].interval.lower
      /\ \/ node[x].interval.lower = node[x].local.lower
         \/ \E c \in Children(node, x) : node[x].interval.lower = -node[c].interval.upper
  BY <1>1, <1>3, <1>5, BackedIntervalIs
<1>7. \A m \in Node : /\ Claims(node[m].interval, 1) <=> node[m].interval.upper >= Mate
                      /\ Claims(node[m].interval, -1) <=> node[m].interval.lower <= -Mate
                      /\ Claims(node[m].local, 1) <=> node[m].local.upper >= Mate
                      /\ Claims(node[m].local, -1) <=> node[m].local.lower <= -Mate
  BY <1>2, ClaimIs
<1>8. \A m \in Node : node[m].interval.lower \in Int /\ node[m].interval.upper \in Int
  BY <1>2 DEF Corridors
<1>9. CASE sign = 1
  <2>1. node[x].interval.upper >= Mate /\ ~(node[x].local.upper >= Mate)
    BY <1>1, <1>7, <1>9
  <2>2. PICK c \in Children(node, x) : node[x].interval.upper = -node[c].interval.lower
    BY <1>6, <2>1
  <2>3. c \in Node /\ node[c].interval.lower <= -Mate
    BY <1>4, <1>8, <2>1, <2>2, ScaleAssumption
  <2>4. Claims(node[c].interval, -1)
    BY <1>7, <2>3
  <2> QED BY <1>9, <2>4
<1>10. CASE sign = -1
  <2>1. node[x].interval.lower <= -Mate /\ ~(node[x].local.lower <= -Mate)
    BY <1>1, <1>7, <1>10
  <2>2. PICK c \in Children(node, x) : node[x].interval.lower = -node[c].interval.upper
    BY <1>6, <2>1
  <2>3. c \in Node /\ node[c].interval.upper >= Mate
    BY <1>4, <1>8, <2>1, <2>2, ScaleAssumption
  <2>4. Claims(node[c].interval, 1)
    BY <1>7, <2>3
  <2>5. -sign = 1
    <3>1. \A k \in Int : k + 1 = 0 => -k = 1
      OBVIOUS
    <3>2. sign \in Int /\ sign + 1 = 0
      BY <1>10
    <3> QED BY <3>1, <3>2
  <2> QED BY <2>4, <2>5
<1> QED BY <1>9, <1>10

LEMMA MateIsWitnessed == IInv => MateHasWitness
<1> SUFFICES ASSUME IInv, queued = {}
             PROVE  \A n \in Tree(node) : \A sign \in {1, -1} :
                      Claims(node[n].interval, sign) => \E m \in Below(node, n) : Witness(n, sign, m)
  BY DEF MateHasWitness, Claims, Witness
<1> DEFINE Holds(n, sign) == Claims(node[n].interval, sign) => \E m \in Below(node, n) : Witness(n, sign, m)
           A == {n \in Tree(node) : \E sign \in {1, -1} : ~Holds(n, sign)}
<1> SUFFICES ASSUME A # {} PROVE FALSE
  OBVIOUS
<1>1. A \in SUBSET Node
  BY TreeIsFinite
<1>2. PICK x \in A : \A y \in A : Ply[y] <= Ply[x]
  <2> HIDE DEF A
  <2> QED BY <1>1, DeepestNode
<1>3. PICK sign \in {1, -1} : ~Holds(x, sign)
  OBVIOUS
<1>4. x \in Node /\ x \in Tree(node) /\ TreeSound(node) /\ \A m \in Node : Sound(m, node[m])
  BY <1>1 DEF IInv, TreeSound
<1>5. Claims(node[x].interval, sign) /\ ~\E m \in Below(node, x) : Witness(x, sign, m)
  BY <1>3
<1>6. CASE Claims(node[x].local, sign)
  <2>1. node[x].local \in Corridors /\ Valid(node[x].local)
    BY <1>4 DEF Sound, Records
  <2>2. node[x].local.lower \in Int /\ node[x].local.upper \in Int /\ Mate \in Int
    BY <2>1, ScaleAssumption DEF Corridors
  <2>3. IsMate(node[x].local.lower) \/ IsMate(node[x].local.upper)
    BY <1>6, <2>1, <2>2, ClaimIs DEF IsMate
  <2>4. IsPoint(node[x].local)
    BY <1>4, <2>3 DEF Sound
  <2>5. sign * node[x].local.lower >= Mate
    BY <1>6, <2>1, <2>2, <2>4, ClaimIs DEF IsPoint
  <2>6. (Ply[x] - Ply[x]) % 2 = 0
    <3>1. Ply[x] \in Nat
      BY <1>4, GraphAssumption
    <3> QED BY <3>1
  <2>7. Witness(x, sign, x)
    BY <2>4, <2>5, <2>6 DEF Witness
  <2>8. x \in Below(node, x)
    BY <1>4, BelowIs
  <2> QED BY <1>5, <2>7, <2>8
<1>7. CASE ~Claims(node[x].local, sign)
  <2>1. PICK c \in Children(node, x) : Claims(node[c].interval, -sign)
    BY <1>4, <1>5, <1>7, ClaimFromChild
  <2>2. c \in Node /\ Ply[c] = Ply[x] + 1 /\ Below(node, c) \subseteq Below(node, x)
    BY <1>4, BelowChild
  <2>3. c \in Tree(node) /\ -sign \in {1, -1}
    BY <1>4 DEF TreeSound
  <2>4. c \notin A
    <3>1. Ply[c] \in Nat /\ Ply[x] \in Nat
      BY <1>4, <2>2, GraphAssumption
    <3> QED BY <1>2, <2>2, <3>1
  <2>5. PICK m \in Below(node, c) : Witness(c, -sign, m)
    BY <2>1, <2>3, <2>4
  <2>6. m \in Node
    <3>1. Below(node, c) \subseteq {c} \cup Deeper(c)
      BY <1>4, <2>2, BelowIs
    <3> QED BY <2>2, <3>1 DEF Deeper
  <2>7. (Ply[m] - Ply[x]) % 2 = 0 <=> ~((Ply[m] - Ply[c]) % 2 = 0)
    <3>1. Ply[c] \in Int /\ Ply[x] \in Int /\ Ply[m] \in Int
      BY <1>4, <2>2, <2>6, GraphAssumption
    <3>2. Ply[m] - Ply[x] = (Ply[m] - Ply[c]) + 1
      BY <2>2, <3>1
    <3>3. \A d \in Int : (d + 1) % 2 = 0 <=> ~(d % 2 = 0)
      OBVIOUS
    <3>4. Ply[m] - Ply[c] \in Int
      BY <3>1
    <3> QED BY <3>2, <3>3, <3>4
  <2>8. -(-sign) = sign
    OBVIOUS
  <2>9. Witness(x, sign, m)
    BY <2>5, <2>7, <2>8 DEF Witness
  <2> QED BY <1>5, <2>2, <2>5, <2>9
<1> QED BY <1>6, <1>7

(* A mate bound anywhere in the tree is a mate that was found: backup,      *)
(* negation, refinement and widening never make one up.                     *)
THEOREM MateComesFromBelow == Spec => []MateHasWitness
<1> QED BY MateIsWitnessed, Invariance, PTL

(* Fairness only forbids the worker thread to stop: what holds of Spec holds *)
(* of the specification the runs with a liveness property check.            *)
COROLLARY FairIsSpec == FairSpec => Spec
<1>1. [Next \/ Ended]_vars => [Next]_vars
  BY DEF Ended
<1> QED BY <1>1, PTL DEF FairSpec, Spec

=============================================================================
