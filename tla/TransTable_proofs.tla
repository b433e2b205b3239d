-------------------------- MODULE TransTable_proofs --------------------------
(***************************************************************************)
(* For every number of lanes, age cycle, set of keys and set of honest     *)
(* saves: a key never has two lanes, what cuts a search off is true of the *)
(* position probed, the entry that makes room is the one unused longest,   *)
(* and every step is one of the lossy cache the search relies on.          *)
(***************************************************************************)
EXTENDS TransTable, TLAPS

\* What an entry with a classic score says of its key, from any ply.
HonestEntry(e) ==
  "classic" \in e.meta =>
    /\ DepthFromTT(e.depth) \in Depth
    /\ \A ply \in Ply :
         LET t == AtPly(Truth[e.key][DepthFromTT(e.depth)], ply)
         IN  /\ e.bound = "Exact" => /\ ValueFromTT(e.lower, ply) = t
                                     /\ ValueFromTT(e.upper, ply) = t
             /\ e.bound = "Lower" => ValueFromTT(e.lower, ply) <= t
             /\ e.bound = "Upper" => t <= ValueFromTT(e.upper, ply)

EntriesHonest == \A l \in Lane : HonestEntry(lanes[l])

\* The inductive invariant.
IInv == TypeOK /\ OneLanePerKey /\ EntriesHonest

-----------------------------------------------------------------------------

\* A claim about a position's value at one ply, saved and read back at another,
\* is the same claim there.
LEMMA Rebase ==
  ASSUME NEW k \in VKey, NEW d \in Depth, NEW p \in Ply, NEW q \in Ply,
         NEW v, IsValue(v)
  PROVE  LET read == ValueFromTT(ValueToTT(v, p), q)
         IN  /\ v = AtPly(Truth[k][d], p) => read = AtPly(Truth[k][d], q)
             /\ v <= AtPly(Truth[k][d], p) => read <= AtPly(Truth[k][d], q)
             /\ AtPly(Truth[k][d], p) <= v => AtPly(Truth[k][d], q) <= read
<1> DEFINE t == Truth[k][d]
<1>1. p \in 0..246 /\ q \in 0..246 /\ t \in Int
      /\ v \in Int /\ -32001 <= v /\ v <= 32001
  BY SizeAssumption, TruthAssumption DEF MAX_PLY, IsValue, VALUE_INFINITE
<1>2. CASE t < 31508 /\ -t < 31508
  BY <1>1, <1>2 DEF AtPly, ValueFromTT, ValueToTT, VALUE_MATE_IN_MAX_PLY, VALUE_MATE,
                    MAX_PLY, VALUE_NONE
<1>3. CASE t - p >= 31754 /\ t - q >= 31754
  BY <1>1, <1>3 DEF AtPly, ValueFromTT, ValueToTT, VALUE_MATE_IN_MAX_PLY, VALUE_MATE,
                    MAX_PLY, VALUE_NONE
<1>4. CASE t + p <= -31754 /\ t + q <= -31754
  BY <1>1, <1>4 DEF AtPly, ValueFromTT, ValueToTT, VALUE_MATE_IN_MAX_PLY, VALUE_MATE,
                    MAX_PLY, VALUE_NONE
<1> QED
  BY <1>1, <1>2, <1>3, <1>4, TruthAssumption DEF ClearOfBand, VALUE_MATE_IN_MAX_PLY, VALUE_MATE, MAX_PLY

\* The entry a save leaves behind is honest if the save was.
LEMMA WrittenHonest ==
  ASSUME NEW r \in Request, NEW e, NEW move
  PROVE  HonestEntry(Written(e, r, move))
<1> DEFINE n == Written(e, r, move)
<1> SUFFICES ASSUME r.kind = "classic", NEW q \in Ply
             PROVE  /\ DepthFromTT(n.depth) = r.depth
                    /\ n.bound = "Exact" =>
                         /\ ValueFromTT(n.lower, q) = AtPly(Truth[r.key][r.depth], q)
                         /\ ValueFromTT(n.upper, q) = AtPly(Truth[r.key][r.depth], q)
                    /\ n.bound = "Lower" =>
                         ValueFromTT(n.lower, q) <= AtPly(Truth[r.key][r.depth], q)
                    /\ n.bound = "Upper" =>
                         AtPly(Truth[r.key][r.depth], q) <= ValueFromTT(n.upper, q)
  <2>1. ASSUME "classic" \in n.meta PROVE r.kind = "classic"
    BY <2>1, RequestAssumption DEF Written, Kinds
  <2>2. ASSUME r.kind = "classic" PROVE r.depth \in Depth /\ r.depth \in 0..254
    BY <2>2, RequestAssumption, SizeAssumption
  <2>3. ASSUME r.kind = "classic" PROVE DepthFromTT(n.depth) = r.depth
    BY <2>2, <2>3 DEF Written, Payload, DepthFromTT, DepthToTT
  <2>4. n.key = r.key
    BY DEF Written
  <2> QED
    BY <2>1, <2>2, <2>3, <2>4 DEF HonestEntry
<1>1. /\ r.key \in VKey /\ r.ply \in Ply /\ r.depth \in Depth /\ r.depth \in 0..254
      /\ IsValue(r.lower) /\ r.lower = r.upper
  BY RequestAssumption, SizeAssumption
<1>2. DepthFromTT(n.depth) = r.depth
  BY <1>1 DEF Written, Payload, DepthFromTT, DepthToTT
<1>3. n.bound = r.bound
  BY DEF Written, Payload, BoundOf
<1>4. r.bound # "Upper" => n.lower = ValueToTT(r.lower, r.ply)
  BY DEF Written, Payload, Lower
<1>5. r.bound # "Lower" => n.upper = ValueToTT(r.lower, r.ply)
  BY <1>1 DEF Written, Payload, Upper
<1>6. /\ r.bound = "Exact" => r.lower = AtPly(Truth[r.key][r.depth], r.ply)
      /\ r.bound = "Lower" => r.lower <= AtPly(Truth[r.key][r.depth], r.ply)
      /\ r.bound = "Upper" => AtPly(Truth[r.key][r.depth], r.ply) <= r.lower
  BY <1>1, RequestAssumption
<1> QED
  BY <1>1, <1>2, <1>3, <1>4, <1>5, <1>6, Rebase

\* Its fields are of the right type.
LEMMA WrittenType ==
  ASSUME NEW r \in Request, NEW e \in EntryType, generation \in 0..(AgeCycle - 1),
         NEW move \in {x.move : x \in Request} \cup {NoMove}
  PROVE  /\ Written(e, r, move) \in EntryType
         /\ Touched(e, r, move) \in EntryType
         /\ Occupied(Written(e, r, move))
<1>1. /\ r.key \in VKey /\ r.kind \in Kinds /\ r.bound \in Bounds /\ r.pv \in BOOLEAN
      /\ r.lower \in Int /\ r.upper \in Int /\ r.ply \in Int /\ r.depth \in Int /\ r.eval \in Int
  <2>1. /\ r.key \in VKey /\ r.kind \in Kinds /\ r.bound \in Bounds /\ r.pv \in BOOLEAN
        /\ r.depth \in Int /\ r.eval \in Int /\ r.ply \in Ply
    BY RequestAssumption, Zenon
  <2>2. r.lower \in Int /\ r.upper \in Int
    BY RequestAssumption, Zenon DEF IsValue
  <2>3. \A p \in Ply : p \in Int
    <3>1. Ply \subseteq 0..MAX_PLY
      BY SizeAssumption, Zenon
    <3>2. \A p \in 0..MAX_PLY : p \in Int
      OBVIOUS
    <3> QED
      BY <3>1, <3>2, Zenon
  <2> QED
    BY <2>1, <2>2, <2>3, Zenon
<1>2. Lower(r) \in Int /\ Upper(r) \in Int /\ BoundOf(r) \in Bounds /\ DepthToTT(r.depth) \in 0..255
  BY <1>1 DEF Lower, Upper, BoundOf, Bounds, VALUE_NONE, DepthToTT
<1>3. ValueToTT(Lower(r), r.ply) \in Int /\ ValueToTT(Upper(r), r.ply) \in Int
  BY <1>1, <1>2 DEF ValueToTT, VALUE_NONE, VALUE_MATE_IN_MAX_PLY, VALUE_MATE, MAX_PLY
<1>4. e.eval \in Int /\ e.meta \in SUBSET Meta
  BY DEF EntryType
<1>5. Written(e, r, move) \in EntryType
  <2>1. /\ Payload(r).lower \in Int /\ Payload(r).upper \in Int
        /\ Payload(r).depth \in 0..255 /\ Payload(r).bound \in Bounds
    BY <1>2, <1>3 DEF Payload
  <2>2. {r.kind} \cup (IF r.eval = VALUE_NONE THEN {} ELSE {"eval"}) \in SUBSET Meta
    BY <1>1 DEF Meta
  <2>3. (IF r.eval = VALUE_NONE THEN e.eval ELSE r.eval) \in Int
    BY <1>1, <1>4
  <2> QED
    BY <1>1, <2>1, <2>2, <2>3 DEF Written, EntryType
<1>6. Touched(e, r, move) \in EntryType
  BY <1>1, <1>4 DEF Touched, EntryType, Meta
<1>7. Occupied(Written(e, r, move))
  BY DEF Occupied, Written
<1> QED
  BY <1>5, <1>6, <1>7

-----------------------------------------------------------------------------

LEMMA Initially == Init => IInv
<1> SUFFICES ASSUME Init PROVE IInv
  OBVIOUS
<1>1. EmptyEntry \in EntryType /\ ~Occupied(EmptyEntry)
  BY SizeAssumption DEF EmptyEntry, EntryType, Bounds, Occupied, Meta
<1>2. HonestEntry(EmptyEntry)
  BY DEF EmptyEntry, HonestEntry
<1>3. TypeOK
  BY <1>1, SizeAssumption DEF Init, TypeOK
<1>4. OneLanePerKey /\ EntriesHonest
  BY <1>1, <1>2 DEF Init, OneLanePerKey, EntriesHonest
<1> QED
  BY <1>3, <1>4 DEF IInv

\* Every save writes one lane; the three ways differ in which, and in what.
LEMMA SaveStep ==
  ASSUME IInv, NEW r \in Request, NEW l \in Lane, NEW n \in EntryType,
         HonestEntry(n), Occupied(n), lanes' = [lanes EXCEPT ![l] = n],
         n.key = lanes[l].key \/ Absent(n.key),
         Occupied(lanes[l]) \/ \A m \in Lane : m < l => Occupied(lanes[m]),
         Occupied(lanes[l]) \/ \A m \in Lane : Occupied(lanes[m]) => lanes[m].key # n.key
  PROVE  lanes' \in [Lane -> EntryType] /\ OneLanePerKey' /\ EntriesHonest'
<1>1. lanes \in [Lane -> EntryType] /\ OneLanePerKey /\ EntriesHonest
  BY DEF IInv, TypeOK
<1>2. lanes' \in [Lane -> EntryType] /\ lanes'[l] = n /\ \A m \in Lane : m # l => lanes'[m] = lanes[m]
  BY <1>1
<1>3. EntriesHonest'
  BY <1>1, <1>2 DEF EntriesHonest, HonestEntry
<1>4. ASSUME NEW a \in Lane, NEW b \in Lane,
             Occupied(lanes'[a]), Occupied(lanes'[b]), lanes'[a].key = lanes'[b].key
      PROVE  a = b
  <2>1. ASSUME NEW m \in Lane, m # l, Occupied(lanes[m]) PROVE lanes[m].key # n.key
    BY <1>1, <2>1 DEF OneLanePerKey, Absent
  <2> QED
    BY <1>1, <1>2, <1>4, <2>1 DEF OneLanePerKey
<1>5. ASSUME NEW a \in Lane, NEW b \in Lane, Occupied(lanes'[a]), b < a
      PROVE  Occupied(lanes'[b])
  <2>1. CASE b = l
    BY <1>2, <2>1
  <2>2. CASE b # l /\ a = l
    BY <1>1, <1>2, <1>5, <2>2 DEF OneLanePerKey
  <2>3. CASE b # l /\ a # l
    BY <1>1, <1>2, <1>5, <2>3 DEF OneLanePerKey
  <2> QED
    BY <2>1, <2>2, <2>3
<1>6. ASSUME NEW a \in Lane, ~Occupied(lanes'[a]) PROVE lanes'[a] = EmptyEntry
  BY <1>1, <1>2, <1>6 DEF OneLanePerKey
<1>7. OneLanePerKey'
  BY <1>4, <1>5, <1>6 DEF OneLanePerKey, EmptyEntry, Occupied
<1> QED
  BY <1>2, <1>3, <1>7

LEMMA NextIInv == IInv /\ [Next]_vars => IInv'
<1> SUFFICES ASSUME IInv, [Next]_vars PROVE IInv'
  OBVIOUS
<1>0. /\ lanes \in [Lane -> EntryType] /\ generation \in 0..(AgeCycle - 1)
      /\ resized \in {"done", "failed"} /\ since \in [Lane -> 0..AgeCycle]
      /\ OneLanePerKey /\ EntriesHonest /\ AgeCycle \in Nat \ {0}
  BY SizeAssumption DEF IInv, TypeOK
<1>1. ASSUME NEW r \in Request, Update(r) PROVE IInv'
  <2>1. PICK l \in Lane : /\ Holds(l, r.key)
                          /\ lanes' = [lanes EXCEPT ![l] = Written(lanes[l], r, MoveFor(lanes[l], r))]
                          /\ since' = [since EXCEPT ![l] = 0]
                          /\ UNCHANGED <<generation, resized>>
    BY <1>0, <1>1 DEF Update
  <2> DEFINE n == Written(lanes[l], r, MoveFor(lanes[l], r))
  <2>2. lanes[l] \in EntryType /\ MoveFor(lanes[l], r) \in {x.move : x \in Request} \cup {NoMove}
    BY <1>0 DEF MoveFor, EntryType
  <2>3. n \in EntryType /\ Occupied(n) /\ HonestEntry(n) /\ n.key = r.key
    BY <1>0, <2>2, WrittenType, WrittenHonest DEF Written
  <2>4. lanes[l].key = r.key /\ \A m \in Lane : m < l => lanes[m].key # r.key
    BY <2>1 DEF Holds
  <2>5. ASSUME ~Occupied(lanes[l])
        PROVE  /\ \A m \in Lane : m < l => Occupied(lanes[m])
               /\ \A m \in Lane : Occupied(lanes[m]) => lanes[m].key # n.key
    <3>1. r.key = EmptyEntry.key
      BY <1>0, <2>4, <2>5 DEF OneLanePerKey
    <3>2. \A m \in Lane : m < l => Occupied(lanes[m])
      BY <1>0, <2>4, <3>1 DEF OneLanePerKey
    <3>3. ASSUME NEW m \in Lane, Occupied(lanes[m]) PROVE m < l
      BY <1>0, <2>5, <3>3 DEF OneLanePerKey, Lane
    <3> QED
      BY <2>3, <2>4, <3>2, <3>3
  <2>6. lanes' \in [Lane -> EntryType] /\ OneLanePerKey' /\ EntriesHonest'
    <3> HIDE DEF n
    <3> QED
      BY <2>1, <2>3, <2>4, <2>5, SaveStep DEF n
  <2> QED
    BY <1>0, <2>1, <2>6 DEF IInv, TypeOK
<1>2. ASSUME NEW r \in Request, Touch(r) PROVE IInv'
  <2>1. PICK l \in Lane : /\ ~WorthKeeping(lanes[l], r)
                          /\ lanes' = [lanes EXCEPT ![l] = Touched(lanes[l], r, MoveFor(lanes[l], r))]
                          /\ UNCHANGED <<generation, resized, since>>
    BY <1>0, <1>2 DEF Touch
  <2> DEFINE n == Touched(lanes[l], r, MoveFor(lanes[l], r))
  <2>2. lanes[l] \in EntryType /\ MoveFor(lanes[l], r) \in {x.move : x \in Request} \cup {NoMove}
    BY <1>0 DEF MoveFor, EntryType
  <2>3. n \in EntryType
    BY <1>0, <2>2, WrittenType
  <2>4. Occupied(lanes[l]) /\ Occupied(n) /\ n.key = lanes[l].key
    BY <2>1 DEF WorthKeeping, Occupied, Touched
  <2>5. HonestEntry(n)
    <3>1. HonestEntry(lanes[l])
      BY <1>0 DEF EntriesHonest
    <3>2. /\ n.key = lanes[l].key /\ n.lower = lanes[l].lower /\ n.upper = lanes[l].upper
          /\ n.depth = lanes[l].depth /\ n.bound = lanes[l].bound
          /\ "classic" \in n.meta => "classic" \in lanes[l].meta
      BY DEF Touched
    <3> HIDE DEF n
    <3> QED
      BY <3>1, <3>2 DEF HonestEntry
  <2>6. lanes' \in [Lane -> EntryType] /\ OneLanePerKey' /\ EntriesHonest'
    <3> HIDE DEF n
    <3> QED
      BY <2>1, <2>3, <2>4, <2>5, SaveStep DEF n
  <2> QED
    BY <1>0, <2>1, <2>6 DEF IInv, TypeOK
<1>3. ASSUME NEW r \in Request, Insert(r) PROVE IInv'
  <2>1. PICK l \in Lane : /\ Replaceable(l) /\ Absent(r.key)
                          /\ lanes' = [lanes EXCEPT ![l] = Written(lanes[l], r, r.move)]
                          /\ since' = [since EXCEPT ![l] = 0]
                          /\ UNCHANGED <<generation, resized>>
    BY <1>0, <1>3 DEF Insert
  <2> DEFINE n == Written(lanes[l], r, r.move)
  <2>2. n \in EntryType /\ Occupied(n) /\ HonestEntry(n) /\ n.key = r.key
    BY <1>0, WrittenType, WrittenHonest DEF Written
  <2>3. /\ Occupied(lanes[l]) \/ \A m \in Lane : m < l => Occupied(lanes[m])
        /\ \A m \in Lane : lanes[m].key # n.key
        /\ Absent(n.key)
    BY <2>1, <2>2 DEF Replaceable, Absent
  <2>4. lanes' \in [Lane -> EntryType] /\ OneLanePerKey' /\ EntriesHonest'
    <3> HIDE DEF n
    <3> QED
      BY <2>1, <2>2, <2>3, SaveStep DEF n
  <2> QED
    BY <1>0, <2>1, <2>4 DEF IInv, TypeOK
<1>4. ASSUME NewSearch PROVE IInv'
  <2>1. generation' \in 0..(AgeCycle - 1)
    BY <1>0, <1>4 DEF NewSearch
  <2>2. since' \in [Lane -> 0..AgeCycle]
    BY <1>0, <1>4 DEF NewSearch
  <2> QED
    BY <1>0, <1>4, <2>1, <2>2 DEF NewSearch, IInv, TypeOK, OneLanePerKey, EntriesHonest
<1>5. ASSUME Wipe, resized' \in {"done", "failed"} PROVE IInv'
  <2>1. EmptyEntry \in EntryType /\ ~Occupied(EmptyEntry) /\ HonestEntry(EmptyEntry)
    BY SizeAssumption DEF EmptyEntry, EntryType, Bounds, Occupied, Meta, HonestEntry
  <2>2. TypeOK'
    BY <1>0, <1>5, <2>1 DEF Wipe, TypeOK
  <2>3. OneLanePerKey' /\ EntriesHonest'
    BY <1>5, <2>1 DEF Wipe, OneLanePerKey, EntriesHonest
  <2> QED
    BY <2>2, <2>3 DEF IInv
<1>6. CASE ResizeFails \/ UNCHANGED vars
  BY <1>0, <1>6 DEF ResizeFails, vars, IInv, TypeOK, OneLanePerKey, EntriesHonest
<1> QED
  BY <1>0, <1>1, <1>2, <1>3, <1>4, <1>5, <1>6 DEF Next, Clear, Resize

\* What cuts a search off was true of the position probed, for honest saves.
LEMMA CutsHonestly == IInv => CutoffSound
<1> SUFFICES ASSUME IInv, NEW l \in Lane, NEW k \in VKey, NEW ply \in Ply, NEW need \in Depth,
                    NEW w \in Window, Hit(l, k),
                    NEW v \in Cutoff(lanes[l], ply, need, w[1], w[2])
             PROVE  \E d \in Depth :
                      /\ d >= need
                      /\ LET t == AtPly(Truth[k][d], ply)
                         IN  /\ v >= w[2] => t >= w[2]
                             /\ v <= w[1] => t <= w[1]
                             /\ w[1] < v /\ v < w[2] => t = v
  BY DEF CutoffSound
<1> DEFINE e == lanes[l]
           d == DepthFromTT(e.depth)
           t == AtPly(Truth[k][d], ply)
           lower == ValueFromTT(e.lower, ply)
           upper == ValueFromTT(e.upper, ply)
<1>1. e.key = k /\ HonestEntry(e)
  BY DEF Hit, Holds, IInv, EntriesHonest
<1>2. /\ "classic" \in e.meta /\ d >= need /\ v \in {lower, upper}
      /\ \/ e.bound = "Exact" /\ lower = upper
         \/ e.bound = "Lower" /\ v = lower /\ v >= w[2]
         \/ e.bound = "Upper" /\ v = upper /\ v <= w[1]
  BY DEF Cutoff
<1>3. /\ d \in Depth
      /\ e.bound = "Exact" => lower = t /\ upper = t
      /\ e.bound = "Lower" => lower <= t
      /\ e.bound = "Upper" => t <= upper
  BY <1>1, <1>2 DEF HonestEntry
<1>4. w[1] \in Int /\ w[2] \in Int /\ w[1] < w[2]
  BY SizeAssumption
<1>5. t \in Int /\ lower \in Int /\ upper \in Int
  <2> HIDE DEF d
  <2>1. ply \in Int
    BY SizeAssumption DEF MAX_PLY
  <2>3. d \in Depth
    BY <1>3
  <2>4. Truth[k][d] \in Int
    BY <2>3, TruthAssumption
  <2> USE DEF d
  <2>2. e.lower \in Int /\ e.upper \in Int
    BY DEF IInv, TypeOK, EntryType
  <2> HIDE DEF e, d
  <2> QED
    BY <2>1, <2>2, <2>4 DEF AtPly, ValueFromTT, VALUE_NONE, VALUE_MATE_IN_MAX_PLY, VALUE_MATE, MAX_PLY
<1> HIDE DEF e, d, t, lower, upper
<1>6. /\ v >= w[2] => t >= w[2]
      /\ v <= w[1] => t <= w[1]
      /\ w[1] < v /\ v < w[2] => t = v
  BY <1>2, <1>3, <1>4, <1>5
<1> QED
  BY <1>2, <1>3, <1>6 DEF t

\* However saves, searches, clears and resizes follow one another, the types
\* hold and a key has one lane at most, the key 0 of zeroed memory included.
THEOREM LanesOfKeys == Spec => [](TypeOK /\ OneLanePerKey)
<1>1. IInv => TypeOK /\ OneLanePerKey
  BY DEF IInv
<1> QED
  BY <1>1, Initially, NextIInv, PTL DEF Spec

\* And a score that cuts the search off is on the right side of the window.
THEOREM CutoffsAreSound == Spec => []CutoffSound
  BY CutsHonestly, Initially, NextIInv, PTL DEF Spec

-----------------------------------------------------------------------------
\* Ages: the age of an entry tells for how many searches it has stood, until it has
\* gone round.

AgesTrue ==
  \A l \in Lane : Occupied(lanes[l]) /\ since[l] < AgeCycle => RelativeAge(lanes[l].age) = since[l]

LEMMA Remainder ==
  ASSUME NEW n \in Nat \ {0}, NEW m \in 0..(n - 1)
  PROVE  m % n = m /\ (n + m) % n = m
<1>1. ASSUME NEW x \in Nat, NEW y \in {0, 1}, x = y * n + m PROVE x % n = m
  <2> DEFINE q == x \div n
             z == x % n
  <2>1. q \in Int /\ z \in 0..(n - 1) /\ x = q * n + z
    OBVIOUS
  <2> HIDE DEF q, z
  <2>2. (q - y) * n = m - z
    BY <1>1, <2>1
  <2>3. q - y <= 0
    <3>1. SUFFICES ASSUME q - y >= 1 PROVE FALSE
      BY <2>1
    <3>2. (q - y) * n >= n
      BY <2>1, <3>1
    <3> QED  BY <2>1, <2>2, <3>2
  <2>4. q - y >= 0
    <3>1. SUFFICES ASSUME q - y <= -1 PROVE FALSE
      BY <2>1
    <3>2. (q - y) * n <= -n
      BY <2>1, <3>1
    <3> QED  BY <2>1, <2>2, <3>2
  <2>5. q = y
    BY <2>1, <2>3, <2>4
  <2>6. z = m
    BY <2>1, <2>2, <2>5
  <2> QED  BY <2>6 DEF z
<1>2. m \in Nat /\ m = 0 * n + m /\ n + m \in Nat /\ n + m = 1 * n + m
  OBVIOUS
<1>3. m % n = m
  BY <1>1, <1>2
<1>4. (n + m) % n = m
  BY <1>1, <1>2
<1> QED  BY <1>3, <1>4

LEMMA AgeIs ==
  ASSUME NEW age \in 0..(AgeCycle - 1), generation \in 0..(AgeCycle - 1)
  PROVE  RelativeAge(age) = IF age <= generation THEN generation - age ELSE AgeCycle + generation - age
<1>1. AgeCycle \in Nat \ {0}
  BY SizeAssumption
<1>2. CASE age <= generation
  <2> DEFINE m == generation - age
  <2>1. m \in 0..(AgeCycle - 1) /\ AgeCycle + generation - age = AgeCycle + m
    BY <1>1, <1>2
  <2> HIDE DEF m
  <2>2. (AgeCycle + m) % AgeCycle = m
    BY <1>1, <2>1, Remainder
  <2> QED  BY <1>2, <2>1, <2>2 DEF RelativeAge, m
<1>3. CASE ~(age <= generation)
  <2> DEFINE m == AgeCycle + generation - age
  <2>1. m \in 0..(AgeCycle - 1)
    BY <1>1, <1>3
  <2> HIDE DEF m
  <2>2. m % AgeCycle = m
    BY <1>1, <2>1, Remainder
  <2> QED  BY <1>3, <2>2 DEF RelativeAge, m
<1> QED  BY <1>2, <1>3

LEMMA AgesInitially == Init => AgesTrue
BY DEF Init, AgesTrue, EmptyEntry, Occupied

LEMMA AgesStep == IInv /\ IInv' /\ AgesTrue /\ [Next]_vars => AgesTrue'
<1> SUFFICES ASSUME IInv, IInv', AgesTrue, [Next]_vars,
                    NEW l \in Lane, Occupied(lanes'[l]), since'[l] < AgeCycle
             PROVE  RelativeAge(lanes[l].age)' = since'[l]
  BY DEF AgesTrue, Occupied
<1>1. /\ lanes \in [Lane -> EntryType] /\ generation \in 0..(AgeCycle - 1)
      /\ since \in [Lane -> 0..AgeCycle] /\ AgeCycle \in Nat \ {0}
  BY SizeAssumption DEF IInv, TypeOK
<1>2. lanes[l].age \in 0..(AgeCycle - 1) /\ since[l] \in 0..AgeCycle
  BY <1>1 DEF EntryType
<1>3. Occupied(lanes[l]) /\ since[l] < AgeCycle => RelativeAge(lanes[l].age) = since[l]
  BY DEF AgesTrue
<1>4. ASSUME UNCHANGED generation, lanes'[l].age = lanes[l].age, since'[l] = since[l],
             Occupied(lanes[l])
      PROVE  RelativeAge(lanes[l].age)' = since'[l]
  BY <1>3, <1>4 DEF RelativeAge
<1>5. ASSUME NEW r \in Request, NEW m \in Lane, NEW move, UNCHANGED generation,
             lanes' = [lanes EXCEPT ![m] = Written(lanes[m], r, move)], since' = [since EXCEPT ![m] = 0]
      PROVE  RelativeAge(lanes[l].age)' = since'[l]
  <2>1. CASE l = m
    <3>1. lanes'[l].age = generation /\ since'[l] = 0
      BY <1>1, <1>5, <2>1 DEF Written
    <3>2. RelativeAge(generation) = 0
      BY <1>1, AgeIs
    <3> QED  BY <1>5, <3>1, <3>2 DEF RelativeAge
  <2>2. CASE l # m
    BY <1>1, <1>4, <1>5, <2>2
  <2> QED  BY <2>1, <2>2
<1>6. ASSUME NEW r \in Request, Update(r) \/ Insert(r) PROVE RelativeAge(lanes[l].age)' = since'[l]
  BY <1>5, <1>6 DEF Update, Insert
<1>7. ASSUME NEW r \in Request, Touch(r) PROVE RelativeAge(lanes[l].age)' = since'[l]
  <2>1. PICK m \in Lane : /\ ~WorthKeeping(lanes[m], r)
                          /\ lanes' = [lanes EXCEPT ![m] = Touched(lanes[m], r, MoveFor(lanes[m], r))]
                          /\ UNCHANGED <<generation, resized, since>>
    BY <1>1, <1>7 DEF Touch
  <2>2. Occupied(lanes[m])
    BY <2>1 DEF WorthKeeping, Occupied
  <2>3. lanes'[l].age = lanes[l].age /\ Occupied(lanes[l])
    <3>1. CASE l = m
      BY <1>1, <2>1, <2>2, <3>1 DEF Touched
    <3>2. CASE l # m
      BY <1>1, <2>1, <3>2
    <3> QED  BY <3>1, <3>2
  <2> QED  BY <1>4, <2>1, <2>3
<1>8. CASE NewSearch
  <2> DEFINE a == lanes[l].age
  <2>1. /\ lanes' = lanes /\ generation' = (generation + 1) % AgeCycle
        /\ since'[l] = IF since[l] = AgeCycle THEN AgeCycle ELSE since[l] + 1
    BY <1>8 DEF NewSearch
  <2>2. since[l] < AgeCycle /\ since'[l] = since[l] + 1 /\ Occupied(lanes[l])
    BY <1>1, <1>2, <2>1
  <2>3. RelativeAge(a) = since[l] /\ a \in 0..(AgeCycle - 1)
    BY <1>2, <1>3, <2>2
  <2> HIDE DEF a
  <2>4. since[l] = IF a <= generation THEN generation - a ELSE AgeCycle + generation - a
    BY <1>1, <2>3, AgeIs
  <2>5. generation' = IF generation + 1 = AgeCycle THEN 0 ELSE generation + 1
    <3>1. CASE generation + 1 = AgeCycle
      <4>1. AgeCycle + 0 = AgeCycle /\ 0 \in 0..(AgeCycle - 1)
        BY <1>1
      <4>2. (AgeCycle + 0) % AgeCycle = 0
        BY <1>1, <4>1, Remainder
      <4> QED  BY <2>1, <3>1, <4>1, <4>2
    <3>2. CASE generation + 1 # AgeCycle
      <4>1. generation + 1 \in 0..(AgeCycle - 1)
        BY <1>1, <3>2
      <4> QED  BY <1>1, <2>1, <3>2, <4>1, Remainder
    <3> QED  BY <3>1, <3>2
  <2>6. RelativeAge(a)' = IF a <= generation' THEN generation' - a ELSE AgeCycle + generation' - a
    <3>1. generation' \in 0..(AgeCycle - 1)
      BY DEF IInv, TypeOK
    <3>2. a' = a
      BY <2>1 DEF a
    <3>3. CASE a <= generation'
      <4> DEFINE m == generation' - a
      <4>1. m \in 0..(AgeCycle - 1) /\ AgeCycle + generation' - a = AgeCycle + m
        <5>1. \A g, b, n \in Int :
                0 <= g /\ g < n /\ 0 <= b /\ b <= g => g - b \in 0..(n - 1) /\ n + g - b = n + (g - b)
          OBVIOUS
        <5>2. /\ generation' \in Int /\ a \in Int /\ AgeCycle \in Int
              /\ 0 <= generation' /\ generation' < AgeCycle /\ 0 <= a
          BY <1>1, <2>3, <3>1
        <5> QED  BY <3>3, <5>1, <5>2, Zenon
      <4> HIDE DEF m
      <4>2. (AgeCycle + m) % AgeCycle = m
        BY <1>1, <4>1, Remainder
      <4> QED  BY <3>2, <3>3, <4>1, <4>2 DEF RelativeAge, m
    <3>4. CASE ~(a <= generation')
      <4> DEFINE m == AgeCycle + generation' - a
      <4>1. m \in 0..(AgeCycle - 1)
        <5>1. \A g, b, n \in Int :
                0 <= g /\ g < n /\ 0 <= b /\ b < n /\ g < b => n + g - b \in 0..(n - 1)
          OBVIOUS
        <5>2. /\ generation' \in Int /\ a \in Int /\ AgeCycle \in Int
              /\ 0 <= generation' /\ generation' < AgeCycle /\ 0 <= a /\ a < AgeCycle
          BY <1>1, <2>3, <3>1
        <5>3. generation' < a
          BY <3>4, <5>2
        <5> QED  BY <5>1, <5>2, <5>3, Zenon
      <4> HIDE DEF m
      <4>2. m % AgeCycle = m
        BY <1>1, <4>1, Remainder
      <4> QED  BY <3>2, <3>4, <4>2 DEF RelativeAge, m
    <3> QED  BY <3>3, <3>4
  <2>7. RelativeAge(a)' = since[l] + 1
    <3>1. AgeCycle \in Nat /\ AgeCycle > 0 /\ generation \in Int /\ 0 <= generation /\ generation < AgeCycle
          /\ a \in Int /\ 0 <= a /\ a < AgeCycle /\ since[l] + 1 < AgeCycle
      BY <1>1, <2>2, <2>3
    <3> QED  BY <2>4, <2>5, <2>6, <3>1
  <2> QED  BY <2>2, <2>7 DEF a
<1>9. CASE Wipe
  <2>1. lanes'[l] = EmptyEntry
    BY <1>9 DEF Wipe
  <2> QED  BY <2>1 DEF EmptyEntry, Occupied
<1>10. CASE ResizeFails \/ UNCHANGED vars
  BY <1>4, <1>10 DEF ResizeFails, vars
<1> QED
  BY <1>6, <1>7, <1>8, <1>9, <1>10 DEF Next, Clear, Resize

\* Which entry goes: only Insert evicts, from a full cluster, the lane of least quality;
\* among entries whose ages tell how long they have stood, an older one that stays was
\* the better for it.
LEMMA EvictionStep ==
  ASSUME IInv, AgesTrue, [Next]_vars, NEW l \in Lane, NEW m \in Lane, Evicted(l),
         since[l] < since[m], since[m] < AgeCycle
  PROVE  LaneWeight(l) < LaneWeight(m)
<1>1. /\ lanes \in [Lane -> EntryType] /\ generation \in 0..(AgeCycle - 1)
      /\ since \in [Lane -> 0..AgeCycle] /\ AgeCycle \in Nat \ {0}
  BY SizeAssumption DEF IInv, TypeOK
<1>2. lanes'[l].key # lanes[l].key /\ Occupied(lanes[l]) /\ Occupied(lanes'[l])
  BY DEF Evicted
<1>3. PICK r \in Request : Insert(r)
  <2>1. ASSUME NEW r \in Request, Update(r) PROVE FALSE
    <3>1. PICK j \in Lane : /\ Holds(j, r.key)
                            /\ lanes' = [lanes EXCEPT ![j] = Written(lanes[j], r, MoveFor(lanes[j], r))]
      BY <1>1, <2>1 DEF Update
    <3>2. lanes[j].key = r.key /\ lanes'[j].key = r.key
      BY <1>1, <3>1 DEF Holds, Written
    <3>3. \A i \in Lane : i # j => lanes'[i] = lanes[i]
      BY <1>1, <3>1
    <3> QED  BY <1>2, <3>2, <3>3
  <2>2. ASSUME NEW r \in Request, Touch(r) PROVE FALSE
    <3>1. PICK j \in Lane : lanes' = [lanes EXCEPT ![j] = Touched(lanes[j], r, MoveFor(lanes[j], r))]
      BY <1>1, <2>2 DEF Touch
    <3>2. lanes'[j].key = lanes[j].key
      BY <1>1, <3>1 DEF Touched
    <3>3. \A i \in Lane : i # j => lanes'[i] = lanes[i]
      BY <1>1, <3>1
    <3> QED  BY <1>2, <3>2, <3>3
  <2>3. ~Wipe
    BY <1>2 DEF Wipe, EmptyEntry, Occupied
  <2>4. ~(NewSearch \/ ResizeFails \/ UNCHANGED vars)
    BY <1>2 DEF NewSearch, ResizeFails, vars
  <2> QED  BY <2>1, <2>2, <2>3, <2>4 DEF Next, Clear, Resize
<1>4. PICK j \in Lane : Replaceable(j) /\ lanes' = [lanes EXCEPT ![j] = Written(lanes[j], r, r.move)]
  BY <1>1, <1>3 DEF Insert
<1>5. l = j
  BY <1>1, <1>2, <1>4
<1>6. Occupied(lanes[m]) /\ Quality(lanes[l]) <= Quality(lanes[m])
  <2>1. \A e \in EntryType : Quality(e) \in Int
    <3> SUFFICES ASSUME NEW e \in EntryType PROVE Quality(e) \in Int
      OBVIOUS
    <3>1. e.depth \in 0..255 /\ e.age \in 0..(AgeCycle - 1)
      BY DEF EntryType
    <3>2. RelativeAge(e.age) \in Int
      BY <1>1, <3>1, AgeIs
    <3>3. Weight(DepthFromTT(e.depth), e.bound, e.pv) \in Int
      BY <3>1 DEF Weight, DepthFromTT
    <3> QED  BY <3>2, <3>3 DEF Quality
  <2>2. Quality(lanes[l]) \in Int /\ Quality(lanes[m]) \in Int
    BY <1>1, <2>1
  <2> QED  BY <1>2, <1>4, <1>5, <2>2 DEF Replaceable
<1>7. RelativeAge(lanes[l].age) = since[l] /\ RelativeAge(lanes[m].age) = since[m]
  <2>1. since[l] < AgeCycle
    BY <1>1
  <2> QED  BY <1>2, <1>6, <2>1 DEF AgesTrue
<1>8. LaneWeight(l) - 8 * since[l] <= LaneWeight(m) - 8 * since[m]
  BY <1>6, <1>7 DEF Quality, LaneWeight
<1>9. LaneWeight(l) \in Int /\ LaneWeight(m) \in Int
  <2>1. lanes[l].depth \in Int /\ lanes[m].depth \in Int
    BY <1>1, SMTT(30) DEF EntryType
  <2> QED  BY <2>1 DEF LaneWeight, Weight, DepthFromTT
<1>10. since[l] \in Int /\ since[m] \in Int
  BY <1>1
<1> HIDE DEF LaneWeight
<1> QED  BY <1>8, <1>9, <1>10

\* A save that evicts an entry spares none that is older and no better.
THEOREM StaleGoesFirst == Spec => EvictsStaleFirst
<1>1. IInv /\ AgesTrue /\ [Next]_vars =>
        \A l, m \in Lane : Evicted(l) /\ since[l] < since[m] /\ since[m] < AgeCycle
          => LaneWeight(l) < LaneWeight(m)
  BY EvictionStep
<1> QED
  BY <1>1, Initially, NextIInv, AgesInitially, AgesStep, PTL DEF Spec, EvictsStaleFirst

-----------------------------------------------------------------------------
\* The refinement: what the cluster answers under each key is what TTCache says a lossy
\* cache keeps.

\* What probe reads from an entry.
View(e) ==
  [score |-> [lower |-> e.lower, upper |-> e.upper, depth |-> e.depth,
              bound |-> e.bound, pv |-> e.pv, kind |-> e.meta \ {"eval"}],
   move |-> e.move,
   eval |-> IF "eval" \in e.meta THEN e.eval ELSE VALUE_NONE]

Has(l, k) == Occupied(lanes[l]) /\ lanes[l].key = k

LEMMA ViewIsAnswer == ASSUME NEW e \in EntryType PROVE View(e) # Miss
<1>1. /\ e.lower \in Int /\ e.upper \in Int /\ e.depth \in 0..255 /\ e.bound \in Bounds
      /\ e.pv \in BOOLEAN /\ e.move \in {r.move : r \in Request} \cup {NoMove}
      /\ e.eval \in Int /\ e.meta \in SUBSET Meta
  BY DEF EntryType
<1>2. e.meta \ {"eval"} \in SUBSET Kinds
  BY <1>1 DEF Meta
<1>3. (IF "eval" \in e.meta THEN e.eval ELSE VALUE_NONE) \in Int
  BY <1>1 DEF VALUE_NONE
<1> DEFINE ev == IF "eval" \in e.meta THEN e.eval ELSE VALUE_NONE
           kd == e.meta \ {"eval"}
<1>4. View(e) = [score |-> [lower |-> e.lower, upper |-> e.upper, depth |-> e.depth,
                            bound |-> e.bound, pv |-> e.pv, kind |-> kd],
                 move |-> e.move, eval |-> ev]
  BY DEF View
<1>5. kd \in SUBSET Kinds /\ ev \in Int
  BY <1>2, <1>3
<1> HIDE DEF ev, kd
<1>6. View(e) \in [score: [lower: Int, upper: Int, depth: 0..255, bound: Bounds, pv: BOOLEAN,
                           kind: SUBSET Kinds],
                   move: {r.move : r \in Request} \cup {NoMove}, eval: Int]
  BY <1>1, <1>4, <1>5
<1> QED  BY <1>6, MissAssumption

\* The lane that answers for a key is the only one that has it.
LEMMA HitIs ==
  ASSUME IInv, NEW l \in Lane, NEW k
  PROVE  /\ Hit(l, k) <=> Has(l, k)
         /\ \A m \in Lane : Has(l, k) /\ Has(m, k) => l = m
<1>1. OneLanePerKey
  BY DEF IInv
<1>2. ASSUME Has(l, k), NEW m \in Lane, m < l PROVE lanes[m].key # k
  <2>1. Occupied(lanes[m])
    BY <1>1, <1>2 DEF OneLanePerKey, Has
  <2>2. lanes[m].key = k => m = l
    BY <1>1, <1>2, <2>1 DEF OneLanePerKey, Has
  <2> QED  BY <1>2, <2>2 DEF Lane
<1>3. Hit(l, k) <=> Has(l, k)
  BY <1>2 DEF Hit, Holds, Has
<1>4. \A m \in Lane : Has(l, k) /\ Has(m, k) => l = m
  BY <1>1 DEF OneLanePerKey, Has
<1> QED  BY <1>3, <1>4

KeptIs ==
  \A k \in VKey :
    /\ \A l \in Lane : Has(l, k) => Kept(k) = View(lanes[l]) /\ Kept(k) # Miss
    /\ (\A l \in Lane : ~Has(l, k)) => Kept(k) = Miss

LEMMA KeptNow == IInv => KeptIs
<1> SUFFICES ASSUME IInv, NEW k \in VKey
             PROVE  /\ \A l \in Lane : Has(l, k) => Kept(k) = View(lanes[l]) /\ Kept(k) # Miss
                    /\ (\A l \in Lane : ~Has(l, k)) => Kept(k) = Miss
  BY DEF KeptIs
<1>1. ASSUME NEW l \in Lane, Has(l, k) PROVE Kept(k) = View(lanes[l]) /\ Kept(k) # Miss
  <2> DEFINE c == CHOOSE m \in Lane : Hit(m, k)
  <2>1. \A m \in Lane : Hit(m, k) <=> m = l
    BY <1>1, HitIs
  <2>2. c = l
    BY <2>1
  <2>3. Kept(k) = View(lanes[c])
    BY <2>1 DEF Kept, View
  <2>4. lanes[l] \in EntryType
    BY DEF IInv, TypeOK
  <2> QED  BY <2>2, <2>3, <2>4, ViewIsAnswer
<1>2. ASSUME \A l \in Lane : ~Has(l, k) PROVE Kept(k) = Miss
  <2>1. \A m \in Lane : ~Hit(m, k)
    BY <1>2, HitIs
  <2> QED  BY <2>1 DEF Kept
<1> QED  BY <1>1, <1>2

LEMMA KeptThen == IInv' => KeptIs'
BY KeptNow, PTL

\* A save into lane l leaves every key alone but its own and the one that was there.
LEMMA OtherKeys ==
  ASSUME IInv, IInv', NEW l \in Lane, NEW k \in VKey, \A m \in Lane : m # l => lanes'[m] = lanes[m],
         ~Has(l, k), lanes'[l].key # k
  PROVE  Kept(k)' = Kept(k)
<1>1. ~Has(l, k)' /\ \A m \in Lane : m # l => (Has(m, k)' <=> Has(m, k))
  BY DEF Has, Occupied
<1>2. ASSUME NEW m \in Lane, Has(m, k) PROVE Kept(k)' = Kept(k)
  <2>1. m # l /\ Has(m, k)'
    BY <1>1, <1>2
  <2>2. Kept(k)' = View(lanes[m])'
    BY <2>1, KeptThen DEF KeptIs
  <2>3. Kept(k) = View(lanes[m])
    BY <1>2, KeptNow DEF KeptIs
  <2>4. View(lanes[m])' = View(lanes[m])
    BY <2>1 DEF View
  <2> QED  BY <2>2, <2>3, <2>4
<1>3. ASSUME \A m \in Lane : ~Has(m, k) PROVE Kept(k)' = Kept(k)
  <2>1. \A m \in Lane : ~Has(m, k)'
    BY <1>1, <1>3
  <2>2. Kept(k)' = Miss
    BY <2>1, KeptThen DEF KeptIs
  <2> QED  BY <1>3, <2>2, KeptNow DEF KeptIs
<1> QED  BY <1>2, <1>3

\* The store that the refinement mapping makes of the cluster.
Table == [k \in VKey |-> Kept(k)]

\* A save that writes entry n into lane l, its own or that of a key it evicts.
LEMMA WriteMaps ==
  ASSUME IInv, IInv', NEW l \in Lane, NEW n, lanes' = [lanes EXCEPT ![l] = n],
         Occupied(n), n.key \in VKey,
         lanes[l].key = n.key \/ (\A m \in Lane : ~Has(m, n.key))
  PROVE  /\ Kept(n.key)' = View(n)
         /\ \A k \in VKey : k # n.key =>
              Kept(k)' = IF Has(l, k) THEN Miss ELSE Kept(k)
<1>1. lanes \in [Lane -> EntryType]
  BY DEF IInv, TypeOK
<1>2. lanes'[l] = n /\ \A m \in Lane : m # l => lanes'[m] = lanes[m]
  BY <1>1
<1>3. Kept(n.key)' = View(n)
  <2>1. Has(l, n.key)'
    BY <1>2 DEF Has, Occupied
  <2>2. Kept(n.key)' = View(lanes'[l])
    BY <2>1, KeptThen DEF KeptIs, View
  <2> QED  BY <1>2, <2>2
<1>4. ASSUME NEW k \in VKey, k # n.key
      PROVE  Kept(k)' = IF Has(l, k) THEN Miss ELSE Kept(k)
  <2>1. CASE Has(l, k)
    <3>1. ASSUME NEW m \in Lane PROVE ~Has(m, k)'
      <4>1. CASE m = l
        BY <1>2, <1>4, <4>1 DEF Has
      <4>2. CASE m # l
        <5>1. ~Has(m, k)
          BY <2>1, <4>2, HitIs
        <5> QED  BY <1>2, <4>2, <5>1 DEF Has, Occupied
      <4> QED  BY <4>1, <4>2
    <3>2. Kept(k)' = Miss
      BY <3>1, KeptThen DEF KeptIs
    <3> QED  BY <2>1, <3>2
  <2>2. CASE ~Has(l, k)
    BY <1>2, <1>4, <2>2, OtherKeys
  <2> QED  BY <2>1, <2>2
<1> QED  BY <1>3, <1>4

\* The entry a save writes reads back as what TTCache's Replaced says.
LEMMA WrittenReads ==
  ASSUME NEW r \in Request, NEW e, NEW move
  PROVE  View(Written(e, r, move)) = [score |-> Payload(r), move |-> move, eval |-> r.eval]
<1> DEFINE n == Written(e, r, move)
           bits == {r.kind} \cup IF r.eval = VALUE_NONE THEN {} ELSE {"eval"}
<1>1. r.kind # "eval"
  BY RequestAssumption DEF Kinds
<1>2. /\ n.lower = Payload(r).lower /\ n.upper = Payload(r).upper /\ n.depth = Payload(r).depth
      /\ n.bound = Payload(r).bound /\ n.pv = r.pv /\ n.move = move /\ n.meta = bits
      /\ n.eval = IF r.eval = VALUE_NONE THEN e.eval ELSE r.eval
  BY DEF Written
<1>3. bits \ {"eval"} = {r.kind} /\ ("eval" \in bits <=> r.eval # VALUE_NONE)
  BY <1>1
<1> HIDE DEF n, bits
<1>4. [lower |-> n.lower, upper |-> n.upper, depth |-> n.depth, bound |-> n.bound, pv |-> n.pv,
       kind |-> n.meta \ {"eval"}] = Payload(r)
  <2>1. n.meta \ {"eval"} = {r.kind}
    BY <1>2, <1>3
  <2>2. Payload(r).pv = r.pv /\ Payload(r).kind = {r.kind}
        /\ Payload(r) = [lower |-> Payload(r).lower, upper |-> Payload(r).upper,
                         depth |-> Payload(r).depth, bound |-> Payload(r).bound,
                         pv |-> r.pv, kind |-> {r.kind}]
    BY DEF Payload
  <2> QED  BY <1>2, <2>1, <2>2
<1>5. (IF "eval" \in n.meta THEN n.eval ELSE VALUE_NONE) = r.eval
  BY <1>2, <1>3
<1>6. View(n) = [score |-> Payload(r), move |-> move, eval |-> r.eval]
  BY <1>2, <1>4, <1>5 DEF View
<1> QED  BY <1>6 DEF n

LEMMA InitMaps == IInv /\ Init => Cache!Init
<1> SUFFICES ASSUME IInv, Init PROVE Cache!Init
  OBVIOUS
<1>1. \A l \in Lane : \A k : ~Has(l, k)
  BY DEF Init, Has, Occupied, EmptyEntry
<1>2. \A k \in VKey : Kept(k) = Miss
  BY <1>1, KeptNow DEF KeptIs
<1> QED  BY <1>2 DEF Cache!Init, Init

LEMMA UpdateMaps ==
  ASSUME IInv, IInv', NEW r \in Request, Update(r) PROVE Cache!Accept(r)
<1>1. PICK l \in Lane : /\ Holds(l, r.key)
                        /\ lanes' = [lanes EXCEPT ![l] = Written(lanes[l], r, MoveFor(lanes[l], r))]
                        /\ UNCHANGED resized
  <2>1. lanes \in [Lane -> EntryType]
    BY DEF IInv, TypeOK
  <2> QED  BY <2>1 DEF Update
<1> DEFINE n == Written(lanes[l], r, MoveFor(lanes[l], r))
           mv == MoveFor(lanes[l], r)
<1>2. Occupied(n) /\ n.key = r.key /\ r.key \in VKey /\ lanes[l].key = r.key
  BY <1>1, RequestAssumption DEF Written, Payload, Occupied, Holds
<1>3. View(n) = [score |-> Payload(r), move |-> mv, eval |-> r.eval]
  BY WrittenReads
<1>4. mv = Cache!Move(r)
  <2>1. CASE Occupied(lanes[l])
    <3>1. Has(l, r.key)
      BY <1>2, <2>1 DEF Has
    <3>2. Kept(r.key) = View(lanes[l]) /\ Kept(r.key) # Miss
      BY <1>2, <3>1, KeptNow DEF KeptIs
    <3>3. Kept(r.key).move = lanes[l].move
      BY <3>2 DEF View
    <3>4. Table[r.key] = Kept(r.key)
      BY <1>2 DEF Table
    <3> QED  BY <1>2, <3>2, <3>3, <3>4 DEF MoveFor, Cache!Move, Cache!Known, Table
  <2>2. CASE ~Occupied(lanes[l])
    <3>1. lanes[l] = EmptyEntry
      BY <2>2 DEF IInv, OneLanePerKey
    <3>2. lanes[l].move = NoMove
      BY <3>1 DEF EmptyEntry
    <3>3. \A m \in Lane : ~Has(m, r.key)
      <4> SUFFICES ASSUME NEW m \in Lane, Has(m, r.key) PROVE FALSE
        OBVIOUS
      <4>1. Holds(m, r.key) /\ Occupied(lanes[m])
        BY HitIs DEF Hit
      <4>2. l # m /\ ~(l < m)
        BY <1>2, <2>2, <4>1 DEF Holds
      <4>3. ~(m < l)
        BY <1>1, <4>1 DEF Holds
      <4> QED  BY <4>2, <4>3 DEF Lane
    <3>4. Kept(r.key) = Miss
      BY <1>2, <3>3, KeptNow DEF KeptIs
    <3> QED  BY <1>2, <3>2, <3>4 DEF MoveFor, Cache!Move, Cache!Known
  <2> QED  BY <2>1, <2>2
<1> HIDE DEF n, mv
<1>5. /\ Kept(r.key)' = View(n)
      /\ \A k \in VKey : k # r.key => Kept(k)' = IF Has(l, k) THEN Miss ELSE Kept(k)
  <2>1. lanes' = [lanes EXCEPT ![l] = n]
    BY <1>1 DEF n
  <2> QED  BY <1>2, <2>1, WriteMaps
<1>6. \A k \in VKey : k # r.key => ~Has(l, k)
  BY <1>2 DEF Has
<1>7. Table' = [Table EXCEPT ![r.key] = Cache!Replaced(r)]
  <2>1. View(n) = Cache!Replaced(r)
    BY <1>3, <1>4 DEF Cache!Replaced
  <2> HIDE DEF Cache!Replaced
  <2> QED  BY <1>2, <1>5, <1>6, <2>1 DEF Table
<1> QED  BY <1>1, <1>7 DEF Cache!Accept, Table

LEMMA TouchMaps ==
  ASSUME IInv, IInv', NEW r \in Request, Touch(r) PROVE Cache!Decline(r)
<1>1. PICK l \in Lane : /\ Holds(l, r.key) /\ ~WorthKeeping(lanes[l], r)
                        /\ lanes' = [lanes EXCEPT ![l] = Touched(lanes[l], r, MoveFor(lanes[l], r))]
                        /\ UNCHANGED resized
  <2>1. lanes \in [Lane -> EntryType]
    BY DEF IInv, TypeOK
  <2> QED  BY <2>1 DEF Touch
<1> DEFINE e == lanes[l]
           mv == MoveFor(e, r)
           n == Touched(e, r, mv)
           bits == e.meta \cup IF r.eval = VALUE_NONE THEN {} ELSE {"eval"}
<1>2. /\ Occupied(e) /\ Occupied(n) /\ n.key = r.key /\ r.key \in VKey /\ e.key = r.key
  BY <1>1, RequestAssumption DEF Touched, WorthKeeping, Occupied, Holds
<1>3. Has(l, r.key) /\ Kept(r.key) = View(e) /\ Kept(r.key) # Miss
  <2>1. Has(l, r.key)
    BY <1>2 DEF Has
  <2> QED  BY <1>2, <2>1, KeptNow DEF KeptIs
<1>4. mv = Cache!Move(r) /\ Cache!Known(r.key) /\ Table[r.key] = View(e)
  <2>1. Kept(r.key).move = e.move
    BY <1>3 DEF View
  <2>2. Table[r.key] = Kept(r.key)
    BY <1>2 DEF Table
  <2> QED  BY <1>2, <1>3, <2>1, <2>2 DEF MoveFor, Cache!Move, Cache!Known, Table
<1>5. View(n) = [score |-> View(e).score, move |-> mv,
                 eval |-> IF r.eval = VALUE_NONE THEN View(e).eval ELSE r.eval]
  <2>1. /\ n.lower = e.lower /\ n.upper = e.upper /\ n.depth = e.depth /\ n.bound = e.bound
        /\ n.pv = e.pv /\ n.move = mv /\ n.meta = bits
        /\ n.eval = IF r.eval = VALUE_NONE THEN e.eval ELSE r.eval
    BY DEF Touched
  <2>2. bits \ {"eval"} = e.meta \ {"eval"} /\ ("eval" \in bits <=> "eval" \in e.meta \/ r.eval # VALUE_NONE)
    OBVIOUS
  <2>3. View(e).score = [lower |-> e.lower, upper |-> e.upper, depth |-> e.depth,
                         bound |-> e.bound, pv |-> e.pv, kind |-> e.meta \ {"eval"}]
        /\ View(e).eval = IF "eval" \in e.meta THEN e.eval ELSE VALUE_NONE
    BY DEF View
  <2> HIDE DEF n, bits, mv, e
  <2>4. [lower |-> n.lower, upper |-> n.upper, depth |-> n.depth, bound |-> n.bound, pv |-> n.pv,
         kind |-> n.meta \ {"eval"}] = View(e).score
    BY <2>1, <2>2, <2>3
  <2>5. (IF "eval" \in n.meta THEN n.eval ELSE VALUE_NONE)
          = IF r.eval = VALUE_NONE THEN View(e).eval ELSE r.eval
    BY <2>1, <2>2, <2>3
  <2>6. n.move = mv
    BY <2>1
  <2>7. View(n) = [score |-> View(e).score, move |-> n.move,
                   eval |-> IF "eval" \in n.meta THEN n.eval ELSE VALUE_NONE]
    BY <2>4 DEF View
  <2> QED  BY <2>5, <2>6, <2>7
<1> HIDE DEF n, mv, e
<1>6. /\ Kept(r.key)' = View(n)
      /\ \A k \in VKey : k # r.key => Kept(k)' = IF Has(l, k) THEN Miss ELSE Kept(k)
  <2>1. lanes' = [lanes EXCEPT ![l] = n] /\ lanes[l].key = n.key
    BY <1>1, <1>2 DEF n, mv, e
  <2> QED  BY <1>2, <2>1, WriteMaps
<1>7. \A k \in VKey : k # r.key => ~Has(l, k)
  BY <1>2 DEF Has, e
<1>8. Table' = [Table EXCEPT ![r.key] = Cache!Refreshed(r)]
  <2>1. View(n) = Cache!Refreshed(r)
    BY <1>4, <1>5 DEF Cache!Refreshed, Table
  <2> HIDE DEF Cache!Refreshed
  <2> QED  BY <1>2, <1>6, <1>7, <2>1 DEF Table
<1> QED  BY <1>1, <1>4, <1>8 DEF Cache!Decline, Table

LEMMA InsertMaps ==
  ASSUME IInv, IInv', NEW r \in Request, Insert(r) PROVE Cache!Save(r)
<1>1. PICK l \in Lane : /\ lanes' = [lanes EXCEPT ![l] = Written(lanes[l], r, r.move)]
                        /\ UNCHANGED resized
  <2>1. lanes \in [Lane -> EntryType]
    BY DEF IInv, TypeOK
  <2> QED  BY <2>1 DEF Insert
<1> DEFINE n == Written(lanes[l], r, r.move)
           victim == lanes[l].key
<1>2. Occupied(n) /\ n.key = r.key /\ r.key \in VKey /\ (\A m \in Lane : lanes[m].key # r.key)
  BY RequestAssumption DEF Written, Payload, Occupied, Insert, Absent
<1>3. View(n) = [score |-> Payload(r), move |-> r.move, eval |-> r.eval]
  BY WrittenReads
<1> HIDE DEF n
<1>4. \A m \in Lane : ~Has(m, r.key)
  BY <1>2 DEF Has
<1>5. Kept(r.key) = Miss /\ Table[r.key] = Miss
  <2>1. Kept(r.key) = Miss
    BY <1>2, <1>4, KeptNow DEF KeptIs
  <2> QED  BY <1>2, <2>1 DEF Table
<1>6. View(n) = Cache!Replaced(r) /\ ~Cache!Known(r.key)
  BY <1>3, <1>5 DEF Cache!Replaced, Cache!Move, Cache!Known, Table
<1> HIDE DEF Cache!Replaced
<1>7. /\ Kept(r.key)' = View(n)
      /\ \A k \in VKey : k # r.key => Kept(k)' = IF Has(l, k) THEN Miss ELSE Kept(k)
  <2>1. lanes' = [lanes EXCEPT ![l] = n]
    BY <1>1 DEF n
  <2> QED  BY <1>2, <1>4, <2>1, WriteMaps
<1>8. CASE Occupied(lanes[l]) /\ victim \in VKey
  <2>1. \A k \in VKey : Has(l, k) <=> k = victim
    BY <1>8 DEF Has
  <2>2. victim # r.key
    BY <1>2
  <2> HIDE DEF victim
  <2>3. Table' = [Table EXCEPT ![victim] = Miss, ![r.key] = Cache!Replaced(r)]
    BY <1>2, <1>6, <1>7, <2>1, <2>2 DEF Table
  <2>4. Cache!Evict(r, victim)
    BY <1>1, <1>6, <2>2, <2>3 DEF Cache!Evict, Table
  <2> QED  BY <1>8, <2>4 DEF Cache!Save
<1>9. CASE ~(Occupied(lanes[l]) /\ victim \in VKey)
  <2>1. \A k \in VKey : ~Has(l, k)
    BY <1>9 DEF Has
  <2>2. Table' = [Table EXCEPT ![r.key] = Cache!Replaced(r)]
    BY <1>2, <1>6, <1>7, <2>1 DEF Table
  <2>3. Cache!Accept(r)
    BY <1>1, <2>2 DEF Cache!Accept, Table
  <2> QED  BY <2>3 DEF Cache!Save
<1> QED  BY <1>8, <1>9

\* Every step of the cluster is a step of the lossy cache, or none.
LEMMA StepMaps ==
  ASSUME IInv, IInv', [Next]_vars PROVE [Cache!Next]_<<Table, resized>>
<1>1. ASSUME UNCHANGED lanes PROVE Table' = Table
  BY <1>1 DEF Table, Kept, Hit, Holds
<1>2. ASSUME NEW r \in Request, Update(r) \/ Touch(r) \/ Insert(r) PROVE Cache!Next
  <2>1. Cache!Save(r)
    BY <1>2, UpdateMaps, TouchMaps, InsertMaps DEF Cache!Save
  <2> QED  BY <2>1 DEF Cache!Next
<1>3. ASSUME Wipe, resized' \in {resized, "done"} PROVE Cache!Next
  <2>1. \A l \in Lane : \A k : ~Has(l, k)'
    BY <1>3 DEF Wipe, Has, Occupied, EmptyEntry
  <2>2. \A k \in VKey : Kept(k)' = Miss
    BY <2>1, KeptThen DEF KeptIs
  <2>3. Table' = [k \in VKey |-> Miss]
    BY <2>2 DEF Table
  <2>4. Cache!Clear
    BY <1>3, <2>3 DEF Cache!Clear, Table
  <2> QED  BY <2>4 DEF Cache!Next
<1>4. CASE ResizeFails
  <2>1. Cache!FailedResize
    BY <1>1, <1>4 DEF ResizeFails, Cache!FailedResize, Table
  <2> QED  BY <2>1 DEF Cache!Next
<1>5. CASE NewSearch \/ UNCHANGED vars
  BY <1>1, <1>5 DEF NewSearch, vars
<1> QED
  BY <1>2, <1>3, <1>4, <1>5 DEF Next, Clear, Resize

\* What the table answers under a key was saved under that key, one save forgets at
\* most one other key, and a resize that fails forgets nothing.
THEOREM TableIsLossyCache == Spec => ImplementsCache
<1>1. IInv /\ IInv' /\ [Next]_vars => [Cache!Next]_<<Table, resized>>
  BY StepMaps
<1> QED
  BY <1>1, Initially, NextIInv, InitMaps, PTL DEF Spec, ImplementsCache, Cache!Spec, Table

=============================================================================
