----------------------------- MODULE TransTable -----------------------------
(***************************************************************************)
(* The transposition table (src/src/tt.hpp), seen from one of its          *)
(* clusters: index_of sends a key to one cluster for as long as the table  *)
(* keeps its size, and clusters share nothing but the generation.          *)
(* The searching thread is the only one that saves and probes, and options *)
(* are set only while no search runs, so each call is one step.            *)
(***************************************************************************)
EXTENDS TTValues

CONSTANTS
  LaneCount,    \* entries in a cluster: 3 in the code
  VKey,         \* the 16-bit verification keys that meet in this cluster
  Request,      \* the saves the search issues
  Ply, Depth,   \* the plies and depths at which it saves and probes
  Truth,        \* Truth[k][d]: the value of k at depth d, counted from k
  Window,       \* the <<alpha, beta>> it probes with
  AgeCycle,     \* 2^AGE_BITS
  NoMove, Miss

Bounds == {"None", "Exact", "Lower", "Upper"}
Kinds == {"classic", "corridor"}

ASSUME SizeAssumption ==
  /\ LaneCount \in Nat \ {0} /\ AgeCycle \in Nat \ {0}
  /\ Ply \subseteq 0..MAX_PLY /\ Depth \subseteq 0..254
  /\ VKey \subseteq Nat
  /\ \A w \in Window : w[1] \in Int /\ w[2] \in Int /\ w[1] < w[2]

\* Mates are proved within MAX_PLY of the root; evaluations and tablebase scores
\* stay further than that from the band of mates.
ASSUME TruthAssumption ==
  \A k \in VKey, d \in Depth :
    Truth[k][d] \in Int /\ ClearOfBand(Truth[k][d], Ply)

\* What the search saves by save_classic is true of the position at the depth it
\* was searched to; nothing is known of what it saves by save_corridor.
ASSUME RequestAssumption ==
  \A r \in Request :
    /\ r.key \in VKey /\ r.kind \in Kinds /\ r.bound \in Bounds
    /\ IsValue(r.lower) /\ IsValue(r.upper)
    /\ r.ply \in Ply /\ r.depth \in Int /\ r.eval \in Int
    /\ r.pv \in BOOLEAN /\ r.force \in BOOLEAN
    /\ r.kind = "classic" =>
         LET t == AtPly(Truth[r.key][r.depth], r.ply)
         IN  /\ r.depth \in Depth
             /\ r.bound # "None" /\ r.lower = r.upper
             /\ r.bound = "Exact" => r.lower = t
             /\ r.bound = "Lower" => r.lower <= t
             /\ r.bound = "Upper" => t <= r.upper

\* A miss is no answer.
ASSUME MissAssumption ==
  Miss \notin [score: [lower: Int, upper: Int, depth: 0..255, bound: Bounds, pv: BOOLEAN,
                      kind: SUBSET Kinds],
               move: {r.move : r \in Request} \cup {NoMove}, eval: Int]

VARIABLES
  lanes,        \* the cluster's entries with their keys and meta bits
  generation,   \* the age stamped on what is saved now
  resized,      \* how the last resize ended
  since         \* since[l]: searches begun since lane l took a score, up to
                \* AgeCycle (history)

vars == <<lanes, generation, resized, since>>

Lane == 0..(LaneCount - 1)
Meta == Kinds \cup {"eval"}

-----------------------------------------------------------------------------

StorableValue(v) == -32768 <= v /\ v <= 32767

\* depth8 keeps depth + 1 in a byte.
DepthToTT(d) == IF d + 1 < 0 THEN 0 ELSE IF d + 1 > 255 THEN 255 ELSE d + 1
DepthFromTT(b) == b - 1

\* The saves: save_classic makes a bound an interval, save_corridor the
\* reverse, and both leave the rest to write_entry.
Lower(r) == IF r.kind = "classic" /\ r.bound = "Upper" THEN VALUE_NONE ELSE r.lower
Upper(r) == IF r.kind = "classic" /\ r.bound = "Lower" THEN VALUE_NONE ELSE r.upper
BoundOf(r) == IF r.kind = "classic" THEN r.bound
              ELSE IF r.lower = r.upper THEN "Exact" ELSE "Lower"

Payload(r) == [lower |-> ValueToTT(Lower(r), r.ply), upper |-> ValueToTT(Upper(r), r.ply),
               depth |-> DepthToTT(r.depth), bound |-> BoundOf(r), pv |-> r.pv,
               kind |-> {r.kind}]

-----------------------------------------------------------------------------

\* Zeroed memory: a lane with no meta bit, under the verification key 0.
EmptyEntry == [key |-> 0, move |-> NoMove, lower |-> 0, upper |-> 0, depth |-> 0,
               bound |-> "None", pv |-> FALSE, age |-> 0, eval |-> 0, meta |-> {}]

Occupied(e) == e.bound # "None" \/ e.meta # {}
Holds(l, k) == lanes[l].key = k /\ \A m \in Lane : m < l => lanes[m].key # k

\* Fault: the lookup never reaches the last lane.
AbsentShort(k) == \A l \in Lane \ {LaneCount - 1} : lanes[l].key # k

\* lookup_lane found no lane with the key.
Absent(k) == \A l \in Lane : lanes[l].key # k

\* Fault: the age is taken the other way round.
RelativeAgeReversed(age) == (AgeCycle + age - generation) % AgeCycle

RelativeAge(age) == (AgeCycle + generation - age) % AgeCycle

Weight(depth, bound, pv) ==
  depth + (IF bound = "Exact" THEN 6 ELSE 0) + (IF pv THEN 2 ELSE 0)

Quality(e) == Weight(DepthFromTT(e.depth), e.bound, e.pv) - 8 * RelativeAge(e.age)

\* replacement_lane: the first free lane, else the first of the worst ones.
Replaceable(l) ==
  \/ ~Occupied(lanes[l]) /\ \A m \in Lane : m < l => Occupied(lanes[m])
  \/ \A m \in Lane :
       /\ Occupied(lanes[m])
       /\ Quality(lanes[l]) < Quality(lanes[m]) \/ (Quality(lanes[l]) = Quality(lanes[m]) /\ l <= m)

\* should_replace_same_key: not much worse than what the key has.
WorthKeeping(e, r) ==
  \/ r.force \/ BoundOf(r) = "Exact"
  \/ e.bound = "None"
  \/ RelativeAge(e.age) # 0
  \/ Weight(r.depth, BoundOf(r), r.pv) + 4 > Weight(DepthFromTT(e.depth), e.bound, e.pv)

\* The entry write_entry leaves in lane e when it takes the request's score.
Written(e, r, move) ==
  [key |-> r.key, move |-> move,
   lower |-> Payload(r).lower, upper |-> Payload(r).upper,
   depth |-> Payload(r).depth, bound |-> Payload(r).bound,
   pv |-> r.pv, age |-> generation,
   eval |-> IF r.eval = VALUE_NONE THEN e.eval ELSE r.eval,
   meta |-> {r.kind} \cup IF r.eval = VALUE_NONE THEN {} ELSE {"eval"}]

\* What it leaves when it does not: the move and a supplied evaluation still go in.
Touched(e, r, move) ==
  [key |-> e.key, move |-> move, lower |-> e.lower, upper |-> e.upper, depth |-> e.depth,
   bound |-> e.bound, pv |-> e.pv, age |-> e.age,
   eval |-> IF r.eval = VALUE_NONE THEN e.eval ELSE r.eval,
   meta |-> e.meta \cup IF r.eval = VALUE_NONE THEN {} ELSE {"eval"}]

MoveFor(e, r) == IF r.move = NoMove THEN e.move ELSE r.move

Storable(r) ==
  StorableValue(Payload(r).lower) /\ StorableValue(Payload(r).upper) /\ StorableValue(r.eval)

-----------------------------------------------------------------------------

Init ==
  /\ lanes = [l \in Lane |-> EmptyEntry]
  /\ generation = 0
  /\ resized = "done"
  /\ since = [l \in Lane |-> 0]

\* write_entry on a key that has a lane (an empty one has the key 0).
Update(r) ==
  /\ Storable(r)
  /\ \E l \in Lane :
       /\ Holds(l, r.key) /\ WorthKeeping(lanes[l], r)
       /\ lanes' = [lanes EXCEPT ![l] = Written(@, r, MoveFor(@, r))]
       /\ since' = [since EXCEPT ![l] = 0]
  /\ UNCHANGED <<generation, resized>>

\* The same, when the key keeps its score.
Touch(r) ==
  /\ Storable(r)
  /\ \E l \in Lane :
       /\ Holds(l, r.key) /\ ~WorthKeeping(lanes[l], r)
       /\ lanes' = [lanes EXCEPT ![l] = Touched(@, r, MoveFor(@, r))]
  /\ UNCHANGED <<generation, resized, since>>

\* write_entry on a key without a lane.
Insert(r) ==
  /\ Storable(r) /\ Absent(r.key)
  /\ \E l \in Lane :
       /\ Replaceable(l)
       /\ lanes' = [lanes EXCEPT ![l] = Written(@, r, r.move)]
       /\ since' = [since EXCEPT ![l] = 0]
  /\ UNCHANGED <<generation, resized>>

NewSearch ==
  /\ generation' = (generation + 1) % AgeCycle
  /\ since' = [l \in Lane |-> IF since[l] = AgeCycle THEN AgeCycle ELSE since[l] + 1]
  /\ UNCHANGED <<lanes, resized>>

Wipe ==
  /\ lanes' = [l \in Lane |-> EmptyEntry]
  /\ generation' = 0
  /\ since' = [l \in Lane |-> 0]

Clear == Wipe /\ UNCHANGED resized

\* Both blocks are allocated and zeroed before either replaces the old one.
Resize == Wipe /\ resized' = "done"

\* Fault: the old clusters are gone when the sidecar cannot be allocated.
ResizeFailsLate == Wipe /\ resized' = "failed"

ResizeFails == resized' = "failed" /\ UNCHANGED <<lanes, generation, since>>

Next ==
  \/ NewSearch \/ Clear \/ Resize \/ ResizeFails
  \/ \E r \in Request : Update(r) \/ Touch(r) \/ Insert(r)

Spec == Init /\ [][Next]_vars

-----------------------------------------------------------------------------

\* probe: the lane that answers for a key.
Hit(l, k) == Holds(l, k) /\ Occupied(lanes[l])

\* can_cutoff_classic on what probe reads from entry e at a ply: the score it
\* returns, if any.
Cutoff(e, ply, need, alpha, beta) ==
  LET lower == ValueFromTT(e.lower, ply)
      upper == ValueFromTT(e.upper, ply)
  IN  {v \in {lower, upper} :
        /\ "classic" \in e.meta /\ DepthFromTT(e.depth) >= need /\ v # VALUE_NONE
        /\ \/ e.bound = "Exact" /\ lower = upper
           \/ e.bound = "Lower" /\ v = lower /\ v >= beta
           \/ e.bound = "Upper" /\ v = upper /\ v <= alpha}

EntryType ==
  [key: VKey \cup {0}, move: {r.move : r \in Request} \cup {NoMove}, lower: Int, upper: Int,
   depth: 0..255, bound: Bounds, pv: BOOLEAN, age: 0..(AgeCycle - 1), eval: Int,
   meta: SUBSET Meta]

\* The state of the cluster and of the table around it.
TypeOK ==
  /\ lanes \in [Lane -> EntryType]
  /\ generation \in 0..(AgeCycle - 1)
  /\ resized \in {"done", "failed"}
  /\ since \in [Lane -> 0..AgeCycle]

\* A key has one lane at most, lanes fill in order, and a lane never used still
\* reads as key 0 with nothing in it; so the lane a save writes is the lane the
\* next probe of that key reads, key 0 included.
OneLanePerKey ==
  /\ \A l, m \in Lane : Occupied(lanes[l]) /\ lanes[l].key = lanes[m].key => l = m \/ ~Occupied(lanes[m])
  /\ \A l, m \in Lane : Occupied(lanes[l]) /\ m < l => Occupied(lanes[m])
  /\ \A l \in Lane : ~Occupied(lanes[l]) => lanes[l] = EmptyEntry

\* A score that cuts the search off is on the right side of the window for the
\* position probed, at the ply probed and at some depth at least the one asked
\* for, whatever other plies, depths, keys and heuristic corridors were saved
\* through the same lanes.
CutoffSound ==
  \A l \in Lane, k \in VKey, ply \in Ply, need \in Depth, w \in Window :
    Hit(l, k) =>
      \A v \in Cutoff(lanes[l], ply, need, w[1], w[2]) :
        \E d \in Depth :
          /\ d >= need
          /\ LET t == AtPly(Truth[k][d], ply)
             IN  /\ v >= w[2] => t >= w[2]
                 /\ v <= w[1] => t <= w[1]
                 /\ w[1] < v /\ v < w[2] => t = v

\* A save that evicts an entry spares none that is older and no better, as long
\* as the five-bit age has not gone round since that one was written.
Evicted(l) == lanes'[l].key # lanes[l].key /\ Occupied(lanes[l]) /\ Occupied(lanes'[l])
LaneWeight(l) == Weight(DepthFromTT(lanes[l].depth), lanes[l].bound, lanes[l].pv)

EvictsStaleFirst ==
  [][\A l, m \in Lane :
       Evicted(l) /\ since[l] < since[m] /\ since[m] < AgeCycle
         => LaneWeight(l) < LaneWeight(m)]_vars

\* The table is a lossy cache: what it answers under a key was saved under that
\* key, one save forgets at most one other key, a failed resize nothing.
Kept(k) ==
  IF \E l \in Lane : Hit(l, k)
  THEN LET e == lanes[CHOOSE l \in Lane : Hit(l, k)]
       IN  [score |-> [lower |-> e.lower, upper |-> e.upper, depth |-> e.depth,
                       bound |-> e.bound, pv |-> e.pv, kind |-> e.meta \ {"eval"}],
            move |-> e.move,
            eval |-> IF "eval" \in e.meta THEN e.eval ELSE VALUE_NONE]
  ELSE Miss

Cache == INSTANCE TTCache
           WITH kept <- [k \in VKey |-> Kept(k)], Score <- Payload, NoValue <- VALUE_NONE

ImplementsCache == Cache!Spec

=============================================================================
