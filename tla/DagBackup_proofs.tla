-------------------------- MODULE DagBackup_proofs --------------------------
(***************************************************************************)
(* Safety of dag_backup.hpp for every DAG, every backup formula and every  *)
(* order of changes: the invariant IInv of DagBackup is inductive, and the *)
(* two promises of the header follow from it.                              *)
(***************************************************************************)
EXTENDS DagBackup, TLAPS

(* An edge found through Parents or Children is an edge of the DAG, and in *)
(* a layered DAG it leads one ply down: a parent is never its own child    *)
(* (intern_node's ply layering).                                           *)
LEMMA ParentIsAbove ==
  ASSUME TypeOK, Layered, NEW n \in Node, NEW p \in Parents(edges, n)
  PROVE  /\ p \in Node
         /\ n \in Children(edges, p)
         /\ Ply[n] = Ply[p] + 1
         /\ Ply[n] \in Nat /\ Ply[p] \in Nat
         /\ p # n
<1>1. p \in Node /\ <<p, n>> \in edges
  BY DEF Parents
<1>2. n \in Children(edges, p)
  BY <1>1 DEF Children
<1>3. Ply[n] = Ply[p] + 1
  BY <1>1 DEF Layered
<1>4. Ply[n] \in Nat /\ Ply[p] \in Nat
  BY <1>1, PlyAssumption
<1> QED
  BY <1>1, <1>2, <1>3, <1>4

(* backup_node produces a well-formed interval from well-formed children.  *)
LEMMA BackedType ==
  ASSUME TypeOK, NEW n \in Node
  PROVE  Recomputed(n) \in Value /\ Backed(n) \in Value
<1> DEFINE kids == Children(edges, n)
           v == [c \in kids |-> value[c]]
<1>1. kids \in SUBSET Node
  BY DEF Children
<1>2. v \in [kids -> Value]
  BY <1>1 DEF TypeOK
<1>3. local[n] \in Evidence
  BY DEF TypeOK
<1>4. Combine(n, local[n], v) \in Value
  <2> HIDE DEF kids, v
  <2> QED
    BY <1>1, <1>2, <1>3, CombineAssumption
<1> QED
  BY <1>4 DEF Recomputed, Backed, TypeOK

(* A node whose evidence, children and children's values did not change is *)
(* recomputed to the same interval.                                        *)
LEMMA RecomputedSame ==
  ASSUME NEW n \in Node,
         local'[n] = local[n],
         Children(edges', n) = Children(edges, n),
         \A c \in Children(edges, n) : value'[c] = value[c]
  PROVE  Recomputed(n)' = Recomputed(n)
<1>1. [c \in Children(edges', n) |-> value'[c]]
        = [c \in Children(edges, n) |-> value[c]]
  OBVIOUS
<1> QED
  BY <1>1 DEF Recomputed

(* The worklist is empty when a change arrives: only stale nodes it just   *)
(* queued can be stale afterwards.                                         *)
LEMMA InitIInv == Init => IInv
<1> SUFFICES ASSUME Init PROVE IInv
  OBVIOUS
<1>1. TypeOK
  BY OwnAssumption DEF Init, TypeOK
<1>2. Layered /\ DescendingPly /\ BackedOnce
  BY DEF Init, Layered, DescendingPly, BackedOnce
<1>3. StaleIsQueued
  BY DEF Init, StaleIsQueued, Stale, Children
<1> QED
  BY <1>1, <1>2, <1>3 DEF IInv

(* rebuild_leaf and verify_leaf keep the invariant: the changed node and   *)
(* its parents are exactly the nodes that may have become stale.           *)
LEMMA ReviseIInv ==
  ASSUME IInv, NEW n \in Node, NEW e \in Evidence, Revise(n, e)
  PROVE  IInv'
<1> USE DEF IInv
<1>1. TypeOK'
  <2>1. local' \in [Node -> Evidence]
    BY DEF Revise, TypeOK
  <2>2. value' \in [Node -> Value]
    BY OwnAssumption DEF Revise, TypeOK
  <2>3. queued' \in SUBSET Node /\ backed' \in SUBSET Node
    BY DEF Revise, Enqueue, Parents
  <2>4. edges' \in SUBSET (Node \X Node)
    BY DEF Revise, TypeOK
  <2> QED
    BY <2>1, <2>2, <2>3, <2>4 DEF TypeOK
<1>2. Layered'
  BY DEF Revise, Layered
<1>3. DescendingPly' /\ BackedOnce'
  BY DEF Revise, Enqueue, DescendingPly, BackedOnce
<1>4. StaleIsQueued'
  <2> SUFFICES ASSUME NEW m \in Node, Stale(m)', m \notin queued'
               PROVE  FALSE
    BY DEF StaleIsQueued
  <2>1. m # n /\ n \notin Children(edges, m)
    BY DEF Revise, Enqueue, Parents, Children
  <2>2. local'[m] = local[m] /\ value'[m] = value[m]
    BY <2>1 DEF Revise, TypeOK
  <2>3. Children(edges', m) = Children(edges, m)
    BY DEF Revise, Children
  <2>4. \A c \in Children(edges, m) : value'[c] = value[c]
    BY <2>1 DEF Revise, TypeOK, Children
  <2>5. Recomputed(m)' = Recomputed(m)
    BY <2>2, <2>3, <2>4, RecomputedSame
  <2>6. Stale(m)
    BY <2>2, <2>3, <2>5 DEF Stale
  <2> QED
    BY <2>6 DEF StaleIsQueued, Revise
<1> QED
  BY <1>1, <1>2, <1>3, <1>4

(* expand_node keeps the invariant: new links only touch the node that is  *)
(* expanded, and they lead one ply down.                                   *)
LEMMA ExpandIInv ==
  ASSUME IInv, NEW n \in Node, NEW kids \in SUBSET Node, Expand(n, kids)
  PROVE  IInv'
<1> USE DEF IInv
<1>1. TypeOK'
  <2>1. edges' \in SUBSET (Node \X Node)
    BY DEF Expand, TypeOK
  <2>2. queued' \in SUBSET Node /\ backed' \in SUBSET Node
    BY DEF Expand, Enqueue, Parents
  <2> QED
    BY <2>1, <2>2 DEF TypeOK, Expand
<1>2. Layered'
  BY DEF Expand, Layered
<1>3. DescendingPly' /\ BackedOnce'
  BY DEF Expand, Enqueue, DescendingPly, BackedOnce
<1>4. StaleIsQueued'
  <2> SUFFICES ASSUME NEW m \in Node, Stale(m)', m \notin queued'
               PROVE  FALSE
    BY DEF StaleIsQueued
  <2>1. m # n
    BY DEF Expand, Enqueue
  <2>2. Children(edges', m) = Children(edges, m)
    BY <2>1 DEF Expand, Children
  <2>3. local'[m] = local[m] /\ value' = value
    BY DEF Expand
  <2>4. Recomputed(m)' = Recomputed(m)
    BY <2>2, <2>3, RecomputedSame
  <2>5. Stale(m)
    BY <2>2, <2>3, <2>4 DEF Stale
  <2> QED
    BY <2>5 DEF StaleIsQueued, Expand
<1> QED
  BY <1>1, <1>2, <1>3, <1>4

(* One turn of the loop keeps the invariant: the popped node is repaired,  *)
(* and only its parents, which are queued with it, can become stale.       *)
LEMMA PropagateIInv ==
  ASSUME IInv, NEW n \in Node, Propagate(n)
  PROVE  IInv'
<1> USE DEF IInv
<1>1. TypeOK'
  <2>1. value' \in [Node -> Value]
    BY BackedType DEF Propagate, TypeOK
  <2>2. queued' \in SUBSET Node /\ backed' \in SUBSET Node
    BY DEF Propagate, TypeOK, Parents
  <2> QED
    BY <2>1, <2>2 DEF TypeOK, Propagate
<1>2. Layered'
  BY DEF Propagate, Layered
<1>3. \A p \in Parents(edges, n) : Ply[p] < Ply[n] /\ p # n /\ p \in Node
  BY ParentIsAbove
<1>4. n \in queued /\ \A m \in queued : Ply[m] <= Ply[n]
  <2>1. Top(queued, n) /\ queued \subseteq Node
    BY DEF Propagate, TypeOK
  <2>2. \A m \in Node : Ply[m] \in Nat
    BY PlyAssumption
  <2>3. \A m \in queued : Before(n, m)
    BY <2>1 DEF Top
  <2>4. ASSUME NEW m \in queued PROVE Ply[m] <= Ply[n]
    <3>1. Before(n, m)
      BY <2>3
    <3>2. Ply[m] \in Nat /\ Ply[n] \in Nat
      BY <2>1, <2>2
    <3> QED
      BY <3>1, <3>2 DEF Before
  <2> QED
    BY <2>1, <2>4 DEF Top
<1>5. queued' \subseteq (queued \ {n}) \cup Parents(edges, n)
  BY DEF Propagate
<1>6. backed' = backed \cup {n}
  BY DEF Propagate
<1>7. DescendingPly'
  <2> SUFFICES ASSUME NEW q \in queued', NEW b \in backed' PROVE Ply[q] <= Ply[b]
    BY DEF DescendingPly
  <2>1. Ply[q] <= Ply[n]
    BY <1>3, <1>4, <1>5, PlyAssumption, <1>1 DEF TypeOK
  <2>2. CASE b = n
    BY <2>1, <2>2
  <2>3. CASE b \in backed
    <3>1. Ply[n] <= Ply[b]
      BY <2>3, <1>4 DEF DescendingPly
    <3> QED
      BY <2>1, <3>1, PlyAssumption, <1>1, <1>4 DEF TypeOK
  <2> QED
    BY <2>2, <2>3, <1>6
<1>8. BackedOnce'
  <2> SUFFICES ASSUME NEW q \in queued', q \in backed' PROVE FALSE
    BY DEF BackedOnce
  <2>1. CASE q \in queued \ {n}
    BY <2>1, <1>6 DEF BackedOnce
  <2>2. CASE q \in Parents(edges, n)
    <3>1. q \in backed
      BY <2>2, <1>3, <1>6
    <3>2. Ply[n] <= Ply[q]
      BY <3>1, <1>4 DEF DescendingPly
    <3> QED
      BY <3>2, <2>2, <1>3, PlyAssumption
  <2> QED
    BY <2>1, <2>2, <1>5
<1>9. StaleIsQueued'
  <2> SUFFICES ASSUME NEW m \in Node, Stale(m)', m \notin queued'
               PROVE  FALSE
    BY DEF StaleIsQueued
  <2>1. Children(edges', m) = Children(edges, m) /\ local'[m] = local[m]
    BY DEF Propagate
  <2>2. n \in Children(edges, m) => m \in Parents(edges, n)
    BY DEF Children, Parents
  <2>3. \A c \in Children(edges, m) : value'[c] = value[c]
    BY <2>2 DEF Propagate, TypeOK, Children
  <2>4. Recomputed(m)' = Recomputed(m)
    BY <2>1, <2>3, RecomputedSame
  <2>5. CASE m = n
    <3>1. value'[n] = Backed(n)
      BY DEF Propagate, TypeOK
    <3> QED
      BY <3>1, <2>1, <2>4, <2>5 DEF Stale, Backed
  <2>6. CASE m # n
    <3>1. value'[m] = value[m]
      BY <2>6 DEF Propagate, TypeOK
    <3>2. Stale(m)
      BY <3>1, <2>1, <2>4 DEF Stale
    <3> QED
      BY <3>2, <2>6 DEF StaleIsQueued, Propagate
  <2> QED
    BY <2>5, <2>6
<1> QED
  BY <1>1, <1>2, <1>7, <1>8, <1>9

(* IInv holds throughout every search: the worklist of dag_backup.hpp      *)
(* always covers the stale nodes, and each node is backed up at most once. *)
THEOREM DagBackupInvariant == Spec => []IInv
<1>1. IInv /\ [Next]_vars => IInv'
  <2> SUFFICES ASSUME IInv, [Next]_vars PROVE IInv'
    OBVIOUS
  <2>1. ASSUME NEW n \in Node, NEW e \in Evidence, Revise(n, e) PROVE IInv'
    BY <2>1, ReviseIInv
  <2>2. ASSUME NEW n \in Node, NEW kids \in SUBSET Node, Expand(n, kids) PROVE IInv'
    BY <2>2, ExpandIInv
  <2>3. ASSUME NEW n \in Node, Propagate(n) PROVE IInv'
    BY <2>3, PropagateIInv
  <2>4. CASE UNCHANGED vars
    BY <2>4, ZenonT(30) DEF vars, IInv, TypeOK, Layered, StaleIsQueued, DescendingPly,
                BackedOnce, Stale, Recomputed, Children
  <2> QED
    BY <2>1, <2>2, <2>3, <2>4 DEF Next
<1> QED
  BY InitIInv, <1>1, PTL DEF Spec

(* Whenever the search driver is not propagating, every expanded node of   *)
(* the proof DAG shows exactly what its children imply.                    *)
THEOREM DagBackupConsistent == Spec => []QuietMeansConsistent
<1>1. IInv => QuietMeansConsistent
  BY DEF IInv, StaleIsQueued, QuietMeansConsistent
<1> QED
  BY <1>1, DagBackupInvariant, PTL

(* A node already popped by the running propagation is never changed by it *)
(* again, so its parents were computed from its final value.               *)
THEOREM DagBackupPoppedIsFinal == Spec => PoppedIsFinal
<1>1. IInv /\ [Next]_vars
        => [queued # {} => \A n \in backed : value'[n] = value[n]]_vars
  <2> SUFFICES ASSUME IInv, Next, queued # {}, NEW b \in backed
               PROVE  value'[b] = value[b]
    BY DEF vars
  <2>1. PICK n \in Node : Propagate(n)
    BY DEF Next, Revise, Expand
  <2>2. b # n
    BY <2>1 DEF IInv, BackedOnce, Propagate, Top
  <2> QED
    BY <2>1, <2>2 DEF Propagate, IInv, TypeOK
<1> QED
  BY <1>1, DagBackupInvariant, PTL DEF Spec, PoppedIsFinal

=============================================================================
