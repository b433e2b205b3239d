------------------------------ MODULE DagBackup ------------------------------
(***************************************************************************)
(* Reverse-topological propagation over the ply-layered proof DAG          *)
(* (src/src/dag_backup.hpp) and the two ways the search driver feeds it:   *)
(* a node whose local evidence is revised, and a node that gains children. *)
(*                                                                         *)
(* What a node's backed value is computed from is left open: Combine maps  *)
(* a node, its local evidence and the values of its children to a value.   *)
(* The search driver's backup_node is one such Combine.                    *)
(***************************************************************************)
EXTENDS Integers

CONSTANTS
  Node,                \* indices of the proof tree, ordered by <
  Ply,                 \* Ply[n]: distance of n from the root
  Evidence,            \* what a node can know by itself (localInterval)
  Value,               \* what a node can be backed up to (interval, depth, ...)
  Own(_),              \* value of an unexpanded node, from its evidence
  Combine(_, _, _)     \* value of an expanded node: node, evidence, children

ASSUME NodeAssumption == Node \subseteq Int
ASSUME PlyAssumption == Ply \in [Node -> Nat]
ASSUME OwnAssumption == \A e \in Evidence : Own(e) \in Value
ASSUME CombineAssumption ==
  \A n \in Node, e \in Evidence : \A kids \in SUBSET Node :
    \A v \in [kids -> Value] : Combine(n, e, v) \in Value

VARIABLES
  edges,     \* materialised <<parent, child>> links
  local,     \* local[n]: the node's own evidence
  value,     \* value[n]: the interval the rest of the tree sees
  queued,    \* the nodes on the worklist
  backed     \* nodes already popped by the propagation in progress (history)

vars == <<edges, local, value, queued, backed>>

-----------------------------------------------------------------------------

Children(E, n) == {c \in Node : <<n, c>> \in E}
Parents(E, n)  == {p \in Node : <<p, n>> \in E}

\* backup_node's formula for n, over the children's current values.
Recomputed(n) ==
  Combine(n, local[n], [c \in Children(edges, n) |-> value[c]])

\* backup_node leaves an unexpanded node alone and reports "unchanged".
Backed(n) == IF Children(edges, n) = {} THEN value[n] ELSE Recomputed(n)

\* Fault: a min-heap, the shallowest ply first.
BeforeReversed(m, n) == Ply[m] < Ply[n] \/ (Ply[m] = Ply[n] /\ m >= n)

\* std::priority_queue<pair<ply, node>>: the deepest ply first, then the
\* largest index.
Before(m, n) == Ply[m] > Ply[n] \/ (Ply[m] = Ply[n] /\ m >= n)
Top(Q, n) == n \in Q /\ \A m \in Q : Before(n, m)

-----------------------------------------------------------------------------

Init ==
  /\ edges = {}
  /\ local \in [Node -> Evidence]
  /\ value = [n \in Node |-> Own(local[n])]
  /\ queued = {}
  /\ backed = {}

\* propagate_dag_change(changed = n): n and its parents are queued.
Enqueue(n) ==
  /\ queued' = {n} \cup Parents(edges', n)
  /\ backed' = {}

\* rebuild_leaf / verify_leaf: new evidence at n. An unexpanded node shows
\* its evidence at once, an expanded one only when it is backed up.
Revise(n, e) ==
  /\ queued = {}
  /\ local' = [local EXCEPT ![n] = e]
  /\ value' = [value EXCEPT ![n] = IF Children(edges, n) = {} THEN Own(e) ELSE @]
  /\ UNCHANGED edges
  /\ Enqueue(n)

\* expand_node: n gains children one ply below, new to the tree or shared
\* with another parent.
Expand(n, kids) ==
  /\ queued = {}
  /\ \A c \in kids : Ply[c] = Ply[n] + 1
  /\ edges' = edges \cup {<<n, c>> : c \in kids}
  /\ UNCHANGED <<local, value>>
  /\ Enqueue(n)

\* Fault: a change stays with the node.
PropagateNoRequeue(n) ==
  /\ Top(queued, n)
  /\ value' = [value EXCEPT ![n] = Backed(n)]
  /\ queued' = queued \ {n}
  /\ backed' = backed \cup {n}
  /\ UNCHANGED <<edges, local>>

\* Fault: every node that is backed up counts as changed, itself included.
PropagateAgain(n) ==
  /\ Top(queued, n)
  /\ value' = [value EXCEPT ![n] = Backed(n)]
  /\ queued' = queued \cup Parents(edges, n)
  /\ backed' = backed \cup {n}
  /\ UNCHANGED <<edges, local>>

\* One turn of the while loop: pop, back up, requeue the parents on a change.
Propagate(n) ==
  /\ Top(queued, n)
  /\ value' = [value EXCEPT ![n] = Backed(n)]
  /\ queued' = (queued \ {n})
       \cup (IF Backed(n) # value[n] THEN Parents(edges, n) ELSE {})
  /\ backed' = backed \cup {n}
  /\ UNCHANGED <<edges, local>>

Next ==
  \/ \E n \in Node, e \in Evidence : Revise(n, e)
  \/ \E n \in Node : \E kids \in SUBSET Node \ {{}} : Expand(n, kids)
  \/ \E n \in Node : Propagate(n)

Spec == Init /\ [][Next]_vars

\* propagate_dag_change returns only when its worklist is empty: the search
\* thread runs the loop to its end.
FairSpec == Spec /\ \A n \in Node : WF_vars(Propagate(n))

-----------------------------------------------------------------------------

TypeOK ==
  /\ edges \in SUBSET (Node \X Node)
  /\ local \in [Node -> Evidence]
  /\ value \in [Node -> Value]
  /\ queued \in SUBSET Node
  /\ backed \in SUBSET Node

Stale(n) == Children(edges, n) # {} /\ value[n] # Recomputed(n)

(* Between propagations no expanded node disagrees with what its children  *)
(* imply: a change reaches the root along every path of the DAG, through   *)
(* shared nodes too (docs/ModernBStar_manifest.md, "DAG, state and backup").*)
QuietMeansConsistent == queued = {} => \A n \in Node : ~Stale(n)

(* The reason it holds: a stale node is always on the worklist.            *)
StaleIsQueued == \A n \in Node : Stale(n) => n \in queued

(* Deepest first means each node is backed up once per propagation, after  *)
(* every child that changed: what was popped never comes back.             *)
BackedOnce == backed \cap queued = {}

(* Edges lead one ply down, so the graph has no cycle and mate distances   *)
(* agree along every path (search.cpp intern_node).                        *)
Layered == \A e \in edges : Ply[e[2]] = Ply[e[1]] + 1

(* A node not yet popped is never deeper than one that was.                *)
DescendingPly == \A q \in queued, b \in backed : Ply[q] <= Ply[b]

IInv == TypeOK /\ Layered /\ StaleIsQueued /\ DescendingPly /\ BackedOnce

(* While a propagation runs it never recomputes a node from a child that   *)
(* is itself going to change: popped nodes keep their values.              *)
PoppedIsFinal ==
  [][queued # {} => \A n \in backed : value'[n] = value[n]]_vars

(* Every propagation ends, whatever order the changes arrived in.          *)
PropagationEnds == []<>(queued = {})

=============================================================================
