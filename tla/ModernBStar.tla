----------------------------- MODULE ModernBStar -----------------------------
(***************************************************************************)
(* The Modern B* proof driver (search.cpp, think_modern_bstar) over a      *)
(* fixed game graph: interned nodes, corridors, verification before        *)
(* expansion, partial expansion under an epoch's node budget, LD2 batches, *)
(* saturation, and how the search ends. Scores decide which node is chosen *)
(* next; here the choice is open, so what holds holds for every scoring.   *)
(***************************************************************************)
EXTENDS Corridor, Sequences, FiniteSets, Functions

CONSTANTS
  Node,            \* proof contexts: a position, its history and its ply
  Ply,             \* Ply[n], distance from the root 0
  Moves,           \* Moves[n]: contexts after each legal move, in candidate order
  Exact,           \* Exact[n]: score of a rule draw or tablebase hit, or NoScore
  Mated,           \* mated_in(ply) or the stalemate draw of a node with no moves
  Guess,           \* corridors rebuild_leaf may put around the evaluators
  Score,           \* scores of a completed verification
  NoScore,
  MaxTreeDepth,    \* the depth at which nodes are no longer expanded
  BatchSize,       \* LD2 jobs scheduled together
  FirstBudget, NodeLimit,       \* active node budget: first epoch, and cap
  FirstWidening, MaxWidening,   \* moves materialised per expansion
  FirstVerifyDepth, MaxVerifyDepth,
  LeelaBudget,     \* LD2 evaluations allowed, 0 when LD2 is off
  Infinite,        \* limits.infinite
  EarlyStop        \* option HeuristicEarlyStop

ASSUME GraphAssumption ==
  /\ 0 \in Node /\ IsFiniteSet(Node) /\ Node \subseteq Nat
  /\ Ply \in [Node -> Nat] /\ Ply[0] = 0
  /\ Moves \in [Node -> Seq(Node)]
  /\ \A n \in Node : \A i \in DOMAIN Moves[n] : Ply[Moves[n][i]] = Ply[n] + 1
  /\ Len(Moves[0]) >= 2 /\ Exact[0] = NoScore

\* rebuild_leaf clamps what it makes of the evaluators to the heuristic scale.
ASSUME EvidenceAssumption ==
  /\ \A g \in Guess : g \in Corridors /\ Valid(g) /\ -Cap <= g.lower /\ g.upper <= Cap
  /\ Score \subseteq Int /\ NoScore \notin Score
  /\ Exact \in [Node -> Int \cup {NoScore}] /\ Mated \in [Node -> Int]

ASSUME BoundAssumption ==
  /\ MaxTreeDepth \in Nat /\ LeelaBudget \in Nat /\ BatchSize \in Nat \ {0}
  /\ NodeLimit \in Nat
  /\ FirstBudget \in (Len(Moves[0]) + 1)..NodeLimit   \* 1024 > 218 legal moves
  /\ MaxWidening \in Nat /\ FirstWidening \in 1..MaxWidening
  /\ MaxVerifyDepth \in Nat /\ FirstVerifyDepth \in 1..MaxVerifyDepth
  /\ Infinite \in BOOLEAN /\ EarlyStop \in BOOLEAN

VARIABLES
  node,       \* the proof tree: node[n] is the ProofNode of context n
  phase,      \* what the search thread does next (TypeOK lists the steps)
  queued,     \* propagate_dag_change's worklist: what comes first, if not empty
  resolved,   \* nodes probe_leela_batch has answers for, to be rebuilt
  leaf,       \* the frontier node of this iteration
  budget, widening, verifyDepth,   \* the epoch: activeNodeBudget, wideningTarget, ...
  leelaLeft,  \* leelaBudget
  stopped,    \* should_stop has become true, and stays true
  result      \* the Result, or NoResult

epoch == <<budget, widening, verifyDepth>>
vars == <<node, phase, queued, resolved, leaf, epoch, leelaLeft, stopped, result>>

NoResult == [source |-> "none"]

\* A context that has not been interned.
Absent ==
  [interned |-> FALSE, expansion |-> "unexpanded", next |-> 0,
   local |-> Point(0), interval |-> Point(0), depth |-> 0,
   terminal |-> FALSE, saturated |-> FALSE, leela |-> FALSE,
   tactical |-> NoScore, fresh |-> FALSE, verifiedDepth |-> 0]

-----------------------------------------------------------------------------
\* The proof tree T = node, its nodes r = T[n], and what the handlers do to them.

Tree(T) == {n \in Node : T[n].interned}
Children(T, n) == {Moves[n][i] : i \in 1..T[n].next}
Parents(T, c) == {p \in Node : c \in Children(T, p)}
Refinable(T, n) == ~T[n].terminal /\ ~T[n].saturated

\* rebuild_leaf with the evaluators' corridor g: a proved mate overrides it,
\* an expanded node ignores it. A change outdates the verification.
Rebuilt(r, g) ==
  LET local == IF r.tactical # NoScore /\ IsMate(r.tactical) THEN Point(r.tactical) ELSE g
  IN  IF r.terminal \/ r.expansion # "unexpanded" THEN r
      ELSE [r EXCEPT !.local = local, !.interval = local, !.fresh = @ /\ local = r.local]

\* evaluate_leaf on the new node n.
Evaluated(n, g) ==
  LET r == [Absent EXCEPT !.interned = TRUE]
  IN  IF Exact[n] # NoScore
      THEN [r EXCEPT !.local = Point(Exact[n]), !.interval = Point(Exact[n]),
                     !.terminal = TRUE, !.saturated = TRUE]
      ELSE Rebuilt(r, g)

\* Fault: the child's corridor is not turned to the parent's side.
BackedIntervalSameSide(T, n) ==
  Refine(Best({T[c].interval : c \in Children(T, n)}), T[n].local, T[n].expansion = "full")

BackedInterval(T, n) ==
  Refine(Best({Negate(T[c].interval) : c \in Children(T, n)}), T[n].local,
         T[n].expansion = "full")

\* Fault: deferred moves are forgotten.
ExhaustedSoFar(T, n) == \A c \in Children(T, n) : ~Refinable(T, c)

Exhausted(T, n) ==
  T[n].expansion = "full" /\ \A c \in Children(T, n) : ~Refinable(T, c)

Deepest(T, S) == CHOOSE d \in {T[c].depth : c \in S} : \A c \in S : T[c].depth <= d

\* backup_node's new record for n.
BackedUp(T, n) ==
  IF T[n].expansion = "unexpanded" \/ Children(T, n) = {} THEN T[n]
  ELSE [T[n] EXCEPT !.interval = BackedInterval(T, n),
                    !.depth = 1 + Deepest(T, Children(T, n)),
                    !.saturated = Exhausted(T, n)]

\* Fault: the depth of the verification is not recorded.
VerifiedForgetful(r, s, g) ==
  LET t == [r EXCEPT !.tactical = s, !.fresh = TRUE]
  IN  IF r.expansion = "unexpanded" THEN [Rebuilt(t, g) EXCEPT !.fresh = TRUE]
      ELSE [t EXCEPT !.local = Widened(r.local, s, 1)]

\* Fault: new evidence opens a closed subtree.
VerifiedReopens(r, s, g) ==
  LET t == [r EXCEPT !.tactical = s, !.verifiedDepth = verifyDepth]
  IN  [(IF r.expansion = "unexpanded" THEN Rebuilt(t, g)
        ELSE [t EXCEPT !.local = Widened(r.local, s, 1)])
         EXCEPT !.fresh = TRUE, !.expansion = "partial"]

\* verify_leaf with a completed search that returned score s: it enters the
\* local corridor. (A noisy or dangerous node is verified one ply deeper than
\* the epoch asks for.)
Verified(r, s, g) ==
  LET t == [r EXCEPT !.tactical = s, !.verifiedDepth = verifyDepth]
  IN  [(IF r.expansion = "unexpanded" THEN Rebuilt(t, g)
        ELSE [t EXCEPT !.local = Widened(r.local, s, 1)])
         EXCEPT !.fresh = TRUE]

\* Fault: evidence that changed since does not count.
NeedsDeeperVerification(r) == r.tactical = NoScore \/ r.verifiedDepth < verifyDepth

NeedsVerification(r) ==
  r.tactical = NoScore \/ ~r.fresh \/ r.verifiedDepth < verifyDepth

\* An LD2 result, and the new corridor.
WithLeela(r, g) == Rebuilt([r EXCEPT !.leela = TRUE], g)

\* Fault: the epoch's budget does not bound the tree.
FitsStorage(T, new) == Cardinality(Tree(T) \cup new) <= NodeLimit

\* intern_node has room for the new contexts.
Fits(T, new) == Cardinality(Tree(T) \cup new) <= budget

UpTo(n, i) == {Moves[n][j] : j \in 1..i}

\* expand_node interns the next candidates in order, until the limit or one
\* that neither is shared nor fits: i moves are then materialised.
Materialises(T, n, limit, i) ==
  /\ i \in T[n].next..limit
  /\ Fits(T, UpTo(n, i))
  /\ i < limit => ~Fits(T, UpTo(n, i + 1))

\* expand_node for a node with moves, up to candidate i; g[c] evaluates the
\* contexts that are new.
Expanded(T, n, i, g) ==
  LET state == IF i = 0 THEN "unexpanded" ELSE IF i = Len(Moves[n]) THEN "full" ELSE "partial"
  IN  [m \in Node |->
         IF m = n THEN [T[n] EXCEPT !.next = i, !.expansion = state,
                                    !.saturated = (state = "full" /\ @)]
         ELSE IF m \in UpTo(n, i) \ Tree(T) THEN Evaluated(m, g[m])
         ELSE T[m]]

\* expand_node for a node with no legal move.
GameOver(T, n) ==
  [T EXCEPT ![n] = [@ EXCEPT !.local = Point(Mated[n]), !.interval = Point(Mated[n]),
                             !.terminal = TRUE, !.saturated = TRUE, !.expansion = "full"]]

\* A move of the root whose corridor is a proved mate: it is the proof leader.
MateProved(T) == \E c \in Children(T, 0) : -T[c].interval.upper >= Mate

\* What can be reached from S along next: the least part of U that contains S
\* and where next leads from there.
Reach(U, S, next) ==
  LET closed == {C \in SUBSET U : S \subseteq C /\ \A n \in C : next[n] \subseteq C}
  IN  {m \in U : \A C \in closed : m \in C}

Deeper(n) == {m \in Node : Ply[m] > Ply[n]}

\* The subtree of n.
Below(T, n) == {n} \cup Reach(Deeper(n), Children(T, n), [m \in Node |-> Children(T, m)])

\* select_frontier: down from a refinable root move through refinable
\* children, to a node that has none, is unexpanded, or may be widened.
Frontier(T) ==
  LET open == [p \in Node |-> {c \in Children(T, p) : Refinable(T, c)}]
  IN  {n \in Reach(Deeper(0), open[0], open) : T[n].expansion # "full" \/ open[n] = {}}

\* advance_epoch returns true, and what it changes.
MayAdvance == budget < NodeLimit \/ (Infinite /\ verifyDepth < MaxVerifyDepth)

AdvanceEpoch ==
  /\ MayAdvance
  /\ verifyDepth' = Lesser(MaxVerifyDepth, verifyDepth + 1)
  /\ budget' = Lesser(NodeLimit, 2 * budget)
  /\ widening' = IF budget < NodeLimit THEN Lesser(MaxWidening, 2 * widening) ELSE widening

\* The final decision for a root move: a proved mate outweighs everything
\* else in move_decision, and a corridor of one point is called exact.
Decision(T, c) ==
  LET move == Negate(T[c].interval)
      source == CASE IsPoint(move) -> "exact"
                  [] ~IsPoint(move) /\ T[c].tactical # NoScore -> "tactical"
                  [] ~IsPoint(move) /\ T[c].tactical = NoScore /\ T[c].leela -> "fused"
                  [] OTHER -> "primary"
  IN  [source |-> source, move |-> c, corridor |-> move]

Decisions(T) ==
  {Decision(T, c) : c \in {k \in Children(T, 0) :
                             MateProved(T) => -T[k].interval.upper >= Mate}}

-----------------------------------------------------------------------------
\* propagate_dag_change. A handler that changes n queues it and its parents and
\* goes on when the worklist is empty.

Enqueue(n) == queued' = {n} \cup Parents(node, n)

\* Fault: the parents found when the change was made, and nobody above them.
BackUpOnce(n) ==
  /\ n \in queued /\ \A m \in queued : Ply[m] <= Ply[n]
  /\ node' = [node EXCEPT ![n] = BackedUp(node, n)]
  /\ queued' = queued \ {n}
  /\ UNCHANGED <<phase, resolved, leaf, epoch, leelaLeft, stopped, result>>

\* One turn of its loop, the deepest node first. (Nodes of a ply are popped in the
\* order of their creation, which is not kept here.)
BackUp(n) ==
  /\ n \in queued /\ \A m \in queued : Ply[m] <= Ply[n]
  /\ node' = [node EXCEPT ![n] = BackedUp(node, n)]
  /\ queued' = (queued \ {n})
       \cup (IF BackedUp(node, n) # node[n] THEN Parents(node, n) ELSE {})
  /\ UNCHANGED <<phase, resolved, leaf, epoch, leelaLeft, stopped, result>>

-----------------------------------------------------------------------------

\* The root is evaluated, with LD2 if a probe answers: from the cache, or paid for.
Init ==
  /\ \E g \in Guess, probed, paid \in BOOLEAN :
       /\ probed => LeelaBudget > 0
       /\ paid => probed
       /\ node = [n \in Node |-> IF n = 0 THEN [Evaluated(0, g) EXCEPT !.leela = probed] ELSE Absent]
       /\ leelaLeft = LeelaBudget - IF paid THEN 1 ELSE 0
  /\ phase = "baseline"
  /\ queued = {} /\ resolved = {}
  /\ leaf = 0
  /\ budget = FirstBudget /\ widening = FirstWidening /\ verifyDepth = FirstVerifyDepth
  /\ stopped = FALSE
  /\ result = NoResult

\* A stop, a limit or the deadline: should_stop answers TRUE from now on.
Stop ==
  /\ phase # "done" /\ ~stopped
  /\ stopped' = TRUE
  /\ UNCHANGED <<node, phase, queued, resolved, leaf, epoch, leelaLeft, result>>

\* The root is verified before its moves are materialised.
RootVerify(s, g) ==
  /\ phase = "baseline"
  /\ node' = [node EXCEPT ![0] = Verified(@, s, g)]
  /\ phase' = "root"
  /\ UNCHANGED <<queued, resolved, leaf, epoch, leelaLeft, stopped, result>>

\* An interrupted baseline falls back to a bounded search, or to one ply.
RootFallback(s) ==
  /\ phase = "baseline" /\ stopped
  /\ \E i \in DOMAIN Moves[0] :
       result' = [source |-> "fallback", move |-> Moves[0][i], corridor |-> Point(s)]
  /\ phase' = "done"
  /\ UNCHANGED <<node, queued, resolved, leaf, epoch, leelaLeft, stopped>>

\* expand_node(0, true): a second probe of the root, then all its moves, of which
\* those in probed get LD2 evidence; what is in paid was not in the raw cache. Once
\* stopped only the cache can answer, and only for the root.
RootExpand(i, g, probed, paid) ==
  /\ phase = "root"
  /\ Materialises(node, 0, Len(Moves[0]), i)
  /\ LET root == IF 0 \in probed THEN [node EXCEPT ![0] = WithLeela(@, g[0])] ELSE node
         t == Expanded(root, 0, i, g)
     IN  /\ probed \ {0} \subseteq {c \in Children(t, 0) : Refinable(t, c)}
         /\ node' = [c \in Node |-> IF c \in probed \ {0} THEN WithLeela(t[c], g[c]) ELSE t[c]]
  /\ LeelaBudget = 0 => probed = {}
  /\ 0 \in probed => ~node[0].leela
  /\ stopped => probed \subseteq {0} /\ paid = {}
  /\ paid \subseteq probed /\ Cardinality(paid) <= leelaLeft
  /\ leelaLeft' = leelaLeft - Cardinality(paid)
  /\ Enqueue(0)
  /\ phase' = "loop"
  /\ UNCHANGED <<resolved, leaf, epoch, stopped, result>>

-----------------------------------------------------------------------------
\* The main loop. One iteration is Select, a sanitizer step, a probe unless
\* the sanitizer changed the leaf, an expansion unless either did, and EndIteration.

Select ==
  /\ phase = "loop" /\ ~stopped /\ ~MateProved(node)
  /\ leaf' \in Frontier(node)
  /\ phase' = "verify"
  /\ UNCHANGED <<node, queued, resolved, epoch, leelaLeft, stopped, result>>

\* choose_root_target finds nothing to refine, and another epoch is allowed:
\* the leader is verified deeper.
NextEpoch ==
  /\ phase = "loop" /\ ~stopped /\ ~MateProved(node)
  /\ AdvanceEpoch
  /\ Frontier(node) = {}
  /\ leaf' \in Children(node, 0)
  /\ phase' = "leader"
  /\ UNCHANGED <<node, queued, resolved, leelaLeft, stopped, result>>

\* verify_leaf runs to completion: the leaf changed.
Sanitise(s, g) ==
  /\ phase \in {"verify", "leader"}
  /\ ~node[leaf].terminal /\ NeedsVerification(node[leaf])
  /\ node' = [node EXCEPT ![leaf] = Verified(@, s, g)]
  /\ Enqueue(leaf)
  /\ phase' = IF phase = "verify" THEN "tail" ELSE "loop"
  /\ UNCHANGED <<resolved, leaf, epoch, leelaLeft, stopped, result>>

\* verify_leaf is not called, returns at once, or is interrupted.
SkipSanitise ==
  /\ phase \in {"verify", "leader"}
  /\ stopped \/ node[leaf].terminal \/ ~NeedsVerification(node[leaf])
  /\ phase' = IF phase = "verify" THEN "probe" ELSE "loop"
  /\ UNCHANGED <<node, queued, resolved, leaf, epoch, leelaLeft, stopped, result>>

\* The leaf, its siblings and the root moves that lack LD2 evidence.
Schedulable ==
  {c \in {leaf} \cup Children(node, 0) \cup UNION {Children(node, p) : p \in Parents(node, leaf)} :
     Refinable(node, c) /\ ~node[c].leela}

\* probe_leela_batch has answers for the nodes in probed.
ProbeBatch(probed, paid) ==
  /\ phase = "probe"
  /\ probed \subseteq Schedulable /\ Cardinality(probed) <= BatchSize
  /\ probed # {} => ~node[leaf].leela /\ leelaLeft > 0
  /\ paid \subseteq probed /\ Cardinality(paid) <= leelaLeft
  /\ stopped => paid = {}
  /\ node' = [c \in Node |-> IF c \in probed THEN [node[c] EXCEPT !.leela = TRUE] ELSE node[c]]
  /\ resolved' = probed
  /\ leelaLeft' = leelaLeft - Cardinality(paid)
  /\ phase' = IF probed = {} THEN "expand" ELSE "rebuild"
  /\ UNCHANGED <<queued, leaf, epoch, stopped, result>>

\* One after another they are rebuilt and backed up. No leaf with LD2 evidence was
\* probed, so the leaf has it now if it was among them.
RebuildProbed(c, g) ==
  /\ phase = "rebuild" /\ c \in resolved
  /\ node' = [node EXCEPT ![c] = Rebuilt(@, g)]
  /\ Enqueue(c)
  /\ resolved' = resolved \ {c}
  /\ phase' = IF resolved' # {} THEN "rebuild" ELSE IF node[leaf].leela THEN "tail" ELSE "expand"
  /\ UNCHANGED <<leaf, epoch, leelaLeft, stopped, result>>

\* expand_node(leaf, false) below the depth limit, up to candidate i. Its own LD2
\* probe may still succeed: a cache hit, or a job paid for.
ExpandLeaf(i, g, probed, paid) ==
  /\ phase = "expand" /\ ~stopped
  /\ Refinable(node, leaf) /\ node[leaf].expansion # "full" /\ Ply[leaf] < MaxTreeDepth
  /\ probed => LeelaBudget > 0 /\ ~node[leaf].leela
  /\ paid => probed /\ leelaLeft > 0
  /\ LET t == IF probed THEN [node EXCEPT ![leaf] = WithLeela(@, g[leaf])] ELSE node
         limit == Lesser(Len(Moves[leaf]), node[leaf].next + widening)
     IN  /\ Materialises(node, leaf, limit, i)
         /\ node' = IF Moves[leaf] = <<>> THEN GameOver(t, leaf) ELSE Expanded(t, leaf, i, g)
  /\ leelaLeft' = leelaLeft - IF paid THEN 1 ELSE 0
  /\ Enqueue(leaf)
  /\ phase' = "tail"
  /\ UNCHANGED <<resolved, leaf, epoch, stopped, result>>

\* At the depth limit a leaf is closed, expanded or not.
CloseLeaf ==
  /\ phase = "expand" /\ Ply[leaf] >= MaxTreeDepth
  /\ node' = [node EXCEPT ![leaf].saturated = TRUE]
  /\ Enqueue(leaf)
  /\ phase' = "tail"
  /\ UNCHANGED <<resolved, leaf, epoch, leelaLeft, stopped, result>>

\* Interrupted: nothing is expanded.
SkipExpand ==
  /\ phase = "expand" /\ stopped /\ Ply[leaf] < MaxTreeDepth
  /\ phase' = "tail"
  /\ UNCHANGED <<node, queued, resolved, leaf, epoch, leelaLeft, stopped, result>>

\* The end of an iteration: a full tree advances the epoch or ends a finite
\* search.
EndIteration ==
  /\ phase = "tail"
  /\ LET full == Cardinality(Tree(node)) >= budget IN
       \/ full /\ AdvanceEpoch /\ phase' = "loop"
       \/ /\ ~(full /\ MayAdvance)
          /\ phase' = IF full /\ ~Infinite THEN "final" ELSE "loop"
          /\ UNCHANGED epoch
  /\ UNCHANGED <<node, queued, resolved, leaf, leelaLeft, stopped, result>>

\* Fault: an exhausted tree ends an infinite search as well.
LeaveExhausted ==
  /\ phase = "loop"
  /\ \/ stopped
     \/ MateProved(node)
     \/ ~Infinite /\ EarlyStop
     \/ ~MayAdvance /\ Frontier(node) = {}
  /\ phase' = "final"
  /\ UNCHANGED <<node, queued, resolved, leaf, epoch, leelaLeft, stopped, result>>

\* The breaks out of the loop. HeuristicEarlyStop needs interval separation,
\* which the scores decide.
Leave ==
  /\ phase = "loop"
  /\ \/ stopped
     \/ MateProved(node)
     \/ ~Infinite /\ EarlyStop
     \/ ~Infinite /\ ~MayAdvance /\ Frontier(node) = {}
  /\ phase' = "final"
  /\ UNCHANGED <<node, queued, resolved, leaf, epoch, leelaLeft, stopped, result>>

Decide ==
  /\ phase = "final"
  /\ result' \in Decisions(node)
  /\ phase' = "done"
  /\ UNCHANGED <<node, queued, resolved, leaf, epoch, leelaLeft, stopped>>

\* What an expansion does to the tree depends on the evaluators' corridors for
\* the contexts it creates and for those LD2 resolves.
Guesses(n, probed) == [probed \cup (Range(Moves[n]) \ Tree(node)) -> Guess]

ExpandRoot ==
  /\ phase = "root"
  /\ \E probed \in SUBSET (IF LeelaBudget = 0 THEN {} ELSE {0} \cup Range(Moves[0])) :
       \E i \in 0..Len(Moves[0]), paid \in SUBSET probed, g \in Guesses(0, probed) :
         RootExpand(i, g, probed, paid)

Probe ==
  /\ phase = "probe"
  /\ \E probed \in SUBSET (IF leelaLeft = 0 THEN {} ELSE Schedulable) :
       \E paid \in SUBSET probed : ProbeBatch(probed, paid)

Expand ==
  /\ phase = "expand"
  /\ \E probed, paid \in BOOLEAN :
       \E i \in 0..Len(Moves[leaf]), g \in Guesses(leaf, IF probed THEN {leaf} ELSE {}) :
         ExpandLeaf(i, g, probed, paid)

Handler ==
  \/ \E s \in Score, g \in Guess : RootVerify(s, g)
  \/ \E s \in Score : RootFallback(s)
  \/ ExpandRoot
  \/ Select
  \/ NextEpoch
  \/ \E s \in Score, g \in Guess : Sanitise(s, g)
  \/ SkipSanitise
  \/ Probe
  \/ \E c \in resolved, g \in Guess : RebuildProbed(c, g)
  \/ Expand
  \/ CloseLeaf
  \/ SkipExpand
  \/ EndIteration
  \/ Leave
  \/ Decide

SearchStep ==
  \/ \E n \in queued : BackUp(n)
  \/ queued = {} /\ Handler

Next == Stop \/ SearchStep

Spec == Init /\ [][Next]_vars

\* Every step of the search changes phase or the worklist, Stop does not, and a step
\* is possible until the result is there (the run checks deadlock); so this is weak
\* fairness of SearchStep: the worker thread keeps running.
Ended == phase = "done" /\ UNCHANGED vars

FairSpec ==
  Init /\ [][Next \/ Ended]_vars
       /\ ([]<>(phase = "done") \/ []<><<TRUE>>_<<phase, queued>>)

-----------------------------------------------------------------------------

Records ==
  [interned: BOOLEAN, expansion: {"unexpanded", "partial", "full"}, next: Nat,
   local: Corridors, interval: Corridors, depth: Nat, terminal: BOOLEAN,
   saturated: BOOLEAN, leela: BOOLEAN, tactical: Score \cup {NoScore},
   fresh: BOOLEAN, verifiedDepth: 0..MaxVerifyDepth]

TypeOK ==
  /\ node \in [Node -> Records]
  /\ phase \in {"baseline", "root", "loop", "verify", "leader", "probe", "rebuild",
                "expand", "tail", "final", "done"}
  /\ queued \in SUBSET Node /\ resolved \in SUBSET Node /\ leaf \in Node
  /\ budget \in FirstBudget..NodeLimit /\ widening \in 1..MaxWidening
  /\ verifyDepth \in 1..MaxVerifyDepth
  /\ leelaLeft \in 0..LeelaBudget
  /\ stopped \in BOOLEAN

(* Everything has its type, and no corridor is ever inverted, however       *)
(* evidence and proof contradict each other: every later comparison of      *)
(* bounds relies on it.                                                     *)
CorridorsValid ==
  TypeOK /\ \A n \in Tree(node) : Valid(node[n].local) /\ Valid(node[n].interval)

(* The tree never outgrows the active budget, nor the storage reserved for  *)
(* it: references into the vectors stay good while children are appended.   *)
BudgetHeld == Cardinality(Tree(node)) <= budget

(* Whatever the handlers do to a node, each expanded node agrees with its   *)
(* children when they return: every change was backed up along every parent.*)
BackupComplete == queued = {} => \A n \in Tree(node) : BackedUp(node, n) = node[n]

(* Closing a subtree hides no work, even when it shares nodes with another: *)
(* below a saturated node whatever is not terminal was expanded or lies at  *)
(* the depth limit, and conversely an open subtree has a frontier.          *)
NothingHidden ==
  queued = {} => \A n \in Tree(node) :
    node[n].saturated <=>
      \A m \in Below(node, n) :
        \/ node[m].terminal
        \/ node[m].expansion = "full"
        \/ Ply[m] >= MaxTreeDepth /\ node[m].saturated

(* A mate bound is never made up by backup, negation or widening: some node *)
(* below was verified, or ended, as a mate for the same side.               *)
MateHasWitness ==
  queued = {} => \A n \in Tree(node) : \A sign \in {1, -1} :
    Greater(sign * node[n].interval.lower, sign * node[n].interval.upper) >= Mate =>
      \E m \in Below(node, n) :
        LET side == IF (Ply[m] - Ply[n]) % 2 = 0 THEN sign ELSE -sign
        IN  IsPoint(node[m].local) /\ side * node[m].local.lower >= Mate

(* In analysis nothing but stop ends the search, except a mate.             *)
InfiniteWaits == Infinite /\ phase = "done" => stopped \/ MateProved(node)

(* Verification comes before the first expansion, at the epoch's depth and  *)
(* on the local corridor the node then has; and the node keeps it when its  *)
(* children are made, or else LD2 evidence came in that very step. (The     *)
(* manifest, "Frontier and epochs", knows no exception; expand_node's own   *)
(* probe, search.cpp:1087, is one: see README.)                             *)
VerifiedBeforeExpansion ==
  [][\A n \in Node : node[n].next = 0 /\ node'[n].next > 0 =>
       /\ node[n].fresh /\ node[n].verifiedDepth >= verifyDepth
       /\ node'[n].fresh \/ (~node[n].leela /\ node'[n].leela)]_vars

(* A context that left the frontier stays out of it: nothing terminal or    *)
(* saturated is ever opened again.                                          *)
ClosedStaysClosed ==
  [][\A n \in Tree(node) : ~Refinable(node, n) => ~Refinable(node, n)']_vars

(* A search that is not infinite reports by itself, once its tree is        *)
(* exhausted or its node limit reached: no iteration repeats without end.   *)
FiniteSearchEnds == ~Infinite => <>(phase = "done")

(* What the documents say, and the code does not do: see README.            *)

(* Bounds are exact for terminal positions and tablebase hits, and          *)
(* heuristic otherwise (README.md:358, manifest "Result semantics").        *)
ExactIsProved ==
  result.source = "exact" =>
    \/ IsMate(result.corridor.lower)
    \/ \E m \in Below(node, result.move) : node[m].terminal

(* An exact root mate stops at once (manifest, "Frontier and epochs"): no   *)
(* leaf is refined while a root move is verified to mate.                   *)
RootMateStops ==
  phase = "verify" =>
    \A c \in Children(node, 0) : node[c].tactical = NoScore \/ node[c].tactical > -Mate

=============================================================================
