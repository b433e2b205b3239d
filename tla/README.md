# Scarlet II: a TLA+ model of the engine's core

Scarlet II is a UCI chess engine whose main search, Modern B*, grows a DAG of
positions, keeps a corridor (an interval of scores) for each, verifies corridors
by short alpha-beta searches and decides by comparing them. This directory models
what is hard about it: two threads that share a search, a DAG whose cached values
must agree, and a driver that must end, or must not. Line numbers refer to the
repository; `src/src/...` is its `src/` directory.

## Inventory

| component | state | operations | interacts with | hard behaviour |
|---|---|---|---|---|
| UCI engine (`uci.cpp`) | position, search thread, `suppress_bestmove_`, output mutex | the command loop, `go`, `stop_search`, `report_result`, `set_position`, `setoption` | launches and joins the search thread; shares the control, the callback and the output with it | interleaving of the two threads, lost stops, waiting in `join` |
| search control (`search.hpp`, `should_stop`) | stop token, deadline, ponderhit flag, node counter | reset, request_stop, ponderhit, should_stop | written by both threads | stale flags, a deadline racing a stop |
| DAG backup (`dag_backup.hpp`) | worklist of nodes | `propagate_dag_change` | called by the driver after each change | order of a priority queue, shared nodes |
| corridors (`search.cpp`) | none | negate, overlap, hull, clamp, widen | leaves, backup, verification | boundaries, contradictions |
| Modern B* driver (`think_modern_bstar`) | proof tree, epoch, LD2 budget | intern, evaluate, verify, expand, probe, back up, advance the epoch, decide | evaluators, LD2, alpha-beta, tables | termination, stale caches, interrupts half-way, budget |
| alpha-beta (`negamax`, `qsearch`, `think_classic_ab`) | root move, counters | iterative deepening, sanitizer | transposition table | cutoffs at the root, draw scores |
| transposition table (`tt.hpp`) | buckets, age | probe, save, resize, clear | every search | mate distance by ply, replacement, failed resize |
| LD2 backend (`leela_raw.cpp`) | weights, LRU cache, worker pool | load, probe, probe_batch | the driver | batches, cancellation, cache limits |
| NNUE (`nnue_berserk.cpp`) and accumulator cache | network, LRU of accumulators | refresh, apply_move | driver, alpha-beta | incremental against full |
| position (`movegen.hpp`) | board, key, history | make, undo, draw rules | everything | undo of every kind of move, repetitions, transactional set-up |
| Syzygy (`syzygy.cpp`) | path, limits | probe_root, probe_wdl | root, leaves | eligibility guards |
| evaluation, paths, perft | none | - | - | - |

What makes each correct: the UCI engine answers each accepted `go` once, never
touches what a running search uses, never waits for a search it has not stopped;
the backup leaves no expanded node inconsistent with its children; the driver
verifies before it expands, stays in its budget, hides no work behind a
`saturated` flag, ends a finite search and waits in an infinite one; the table
never returns a mate at the wrong distance or a bound from another search domain;
the caches never exceed their capacity or return another position's result.

## How the parts interact

The UCI thread reads a line, and for most commands first requests a stop and joins
the search thread (`stop_search`); only then does it touch position, options, table
or networks. `go` resets the control, sets the callback and launches the thread. The
search polls the control (`should_stop`), and takes `output_mutex_` to print `info`
and `bestmove`. Inside the search the Modern B* driver owns the tree: it evaluates a
new node (rule draw, Syzygy, NNUE or classical score, LD2), verifies a chosen leaf by
alpha-beta, asks LD2 for a batch of leaves, expands a leaf and passes every change to
`propagate_dag_change`. Alpha-beta shares the transposition table with it. Accumulators
follow the tree's canonical links.

## Modules

| module | models | state | actions |
|---|---|---|---|
| `UciProtocol` | what a GUI may rely on | session, reply, urged | Go, Urge, Answer, Drop, Quit, Close |
| `UciEngine` | `uci.cpp`, `SearchControl`, `should_stop`, the life cycle of both cores | one program counter per thread, control, callback, limits, mutex | one per step of a handler or of the search between two points another thread can see |
| `DagBackup` | `dag_backup.hpp` and its callers | links, evidence, values, worklist | Revise, Expand, Propagate |
| `Corridor` | interval arithmetic of `rebuild_leaf`, `backup_node`, `verify_leaf` | none | operators |
| `ModernBStar` | `think_modern_bstar` | proof tree, phase, epoch, LD2 budget, stop, result | one per stage of an iteration, Stop at any time |
| `TTValues` | score bounds, mates in the table and at a ply | none | operators |
| `TTCache` | what the table promises | answers by key | Accept, Decline, Evict, Clear, FailedResize |
| `TransTable` | one cluster of `tt.hpp` | lanes, generation | Update, Touch, Insert, NewSearch, Clear, Resize, ResizeFails; probe and cutoff are operators |
| `AlphaBeta` | `think_classic_ab`, `negamax`, `qsearch` | the calls in progress by ply, what the last one returned, the iteration, the table as `TTCache` | one per way a call begins, goes on or ends; Go, Deepen, Complete, GiveUp; Stop; ClearHash |
| `LeelaCache` | `leela_raw.cpp` without arithmetic | cache, recency list, the call in progress | Call, Lookup, Enter, Check, Kernel, Throw, Fill, Install, Return; Stop; load and options |
| `Accumulator` | NNUE features, refresh, `apply_move`, and the board part of `make_move` | none | operators |
| `MoveGen` | attacks and the generators of `movegen.hpp`, on a board of any size | none | operators |
| `GameHistory` | `make_move`, `undo_move`, `generate_legal`, repetition and other draws by rule, LD2 frames, `set_fen`, `same_proof_context` | none | operators on a game |
| `ProofArena` | `set_position`; the arena, `expand_node`, `intern_node`, `cache_accumulator`, `build_accumulator_for_node` | the engine's position, the command obeyed and what it builds, tree of games, cache and list, the expansion in progress | SetPosition, PlayMove, Refuse, MoveIn, Start, Begin, Climb, Land, Walk, Keep, List, Share, Insert, Leave, Finish |

`MC...` modules give the constants their values; `..._proofs` modules hold theorems.
`UciEngine` composes with `UciProtocol` by refinement, `TransTable` with `TTCache`, and
`AlphaBeta` runs on any table that keeps `TTCache`'s promises: what `TransTable` is shown
to implement is all the search is shown to need. `ModernBStar` extends `Corridor`, and
does its backups in the order `DagBackup` shows to be sufficient. `ProofArena` composes
`Accumulator`, `MoveGen` and `GameHistory` with the driver's arena; its nodes are what
`ModernBStar` takes as given, the proof contexts. In a module, an operator that says
"Fault" is no part of the model: it is a plausible mistake in the operator beside it,
used to confirm that the properties notice it.

### What the abstractions are

* `UciEngine`: a position is one of five kinds of root; the search is units of work;
  time is whether the deadline has passed. Parsing is a command that is accepted or
  not (`badgo`). `position` ends in any kind of root, so a rejected one is covered.
* `ModernBStar`: the game is a fixed graph whose nodes are proof contexts (position,
  history, ply), as `intern_node` distinguishes them. What evaluators, LD2 and
  verification return is chosen from `Guess` and `Score`. Every refinable frontier node
  may be selected, not only the one the scores prefer: what holds, holds for any
  preference. Verification of the root and of leaves may be cut short by a stop. The
  deeper verification of noisy or dangerous nodes (one ply more) is not told apart.
  The root is probed for LD2 evidence twice, as in the code: when it is evaluated, before its
  verification, and again by `expand_node` if it has none; either may be answered from the raw cache
  or paid for. Root expansion materialises all moves, as in the code: the budget starts at 1024 and
  there are at most 218 legal moves. A backup is a step per node, taken from the worklist
  `queued` deepest ply first; which of one ply comes first is left open. The nodes an LD2 batch has
  answers for are rebuilt one at a time, in any order (phase "rebuild").
* `TransTable`: clusters share nothing but the generation, so one is enough. Only the
  search thread calls the table, hence a call is a step. `Truth` is the value of a
  position at a depth; `Storable` requires that the search saves true bounds, which
  `AlphaBeta` shows it does. `save_move` and the `proves_fail_*` functions have no caller.
  Keys are verification keys; two positions of a cluster that share one are out of scope
  (the code accepts that risk: comment at `tt.hpp:601`).
* `AlphaBeta`: a game is any finite graph with scores; a node is a position with what
  `draw_by_rule` sees of its history, and `Key` forgets that history, as the engine's key
  does. The recursion of `negamax` is a stack of frames, one step per call, return and
  move, so a stop can come between any two. `QSearch` is one recursive function: it
  touches no state but the node counter. `Lo` and `Hi` are the reference, the range of the minimax
  values a position may be given at a depth *or more*, since the table may answer with a
  deeper search, and over all histories of one key. They are no part of the search.
  Node counting, the clock and the info line are left out; `stopped` may be raised at any step.
* `LeelaCache`: a result is where it came from (network, position, torn or whole).
  Memory can run out only inside the network (`Throw`), not inside `cache_result`.
* `Accumulator`: values are counts of features, a free abelian group, which the 16-bit
  wrap-around sums of any weights are an image of.
* `MoveGen`: bitboards are sets of squares, shifts and magic tables the squares a step or a slide
  reaches; `generate_captures`, `generate_quiets` and `generate_evasions` are filters of the
  same lists, with no state, and left out.
* `GameHistory`: a key is the identity of what it hashes (board, side, rights, en passant);
  equal keys of different positions are out of scope. The move number, which nothing
  reads, is left out. `set_fen` gets a parsed FEN and does its checks; malformed text is
  a rejected command. `set_fen` accepts a position whose side not to move is in check; the
  runs' commands are `Proper`, typed and with no king to be taken at once (`CommandAssumption`
  of `ProofArena`), without which `PositionsHonest` does not hold.
* `ProofArena`: `set_position` is a step per move, made on a copy (`next`): no other thread sees it
  half-way, as the search was joined before, but each step is told apart so that what a refused
  command leaves behind can be stated. A malformed FEN changes nothing and is no step. The candidates are materialised in the order of `Prior`, ties in any order,
  and any node that may be expanded may be chosen. It assumes a loaded network, and a search that
  starts with a choice and no draw. Two fallbacks of `build_accumulator_for_node` cannot be reached
  (a missing canonical parent, a canonical move that cannot be made) and are left out.

## Runs

| run | bounds | shows |
|---|---|---|
| `dag_backup` | 5 nodes, one shared, corridors cut down to a number | changes in any order leave no expanded node stale, back a node up once per propagation, and end |
| `uci` | 9 kinds of `go`, all commands, 2 units of work, node limit 1 | mutual exclusion, one `bestmove` per `go`, a callback for as long as its search runs, an infinite or ponder search waits; joins return, finite and ponder-hit searches end; `UciProtocol` is implemented |
| `bstar_finite` | 5 contexts, a transposition, a tablebase win, two epochs, 1 LD2 evaluation, corridors that agree or contradict | corridors, budget, backup, verification order and the evidence a node is expanded on, and a result in the end |
| `bstar_analysis` | 6 contexts, three plies, a mate, three verification depths, infinite | `saturated` hides no work, a mate bound has its mate below, closed nodes stay closed, only a stop or a mate ends it |
| `trans_table` | 2 lanes, 3 keys, one that of zeroed memory, 7 saves at plies 0, 2, 5, windows around 0 and around both mates | a cutoff is right where it is taken; one lane per key; eviction prefers old entries; `TTCache` is implemented |
| `alpha_beta` | 9 positions, 3 of them roots of a `go`, depth 3; a transposition with two histories, a mate, a stalemate, a tablebase loss | entries and scores are sound, whatever other searches and stops left in the table; the move attains the score, or is the first one when the table answered every iteration; every `go` is answered |
| `leela_cache` | 3 positions, capacity 2, batches of 3, 2 networks, 3 kernels, one unchecked | only whole answers of the present network; recency; charging; calls return |
| `proof_arena` | a board of 4 files and 5 ranks, six position commands, one refused at its FEN and one at its second move; castling, en passant, promotions that take a rook; trees of up to 7 nodes, cache of 2 | positions and histories are those that could be set up; paths that share a node agree on what follows; expansion leaves the arena as it was; accumulators equal a full rebuild; `position` is all or nothing |
| `uci_solved_root`, `alpha_beta_searchmoves`, `bstar_exact`, `bstar_root_mate` | as small as the case allows | the four disagreements below |

Why the bounds are enough. Two units of work put an interrupt before, between and
after them. A DAG needs a diamond for a shared node to matter and a second leaf for
two pending changes; the game of `bstar_finite` adds a child expanded before its other
parent, and that of `bstar_analysis` a closed subtree below an open one. The table
needs one key more than lanes to evict and one empty lane more to confuse a key with
zeroed memory; `AgeCycle` 3 stands for 32 and goes round within a run. The alpha-beta game has a
root that is also met inside another root's search, so that entries travel between plies
and depths, and a key with two histories, of which one is a draw. In `bstar_finite` every search returns 0, so that guesses and LD2 carry the evidence that agrees or
contradicts; the scores that decide games, mates among them, are those of `bstar_analysis`. Caches need one key
more than they hold, and a path longer than what is cached. Four files and five
ranks are the least on which a double step can be taken en passant and a king can castle; a
`FrameLimit` of 2 (8 in the code) and a `DrawClock` of 5 (100) make the ring turn and the
fifty-move rule bite within a few moves. Bishops and queens are in `MoveGen` but not on that board.
`same_proof_context` compares the reversible keys one by one and all frames, so paths
share a node only after an irreversible move and, with 8 frames, eight equal boards: the game
`Meeting` does it in two moves by a promotion to a rook or knight that is taken at once.
`MaxWork`, `NodeLimit`, `MaxTreeDepth`, `MaxNodes`, `MaxDepth`, `MaxBatch`, `MaxCapacity`, `Budget` and
`AgeCycle` are the only bounds; those of the tree and of depths correspond to limits of the
code (depth 64, tree and cache capacities), scaled down.

`trans_table`, `uci`, `alpha_beta`, `bstar_finite` and `proof_arena` are the long runs (one to
three minutes each with two workers). Deadlock is checked except in `bstar_analysis`,
`bstar_exact` and `bstar_root_mate`, where the search stops for good once it has its result.
Type invariants that a theorem establishes are not checked again as invariants of a run; those of
`LeelaCache`, `ModernBStar` and `ProofArena` are conjuncts of `CacheIsRecent`, `CorridorsValid` and `PositionsHonest`.

### Fairness

* `UciEngine`: weak fairness for each thread and for time. Strong fairness for taking
  the output mutex (`Emit`, `Report`): a GUI that sends `isready` without a pause may
  otherwise win it for ever; the platform's mutex does not starve a waiter that long.
  No fairness is assumed for the GUI.
* `ModernBStar`: the worker thread keeps running. `FairSpec` spells out weak fairness
  of the search's step: each of its steps changes `phase` and a stop does not, and the run
  shows by the absence of deadlock that one is always possible.
* `AlphaBeta`: the worker thread keeps running; neither a stop nor a deadline is forced, since every
  search has a depth.
* `LeelaCache`: the call goes on; `Throw` is never forced.
* `DagBackup`: the loop goes on.

## What is proved

For every value of the constants that meets the modules' assumptions, with TLAPS.

* **UCI engine** (`UciEngine_proofs`). `IInv` is inductive; `ExclusiveSteps`, `OneBestmovePerGo`,
  `SearchIsHeard`, `StopIsNotLost`, `InfiniteWaits` and `QuitIsSilent` follow, and each step is a step or
  a stutter of `UciProtocol`. None of them is inductive alone: exclusive access depends
  on which handlers have passed the join (`HandlerOK`), the lost stop on what the control
  looks like between reset and launch, and `InfiniteWaits` on tracing the stop token,
  the deadline and the ponderhit flag back to what raised them (`WaitInv`).
* **DAG backup** (`DagBackup_proofs`), for any graph layered by ply and any combination
  function: a stale node is queued (`StaleIsQueued`), no queued node is deeper than one
  that was popped (`DescendingPly`), so the quiet state is consistent and
  a node is backed up once.
* **Transposition table** (`TransTable_proofs`): one lane per key needs that unused lanes
  form a tail and are zero, because a zeroed lane answers to key 0. Soundness of cutoffs
  adds `EntriesHonest`: a stored bound, moved to the node's own ply, is a bound on its
  value. It assumes that what the search saves is true (`Request`, `Truth`). `EvictsStaleFirst` rests on
  `AgesTrue`: until the cycle goes round, the age an entry shows is how long it has stood, also
  across the wrap. `ImplementsCache` maps every step to one of `TTCache` (or a stutter), by a lemma for each kind of
  write: one lane per key makes what a key is answered with a function of the table, and a
  miss must be no answer (`MissAssumption`).
* **Alpha-beta** (`AlphaBeta_proofs`), for every game, depth and table that keeps `TTCache`'s promises:
  `TableSound`, `ScoreSound`, `MoveAttainsScore` and `InterruptedChangesNothing`. The invariant says of every call in
  progress that its best score is a lower bound and that every move it has done with is worth no more
  (`FrameSound`), and that a child's window is the parent's turned round. Two hypotheses are stated with the theorems:
  `QuiesceIsSound` (qsearch keeps negamax's promise; it is recursive, so TLC checks it in `MCAlphaBeta`
  over windows around every score) and `Unrestricted` (no `searchmoves`): the run
  `alpha_beta_searchmoves` shows that the second is needed. `MoveAttainsScore` adds that the table cannot cut the
  root off after an iteration that searched it (`MoveInv`: an entry deep enough for a later iteration would
  have answered the earlier one), so a move never stands under the score of another iteration.
* **Modern B\*** (`ModernBStar_proofs`), for every finite graph of contexts, set of guesses and
  scores, budget and depth: all the safety properties of both runs. First the operators: no interval is inverted, a partial node claims no
  more than its local corridor, a full one stays in the hull of both, leaves and re-verified nodes stay within
  the heuristic cap. Then the driver. `IInv` says what each node is built of (`TreeSound`), that a node whose corridor does
  not follow from its children is queued (`StaleIsQueued`; `BackupComplete` is this when the queue is empty),
  that the tree fits its budget (`BudgetHeld`), and what each phase may rely on (`Opening`, `Iterating`,
  `Ending`). `NothingHidden` and `MateHasWitness` speak of paths of any length, yet follow from local facts: of the
  nodes that break them, a finite set layered by ply, the deepest would have a child that breaks them too.
  `VerifiedBeforeExpansion` speaks of both sides of the step that expands: the node was verified at the epoch's depth, and
  its corridor is the verified one afterwards as well, or that step brought its first LD2 evidence (`ProbedNode`).
* **LD2 cache** (`LeelaCache_proofs`), for every capacity, batch and set of networks: `AnswersAreWhole`, `CacheIsRecent`,
  `ChargedForAnswers`. The list names no key twice and the map's keys are those of the list; what has been touched
  is how it ends (`StoreSound`). A torn tensor implies that the stop was raised, so the look at it in front of each result
  keeps a torn one out of cache and answer; the pending indices ascend, so each result is taken, and charged, once
  (`CallSound`, `Progress`).
* **Accumulators** (`UpdateIsRefresh`, the first part of `GameHistory_proofs`): for any board and any playable move,
  updating equals refreshing. The lemmas describe the board after a plain and a castling
  move square by square, and each feature's count after every difference.
* **Games and the arena** (`GameHistory_proofs`, `ProofArena_proofs`), for every board `MoveGen` allows, every
  set of proper commands, ordering, budget and capacity. `Honest` strengthens `PositionsHonest`: a king is
  where the position says *and nowhere else*, pawns stay off the outer ranks, a right to castle has its king and
  rook at home, an en passant square its pawn in front and a pawn that can take it, the side that moved is
  not in check, the last key is the position's own. `LegalKeepsHonest` shows that a legal move keeps it. It
  needs that no king can be taken, and that rests on the symmetry of sight: what a piece hits from a
  square, a piece of its kind hits back from there (`TargetsBack`, `PawnHitsBack`). `TrialIsIntact` shows that
  making and taking back is the identity, and `ProbingIsIntact` lifts it to all candidates in any order.
  `ContextsAgree` shows that one proof context has one future: it survives every move. `HistoryExact` needs that what was
  before an irreversible move never recurs. `BoardWeight` measures that: a piece weighs one, a pawn two and the
  ranks it has to go; `MoveLightens` shows that no move adds weight and a pawn move or a capture removes some, by
  an injection of the units after into those before. With sides that alternate (`Ordered`), the look back by clock and
  parity finds every repetition (`LookBackIsExact`). The invariant `IInv` of the
  arena adds that a node is its parent's game after its move, that the path climbed leads back to the node
  expanded, and that list and map of the cache agree (`Bounded`); `PositionsHonest`, `MergesAreSafe`, `ArenaIntact`,
  `AccumulatorsMatch` (with `UpdateIsRefresh`), `CacheIsBounded` and `HistoryExact` follow.
  `AllOrNothing` rests on an invariant of its own, `Aside`: what a command has built is the game its FEN and the
  moves made so far lead to. `PositionedInSteps` shows that such games end in the position of the whole command, and
  `RefusedIsNoGame` that after one refused move the whole command has none.

Every safety invariant and action property of the passing runs is stated by a theorem. Only model-checked:
liveness under fairness (`PropagationEnds`, `JoinEnds`, `FiniteSearchEnds` of both modules, `PonderhitEndsSearch`,
`CallsReturn`, `GoIsAnswered`, and the fairness in `ImplementsProtocol`), which is outside the prover; and
what quiescence search returns, a recursive function whose value needs induction over its depth.

## Where documents and code disagree

1. `uci_solved_root`: docs/Syzygy.md says a solved root under `go infinite` waits
   for `stop`; mate, stalemate, rule draws, single replies and a proved mate return at once.
2. `alpha_beta_searchmoves`: Release_v0.7.1 says `go searchmoves` works in ClassicAB. The table is probed
   before the root moves are restricted, and the restricted score is saved under the position's
   ordinary key, so either search can be answered with the score of the other.
3. `bstar_exact`: documents reserve "exact" for mates, terminals and tablebases; the code gives
   it to any corridor whose bounds meet, which heuristic evidence can bring about.
4. `bstar_root_mate`: the manifest says an exact root mate stops at once; a mate verified on a
   root move that is already expanded is clamped into the heuristic scale and the search goes on.

Two more disagreements have no run of their own: a property states what the code does, exception included, and is
checked and proved in that form.

5. docs/ModernBStar_manifest.md:25 lets a frontier context expand only after it was verified, and the comment at
   `search.cpp:1223` calls verify-before-expand "an actual invariant". `expand_node` probes LD2 itself when the
   node has no LD2 evidence yet (lines 1087-1091), rebuilds the local corridor, and creates the children in the same
   call, on a corridor no verification has seen; the loop's test of `localRevision` (line 1525) comes before it. It
   happens when the batch left the leaf out, and at the root. `VerifiedBeforeExpansion` allows exactly this: without its last
   disjunct (`~node[n].leela /\ node'[n].leela`), `bstar_finite` ends in a counterexample. The node keeps
   its stale revision and is verified again only if it is selected again.
6. A `go` for a position whose table entry is deep enough, as when the same `go` is repeated, is answered without a look
   at a move: `negamax` returns the entry's score before it sets `root_best_` (`search.cpp:536-542`), and
   `result.best_move` stays `legal.moves[0]` (line 1755), printed under the score of another move. No document promises more, but
   a user would expect it. `MoveAttainsScore` says when this happens, and only then: no iteration of the go searched
   the root.

Remarks without a run. A quit can overtake a `bestmove` that is being printed; the documents leave
that open, and `UciProtocol` allows it. ClassicAB's comment says its wait after the last iteration ends on
stop or ponderhit; without a clock, ponderhit arms no deadline and ends nothing. Release_v0.7.1_ru calls the
eviction of the LD2 cache FIFO; the code moves a hit to the end of the list, so it is LRU. A
stalemate whose static score is at least beta is scored statically by qsearch, and a
mate by the move that completes the half-move clock is scored a draw: `QSearch` and
`DrawByRule` have that order, and no document says otherwise.

## Not modelled

Hashing, the text of FEN, SAN and UCI, the move-list filters (covered by the perft and position
tests); Syzygy's guards, whose prober is vendored; evaluation terms; the
arithmetic and file formats of the networks; the raw memory of the table; the clock
arithmetic of `go`; paths, perft.

## Plan

Done, in this order: UCI engine and protocol, DAG backup, corridors, the proof driver,
transposition table, LD2 cache, accumulators; then alpha-beta on the table's abstraction, move generation, game
history, and the arena of positions with shared contexts and accumulators.

Next, each with its run, mutants and, where the prover can follow, its theorem:

1. `SyzygyGuards`: which positions may be probed, at the root and inside the search.
2. `GoLimits`: the clock arithmetic of `go` (32- and 64-bit milliseconds, zero and negative clocks).
3. Proofs: that `QSearch` keeps negamax's promise, if its recursion can be turned into a descent over a finite
   set as `NothingHidden` was, which would discharge the hypothesis `QuiesceIsSound` of the alpha-beta theorems.
