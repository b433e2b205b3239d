----------------------------- MODULE AlphaBeta -----------------------------
(***************************************************************************)
(* Iterative deepening, alpha-beta and quiescence search (search.cpp,      *)
(* think_classic_ab, negamax, qsearch), one step per call, return and      *)
(* move, over any game and a transposition table that keeps what TTCache   *)
(* promises. A stop or the deadline may come before every step.            *)
(***************************************************************************)
EXTENDS TTValues, FiniteSets, SequencesExt

CONSTANTS
  Node,         \* positions with what draw_by_rule sees of their history; of two
                \* moves the one generated first leads to the smaller number
  Key,          \* Key[n]: the position's key, which says nothing of its history
  Legal,        \* Legal[n]: the positions after its legal moves
  Noisy,        \* Noisy[n]: those after captures and promotions
  InCheck,      \* positions in check
  Static,       \* Static[n]: safe_eval
  Drawn,        \* positions drawn by rule wherever they are met
  Repeated,     \* positions met once before: drawn inside a search, not at its root
  Wdl,          \* Wdl[n]: the score of a tablebase hit, or NoScore
  Limit,        \* what `position` and `go` may ask for: the root, a depth and the
                \* searchmoves, {} for all moves
  MaxDepth,     \* the greatest depth asked for
  Lo, Hi,       \* Lo[k][d], Hi[k][d]: bounds on the value of the positions of key
                \* k searched to depth d or more, mates counted from there (the
                \* properties' reference)
  NoMove, NoScore, NoFrame, Miss

ASSUME GameAssumption ==
  /\ Node \subseteq Nat /\ IsFiniteSet(Node) /\ Key \in [Node -> Nat]
  /\ Legal \in [Node -> SUBSET Node] /\ Noisy \in [Node -> SUBSET Node]
  /\ \A n \in Node : Noisy[n] \subseteq Legal[n]
  /\ InCheck \subseteq Node /\ Drawn \subseteq Node /\ Repeated \subseteq Node
  /\ Static \in [Node -> Int] /\ Wdl \in [Node -> Int \cup {NoScore}]
  /\ NoMove \notin Node /\ NoScore \notin Int

ASSUME LimitAssumption ==
  /\ MaxDepth \in 1..(MAX_PLY - 1)
  /\ Limit \subseteq [root : Node, depth : 1..MaxDepth, searchmoves : SUBSET Node]

VARIABLES
  kept,         \* the table: kept[k] is Miss, or the score, move and evaluation of k
  phase,        \* "idle", "iterate" (the depth loop) or "search" (in negamax)
  limits,       \* the position searched and the Limits
  depth,        \* of this iteration
  frames, ply,  \* the calls of negamax by ply, and the innermost one, -1 for none
  returned,     \* what the call that just ended returned, or NoScore
  completed,    \* the flag the calls share
  rootBest,     \* root_best_
  stopped,      \* should_stop has become true, and stays true
  result        \* the Result; scored says that rootBest set its move

search == <<frames, ply, returned, completed, rootBest>>
vars == <<kept, phase, limits, depth, search, stopped, result>>

Keys == {Key[n] : n \in Node}

Table == INSTANCE TTCache
           WITH VKey <- Keys, Request <- {}, resized <- "done", NoValue <- VALUE_NONE,
                Score <- LAMBDA r : [value |-> ValueToTT(r.value, r.ply),
                                     bound |-> r.bound, depth |-> r.depth]

-----------------------------------------------------------------------------

MatedIn(p) == -VALUE_MATE + p
Larger(a, b) == IF a >= b THEN a ELSE b

DrawByRule(n, p) == n \in Drawn \/ (n \in Repeated /\ p > 0)

\* What needs no search: the ply limit, a draw, below the root a tablebase hit.
Decided(n, p) == p >= MAX_PLY - 1 \/ DrawByRule(n, p) \/ (p > 0 /\ Wdl[n] # NoScore)
Verdict(n, p) ==
  IF p >= MAX_PLY - 1 THEN Static[n]
  ELSE IF DrawByRule(n, p) THEN VALUE_DRAW ELSE Wdl[n]

NoMoveScore(n, p) == IF n \in InCheck THEN MatedIn(p) ELSE VALUE_DRAW

\* order_search_moves: the table's move, then captures and promotions, and moves
\* that tie as they were generated.
Precedes(n, hash, a, b) ==
  IF a = hash \/ b = hash THEN a = hash /\ b # hash
  ELSE IF (a \in Noisy[n]) # (b \in Noisy[n]) THEN a \in Noisy[n] ELSE a < b

\* qsearch: every evasion in check, otherwise the static score or a capture.
\* A stalemate is a draw, unless the static score is at least beta.
QSearch[n \in Node, alpha \in Int, beta \in Int, p \in Nat] ==
  LET calm == n \notin InCheck
      tried == SetToSortSeq(IF calm THEN Noisy[n] ELSE Legal[n],
                            LAMBDA a, b : Precedes(n, NoMove, a, b))
      start == IF calm THEN Larger(alpha, Static[n]) ELSE alpha
      Try(acc, c) ==
        IF acc >= beta THEN acc ELSE Larger(acc, -QSearch[c, -beta, -acc, p + 1])
  IN  CASE Decided(n, p) -> Verdict(n, p)
        [] ~Decided(n, p) /\ calm /\ Static[n] >= beta -> Static[n]
        [] ~Decided(n, p) /\ Legal[n] = {} /\ ~(calm /\ Static[n] >= beta) -> NoMoveScore(n, p)
        [] OTHER -> FoldLeft(Try, start, tried)

Quiesce(n, alpha, beta, p) == QSearch[n, alpha, beta, p]

\* can_cutoff_classic: the score with which an entry ends the search of a node.
Cutoffs(e, d, alpha, beta, p) ==
  LET v == ValueFromTT(e.score.value, p)
  IN  {x \in {v} : /\ e.score.depth >= d
                   /\ \/ e.score.bound = "Exact"
                      \/ e.score.bound = "Lower" /\ v >= beta
                      \/ e.score.bound = "Upper" /\ v <= alpha}

\* Fault: a score that failed low is taken for exact.
BoundOfHard(best, alpha, beta) == IF best >= beta THEN "Lower" ELSE "Exact"

\* to_tt_bound, on the alpha the call began with.
BoundOf(best, alpha, beta) ==
  IF best >= beta THEN "Lower" ELSE IF best <= alpha THEN "Upper" ELSE "Exact"

\* restrict_root_moves.
Allowed(n, p, l) ==
  IF p = 0 /\ l.searchmoves # {} THEN Legal[n] \cap l.searchmoves ELSE Legal[n]

-----------------------------------------------------------------------------

\* A call of negamax before it has looked at its position.
Called(n, d, alpha, beta) ==
  [node |-> n, depth |-> d, alpha |-> alpha, beta |-> beta, orig |-> alpha,
   best |-> -VALUE_INFINITE, move |-> NoMove, hash |-> NoMove, todo |-> {},
   current |-> NoMove, opened |-> FALSE]

Top == frames[ply]
Entering == phase = "search" /\ ply >= 0 /\ returned = NoScore /\ ~Top.opened
Looping == phase = "search" /\ ply >= 0 /\ returned = NoScore /\ Top.opened
Returning == phase = "search" /\ ply >= 0 /\ returned # NoScore

Return(v) ==
  /\ frames' = [frames EXCEPT ![ply] = NoFrame]
  /\ ply' = ply - 1
  /\ returned' = v

Init ==
  /\ kept = [k \in Keys |-> Miss]
  /\ phase = "idle" /\ depth = 0 /\ stopped = FALSE
  /\ limits \in Limit
  /\ frames = [p \in 0..MaxDepth |-> NoFrame] /\ ply = -1
  /\ returned = NoScore /\ completed = TRUE /\ rootBest = NoMove
  /\ result = [move |-> NoMove, score |-> 0, depth |-> 0, scored |-> FALSE]

\* legal.moves[0], the root move that was generated first.
FirstMove(m, l) ==
  m \in Allowed(l.root, 0, l) /\ \A x \in Allowed(l.root, 0, l) : m <= x

\* go, then think_classic_ab up to its loop.
Go(l) ==
  /\ phase = "idle"
  /\ limits' = l /\ stopped' = FALSE
  /\ \E m \in Node :
       /\ FirstMove(m, l)
       /\ result' = [move |-> m, score |-> 0, depth |-> 0, scored |-> FALSE]
  /\ phase' = "iterate" /\ depth' = 1 /\ completed' = TRUE /\ rootBest' = NoMove
  /\ UNCHANGED <<kept, frames, ply, returned>>

\* The same, without a legal move to search.
GoNowhere(l) ==
  /\ phase = "idle" /\ Allowed(l.root, 0, l) = {}
  /\ limits' = l /\ stopped' = FALSE
  /\ result' = [move |-> NoMove, score |-> NoMoveScore(l.root, 0), depth |-> 0, scored |-> FALSE]
  /\ completed' = TRUE /\ rootBest' = NoMove
  /\ UNCHANGED <<kept, phase, depth, frames, ply, returned>>

\* The next iteration calls negamax with a full window.
Deepen ==
  /\ phase = "iterate" /\ depth <= limits.depth /\ ~stopped
  /\ frames' = [frames EXCEPT ![0] = Called(limits.root, depth, -VALUE_INFINITE, VALUE_INFINITE)]
  /\ ply' = 0 /\ completed' = TRUE /\ rootBest' = NoMove /\ phase' = "search"
  /\ UNCHANGED <<kept, limits, depth, returned, stopped, result>>

Finish ==
  /\ phase = "iterate" /\ (depth > limits.depth \/ stopped)
  /\ phase' = "idle" /\ depth' = 0
  /\ UNCHANGED <<kept, limits, search, stopped, result>>

-----------------------------------------------------------------------------
\* negamax: the ways a call answers before it searches a move.

rest == <<kept, phase, limits, depth, stopped, result>>

CallQuiesce ==
  /\ Entering /\ Top.depth = 0 /\ ~stopped
  /\ Return(Quiesce(Top.node, Top.alpha, Top.beta, ply))
  /\ UNCHANGED <<rest, completed, rootBest>>

Decide ==
  /\ Entering /\ Top.depth > 0 /\ Decided(Top.node, ply)
  /\ Return(Verdict(Top.node, ply))
  /\ UNCHANGED <<rest, completed, rootBest>>

\* should_stop, here or at the first node of qsearch.
Abort ==
  /\ Entering /\ stopped /\ (Top.depth = 0 \/ ~Decided(Top.node, ply))
  /\ Return(0) /\ completed' = FALSE
  /\ UNCHANGED <<rest, rootBest>>

Searched == Entering /\ Top.depth > 0 /\ ~Decided(Top.node, ply) /\ ~stopped

Hits ==
  IF ~Table!Known(Key[Top.node]) THEN {}
  ELSE Cutoffs(kept[Key[Top.node]], Top.depth, Top.alpha, Top.beta, ply)

CutOff ==
  /\ Searched
  /\ \E v \in Hits : Return(v)
  /\ UNCHANGED <<rest, completed, rootBest>>

NoMoves ==
  /\ Searched /\ Hits = {} /\ Allowed(Top.node, ply, limits) = {}
  /\ Return(NoMoveScore(Top.node, ply))
  /\ UNCHANGED <<rest, completed, rootBest>>

\* The frame when its loop begins.
Opened(f, p) ==
  [f EXCEPT !.opened = TRUE, !.todo = Allowed(f.node, p, limits),
            !.hash = IF Table!Known(Key[f.node]) THEN kept[Key[f.node]].move ELSE NoMove]

Open ==
  /\ Searched /\ Hits = {} /\ Allowed(Top.node, ply, limits) # {}
  /\ frames' = [frames EXCEPT ![ply] = Opened(Top, ply)]
  /\ UNCHANGED <<rest, ply, returned, completed, rootBest>>

-----------------------------------------------------------------------------
\* negamax: its loop over the moves.

\* Fault: the child's window is negated and not turned round.
WindowUnturned(f) == <<-f.alpha, f.beta>>

Window(f) == <<-f.beta, -f.alpha>>

Descend ==
  /\ Looping /\ Top.alpha < Top.beta
  /\ \E c \in Top.todo :
       /\ \A b \in Top.todo \ {c} : Precedes(Top.node, Top.hash, c, b)
       /\ frames' = [frames EXCEPT
                       ![ply] = [Top EXCEPT !.current = c],
                       ![ply + 1] = Called(c, Top.depth - 1, Window(Top)[1], Window(Top)[2])]
  /\ ply' = ply + 1
  /\ UNCHANGED <<rest, returned, completed, rootBest>>

\* Fault: a move that only ties replaces the best one.
RaisesOrTies(f, score) == score >= f.best

Raises(f, score) == score > f.best

\* The frame after the score of its current move.
Absorbed(f, score) ==
  [f EXCEPT !.best = Larger(@, score), !.alpha = Larger(@, score),
            !.move = IF Raises(f, score) THEN f.current ELSE @,
            !.todo = @ \ {f.current}, !.current = NoMove]

Absorb ==
  /\ Returning /\ completed
  /\ frames' = [frames EXCEPT ![ply] = Absorbed(Top, -returned)]
  /\ rootBest' = IF Raises(Top, -returned) /\ ply = 0 THEN Top.current ELSE rootBest
  /\ returned' = NoScore
  /\ UNCHANGED <<rest, ply, completed>>

SaveOf(f, p) ==
  [key |-> Key[f.node], value |-> f.best, bound |-> BoundOf(f.best, f.orig, f.beta),
   depth |-> f.depth, move |-> f.move, eval |-> Static[f.node], ply |-> p]

\* Fault: an interrupted call still saves what it has found.
UnwindSaving ==
  /\ Returning /\ ~completed
  /\ IF Top.move = NoMove THEN UNCHANGED kept ELSE Table!Save(SaveOf(Top, ply))
  /\ Return(0)
  /\ UNCHANGED <<phase, limits, depth, stopped, result, completed, rootBest>>

\* The child was interrupted: so is its parent.
Unwind ==
  /\ Returning /\ ~completed
  /\ Return(0)
  /\ UNCHANGED <<rest, completed, rootBest>>

Save ==
  /\ Looping /\ (Top.todo = {} \/ Top.alpha >= Top.beta)
  /\ Table!Save(SaveOf(Top, ply))
  /\ Return(Top.best)
  /\ UNCHANGED <<phase, limits, depth, stopped, result, completed, rootBest>>

-----------------------------------------------------------------------------
\* Back in the depth loop.

\* Fault: the depth stays where it is.
CompleteInPlace ==
  /\ phase = "search" /\ ply = -1 /\ completed
  /\ result' = [move |-> IF rootBest # NoMove THEN rootBest ELSE result.move,
                score |-> returned, depth |-> depth, scored |-> rootBest # NoMove]
  /\ phase' = "iterate" /\ returned' = NoScore
  /\ UNCHANGED <<kept, limits, depth, frames, ply, completed, rootBest, stopped>>

Complete ==
  /\ phase = "search" /\ ply = -1 /\ completed
  /\ result' = [move |-> IF rootBest # NoMove THEN rootBest ELSE result.move,
                score |-> returned, depth |-> depth, scored |-> rootBest # NoMove]
  /\ phase' = "iterate" /\ depth' = depth + 1 /\ returned' = NoScore
  /\ UNCHANGED <<kept, limits, frames, ply, completed, rootBest, stopped>>

\* The iteration was interrupted: the last one that was not stands.
GiveUp ==
  /\ phase = "search" /\ ply = -1 /\ ~completed
  /\ phase' = "idle" /\ depth' = 0 /\ returned' = NoScore
  /\ UNCHANGED <<kept, limits, frames, ply, completed, rootBest, stopped, result>>

\* A stop, the deadline or the node limit.
Stop ==
  /\ phase # "idle" /\ ~stopped
  /\ stopped' = TRUE
  /\ UNCHANGED <<kept, phase, limits, depth, search, result>>

ClearHash ==
  /\ phase = "idle" /\ Table!Clear
  /\ UNCHANGED <<phase, limits, depth, search, stopped, result>>

SearchStep ==
  \/ Deepen \/ Finish
  \/ CallQuiesce \/ Decide \/ Abort \/ CutOff \/ NoMoves \/ Open
  \/ Descend \/ Absorb \/ Unwind \/ Save
  \/ Complete \/ GiveUp

Next ==
  \/ SearchStep \/ Stop \/ ClearHash
  \/ \E l \in Limit : Go(l) \/ GoNowhere(l)

Spec == Init /\ [][Next]_vars

\* The worker thread keeps running.
FairSpec == Spec /\ WF_vars(SearchStep)

-----------------------------------------------------------------------------
\* The reference: what a position is worth at a ply, searched to a depth or more.

LoAt(n, d, p) == IF Decided(n, p) THEN Verdict(n, p) ELSE AtPly(Lo[Key[n]][d], p)
HiAt(n, d, p) == IF Decided(n, p) THEN Verdict(n, p) ELSE AtPly(Hi[Key[n]][d], p)

\* What negamax promises with a window: a score above alpha is not too high, a
\* score below beta is not too low.
Sound(n, d, p, alpha, beta, v) ==
  (v > alpha => v <= HiAt(n, d, p)) /\ (v < beta => v >= LoAt(n, d, p))

\* Lo and Hi bound the game's minimax values: the worth of a node agrees with the
\* worth of its moves at one depth less, and more depth only narrows it.
ASSUME RangeAssumption ==
  /\ Lo \in [Keys -> [0..MaxDepth -> Int]] /\ Hi \in [Keys -> [0..MaxDepth -> Int]]
  /\ \A k \in Keys, d \in 0..MaxDepth :
       /\ -VALUE_MATE <= Lo[k][d] /\ Hi[k][d] <= VALUE_MATE
       /\ ClearOfBand(Lo[k][d], 0..MaxDepth) /\ ClearOfBand(Hi[k][d], 0..MaxDepth)
       /\ \A e \in d..MaxDepth : Lo[k][d] <= Lo[k][e] /\ Hi[k][e] <= Hi[k][d]
  /\ \A n \in Node :
       /\ -VALUE_MATE < Static[n] /\ Static[n] < VALUE_MATE
       /\ Wdl[n] # NoScore => -VALUE_MATE < Wdl[n] /\ Wdl[n] < VALUE_MATE
  /\ \A n \in Node, p \in 0..MaxDepth, d \in 1..MaxDepth : p + d <= MaxDepth /\ ~Decided(n, p) =>
       /\ Legal[n] = {} => LoAt(n, d, p) <= NoMoveScore(n, p) /\ NoMoveScore(n, p) <= HiAt(n, d, p)
       /\ Legal[n] # {} => \E c \in Legal[n] : LoAt(n, d, p) <= -HiAt(c, d - 1, p + 1)
       /\ \A c \in Legal[n] : -LoAt(c, d - 1, p + 1) <= HiAt(n, d, p)

-----------------------------------------------------------------------------

Frame ==
  [node : Node, depth : 0..MaxDepth, alpha : Int, beta : Int, orig : Int, best : Int,
   move : Node \cup {NoMove}, hash : Node \cup {NoMove}, todo : SUBSET Node,
   current : Node \cup {NoMove}, opened : BOOLEAN]
Entry ==
  [score : [value : Int, bound : {"Exact", "Lower", "Upper"}, depth : 1..MaxDepth],
   move : Node \cup {NoMove}, eval : Int]
Report == [move : Node \cup {NoMove}, score : Int, depth : 0..MaxDepth, scored : BOOLEAN]

\* The calls in progress are as deep as the search allows, one per ply.
TypeOK ==
  /\ kept \in [Keys -> Entry \cup {Miss}]
  /\ phase \in {"idle", "iterate", "search"}
  /\ limits \in Limit /\ depth \in 0..(MaxDepth + 1)
  /\ ply \in -1..MaxDepth
  /\ DOMAIN frames = 0..MaxDepth
  /\ \A p \in 0..MaxDepth : IF p <= ply THEN frames[p] \in Frame ELSE frames[p] = NoFrame
  /\ returned \in Int \cup {NoScore}
  /\ completed \in BOOLEAN /\ stopped \in BOOLEAN
  /\ rootBest \in Node \cup {NoMove} /\ result \in Report

\* What the table says of a position is true of it: an exact score, a lower or an
\* upper bound for its depth, at every ply, whichever search and window left it
\* there and whatever was interrupted since (negamax's save after the loop).
EntrySound(n, s, p) ==
  LET v == ValueFromTT(s.value, p)
  IN  /\ s.bound # "Upper" => v <= HiAt(n, s.depth, p)
      /\ s.bound # "Lower" => v >= LoAt(n, s.depth, p)

TableSound ==
  \A n \in Node : Table!Known(Key[n]) =>
    \A p \in 0..MaxDepth :
      ~Decided(n, p) => EntrySound(n, kept[Key[n]].score, p)

\* The score reported is the value of the root at the depth reported, from iterations
\* cut short at any call, and with a table full of other searches' entries.
ScoreSound ==
  result.depth > 0 =>
    /\ LoAt(limits.root, result.depth, 0) <= result.score
    /\ result.score <= HiAt(limits.root, result.depth, 0)

\* The move reported attains the score, if any iteration of this go searched the root:
\* it is not one that was only refuted (negamax's strict comparison with the best so
\* far), nor the move of one iteration under the score of another. If the table cut
\* the root off in all of them (search.cpp:536), root_best_ was never set, and the move
\* is just the first, under a score that may be another's: see README.
MoveAttainsScore ==
  result.depth > 0 /\ ~Decided(limits.root, 0) =>
    IF result.scored
    THEN /\ result.move \in Legal[limits.root]
         /\ -HiAt(result.move, result.depth - 1, 1) <= result.score
         /\ result.score <= -LoAt(result.move, result.depth - 1, 1)
    ELSE FirstMove(result.move, limits)

\* A stopped iteration leaves no trace: neither the table nor the result of the
\* iteration before changes while the calls return.
InterruptedChangesNothing ==
  [][phase = "search" /\ ~completed' => UNCHANGED <<kept, result>>]_vars

\* Every go is answered.
GoIsAnswered == (phase # "idle") ~> (phase = "idle")

\* A search restricted by searchmoves answers for the listed moves alone: its score
\* is the best of theirs (Release_v0.7.1: go searchmoves works in ClassicAB).
SearchmovesAnswered ==
  phase = "idle" /\ result.depth > 0 /\ ~Decided(limits.root, 0) =>
    /\ \A c \in Allowed(limits.root, 0, limits) : -HiAt(c, result.depth - 1, 1) <= result.score
    /\ \E c \in Allowed(limits.root, 0, limits) : result.score <= -LoAt(c, result.depth - 1, 1)

=============================================================================
