-------------------------- MODULE AlphaBeta_proofs --------------------------
(***************************************************************************)
(* For every game, evaluation, depth and range of values that bounds the   *)
(* game's minimax, and whatever the table forgets or refuses to store: if  *)
(* the quiescence search keeps negamax's promise, so does negamax, what it *)
(* leaves in the table is true, and the score and the move reported are    *)
(* those of the root.                                                      *)
(***************************************************************************)
EXTENDS AlphaBeta, TLAPS

\* What is assumed of the recursive function Quiesce, whose values no induction
\* can be carried through here.
QuiesceIsSound ==
  \A n \in Node, p \in 0..MaxDepth, a \in Int, b \in Int :
    a < b => /\ Quiesce(n, a, b, p) \in Int
             /\ Sound(n, 0, p, a, b, Quiesce(n, a, b, p))

\* No go is restricted by searchmoves.
Unrestricted == \A l \in Limit : l.searchmoves = {}

Depths == 0..MaxDepth

LEMMA DepthsAreSmall == MaxDepth \in 1..245 /\ Depths = 0..MaxDepth
BY LimitAssumption DEF Depths, MAX_PLY

-----------------------------------------------------------------------------
\* Values at a ply.

\* A ply changes no order between values that are clear of the mates' edge.
LEMMA AtPlyMonotone ==
  ASSUME NEW s \in Int, NEW t \in Int, NEW p \in Depths, s <= t,
         ClearOfBand(s, Depths), ClearOfBand(t, Depths)
  PROVE  AtPly(s, p) <= AtPly(t, p)
<1>1. p \in 0..245 /\ MaxDepth \in 1..245
  BY LimitAssumption DEF Depths, MAX_PLY
<1>2. \/ s < 31508 /\ -s < 31508
      \/ s - p >= 31754
      \/ s + p <= -31754
  BY <1>1 DEF ClearOfBand, VALUE_MATE_IN_MAX_PLY, VALUE_MATE, MAX_PLY
<1>3. \/ t < 31508 /\ -t < 31508
      \/ t - p >= 31754
      \/ t + p <= -31754
  BY <1>1 DEF ClearOfBand, VALUE_MATE_IN_MAX_PLY, VALUE_MATE, MAX_PLY
<1> QED
  BY <1>1, <1>2, <1>3 DEF AtPly, VALUE_MATE_IN_MAX_PLY, VALUE_MATE, MAX_PLY

\* A claim about a position's value at one ply, saved and read at another, is the
\* same claim there.
LEMMA Rebase ==
  ASSUME NEW t \in Int, ClearOfBand(t, Depths), NEW p \in Depths, NEW q \in Depths,
         NEW v \in Int, -VALUE_INFINITE <= v, v <= VALUE_INFINITE
  PROVE  /\ ValueFromTT(ValueToTT(v, p), q) \in Int
         /\ v <= AtPly(t, p) => ValueFromTT(ValueToTT(v, p), q) <= AtPly(t, q)
         /\ AtPly(t, p) <= v => AtPly(t, q) <= ValueFromTT(ValueToTT(v, p), q)
<1>1. /\ p \in 0..245 /\ q \in 0..245 /\ MaxDepth \in 1..245
      /\ -32001 <= v /\ v <= 32001
  BY LimitAssumption DEF Depths, MAX_PLY, VALUE_INFINITE
<1>2. \/ t < 31508 /\ -t < 31508
      \/ t - p >= 31754 /\ t - q >= 31754
      \/ t + p <= -31754 /\ t + q <= -31754
  BY <1>1 DEF ClearOfBand, VALUE_MATE_IN_MAX_PLY, VALUE_MATE, MAX_PLY
<1> QED
  BY <1>1, <1>2 DEF AtPly, ValueFromTT, ValueToTT, VALUE_MATE_IN_MAX_PLY, VALUE_MATE, MAX_PLY,
                    VALUE_NONE

\* The reference's tables, entry by entry.
LEMMA TablesBound ==
  ASSUME NEW k \in Keys, NEW d \in Depths
  PROVE  /\ Lo[k][d] \in Int /\ -32000 <= Lo[k][d] /\ ClearOfBand(Lo[k][d], Depths)
         /\ Hi[k][d] \in Int /\ Hi[k][d] <= 32000 /\ ClearOfBand(Hi[k][d], Depths)
         /\ \A e \in d..MaxDepth : Lo[k][d] <= Lo[k][e] /\ Hi[k][e] <= Hi[k][d]
<1>1. Lo[k] \in [Depths -> Int] /\ Hi[k] \in [Depths -> Int]
  BY RangeAssumption, Zenon DEF Depths
<1>2. Lo[k][d] \in Int /\ Hi[k][d] \in Int
  BY <1>1, Zenon
<1>3. /\ -VALUE_MATE <= Lo[k][d] /\ Hi[k][d] <= VALUE_MATE
      /\ ClearOfBand(Lo[k][d], Depths) /\ ClearOfBand(Hi[k][d], Depths)
      /\ \A e \in d..MaxDepth : Lo[k][d] <= Lo[k][e] /\ Hi[k][e] <= Hi[k][d]
  BY RangeAssumption, Zenon DEF Depths
<1> QED  BY <1>2, <1>3 DEF VALUE_MATE

\* The reference's values are short of the windows' ends.
LEMMA ReferenceInRange ==
  ASSUME NEW n \in Node, NEW d \in Depths, NEW p \in Depths
  PROVE  /\ LoAt(n, d, p) \in Int /\ HiAt(n, d, p) \in Int
         /\ -VALUE_INFINITE < LoAt(n, d, p) /\ HiAt(n, d, p) < VALUE_INFINITE
<1>1. p \in 0..245 /\ MaxDepth \in 1..245
  BY LimitAssumption DEF Depths, MAX_PLY
<1>2. CASE Decided(n, p)
  <2>1. Verdict(n, p) \in {0, Static[n], Wdl[n]} /\ (Verdict(n, p) = Wdl[n] => Wdl[n] # NoScore \/ Verdict(n, p) \in {0, Static[n]})
    BY <1>2 DEF Decided, Verdict, VALUE_DRAW
  <2>2. /\ Static[n] \in Int /\ -VALUE_MATE < Static[n] /\ Static[n] < VALUE_MATE
        /\ Wdl[n] # NoScore => Wdl[n] \in Int /\ -VALUE_MATE < Wdl[n] /\ Wdl[n] < VALUE_MATE
    <3>1. Static[n] \in Int /\ Wdl[n] \in Int \cup {NoScore}
      BY GameAssumption, Zenon
    <3>2. /\ -VALUE_MATE < Static[n] /\ Static[n] < VALUE_MATE
          /\ Wdl[n] # NoScore => -VALUE_MATE < Wdl[n] /\ Wdl[n] < VALUE_MATE
      BY RangeAssumption, Zenon
    <3> QED  BY <3>1, <3>2
  <2>3. Verdict(n, p) \in Int /\ -32000 <= Verdict(n, p) /\ Verdict(n, p) <= 32000
    BY <2>1, <2>2 DEF VALUE_MATE
  <2> QED  BY <1>2, <2>3 DEF LoAt, HiAt, VALUE_INFINITE
<1>3. CASE ~Decided(n, p)
  <2>1. Key[n] \in Keys
    BY DEF Keys
  <2>2. \A t \in Int : ClearOfBand(t, Depths) =>
          /\ AtPly(t, p) \in Int
          /\ -32000 <= t => -32001 < AtPly(t, p)
          /\ t <= 32000 => AtPly(t, p) < 32001
    BY <1>1 DEF AtPly, VALUE_MATE_IN_MAX_PLY, VALUE_MATE, MAX_PLY
  <2> QED  BY <1>3, <2>1, <2>2, TablesBound DEF LoAt, HiAt, VALUE_INFINITE
<1> QED  BY <1>2, <1>3

\* A deeper search of an undecided position is worth no less than Lo and no more
\* than Hi of a shallower one.
LEMMA DeeperIsNarrower ==
  ASSUME NEW n \in Node, NEW p \in Depths, ~Decided(n, p),
         NEW d \in Depths, NEW e \in Depths, d <= e
  PROVE  LoAt(n, d, p) <= LoAt(n, e, p) /\ HiAt(n, e, p) <= HiAt(n, d, p)
<1>1. Key[n] \in Keys
  BY DEF Keys
<1>2. e \in d..MaxDepth
  BY LimitAssumption DEF Depths
<1>3. Lo[Key[n]][d] <= Lo[Key[n]][e] /\ Hi[Key[n]][e] <= Hi[Key[n]][d]
  BY <1>1, <1>2, TablesBound
<1>4. AtPly(Lo[Key[n]][d], p) <= AtPly(Lo[Key[n]][e], p)
  BY <1>1, <1>3, AtPlyMonotone, TablesBound
<1>5. AtPly(Hi[Key[n]][e], p) <= AtPly(Hi[Key[n]][d], p)
  BY <1>1, <1>3, AtPlyMonotone, TablesBound
<1> QED  BY <1>4, <1>5 DEF LoAt, HiAt

\* What the reference says of a position's moves, for a call at a ply of an
\* iteration.
LEMMA MovesBoundValue ==
  ASSUME NEW n \in Node, NEW p \in Depths, NEW d \in 1..MaxDepth, p + d <= MaxDepth,
         ~Decided(n, p)
  PROVE  /\ Legal[n] = {} => LoAt(n, d, p) <= NoMoveScore(n, p) /\ NoMoveScore(n, p) <= HiAt(n, d, p)
         /\ Legal[n] # {} => \E c \in Legal[n] : LoAt(n, d, p) <= -HiAt(c, d - 1, p + 1)
         /\ \A c \in Legal[n] : -LoAt(c, d - 1, p + 1) <= HiAt(n, d, p)
BY RangeAssumption DEF Depths

-----------------------------------------------------------------------------
\* The inductive invariant.

\* A call's window and depth, in an iteration to depth d.
Windowed(f, p, d) ==
  /\ f.depth = d - p
  /\ -VALUE_INFINITE <= f.orig /\ f.orig < f.beta /\ f.beta <= VALUE_INFINITE
  /\ -VALUE_INFINITE <= f.best /\ f.alpha = Larger(f.orig, f.best)

\* A move that was searched is worth no more than the best, unless that refutes.
Covered(f, p, c) == f.best < f.beta => -HiAt(c, f.depth - 1, p + 1) <= f.best

\* Half-way through the moves.
InLoop(f, p) ==
  /\ f.depth > 0 /\ ~Decided(f.node, p) /\ Legal[f.node] # {}
  /\ f.todo \subseteq Legal[f.node]
  /\ \A c \in Legal[f.node] \ f.todo : Covered(f, p, c)
  /\ f.best > f.orig => f.best <= HiAt(f.node, f.depth, p)

FrameOK(f, p, d) ==
  /\ f \in Frame /\ Windowed(f, p, d)
  /\ IF f.opened THEN InLoop(f, p) ELSE f.best = -VALUE_INFINITE

\* A call that searches its current move.
Calls(f) == f.opened /\ f.current \in f.todo /\ f.alpha < f.beta
CallOf(g, f) == g.node = f.current /\ g.orig = -f.beta /\ g.beta = -f.alpha

StackOK ==
  /\ DOMAIN frames = Depths /\ ply \in -1..MaxDepth
  /\ \A p \in Depths : IF p <= ply THEN FrameOK(frames[p], p, depth) ELSE frames[p] = NoFrame
  /\ \A p \in 0..(ply - 1) : Calls(frames[p]) /\ CallOf(frames[p + 1], frames[p])
  /\ ply >= 0 => /\ frames[0].node = limits.root
                 /\ frames[0].orig = -VALUE_INFINITE /\ frames[0].beta = VALUE_INFINITE

\* What the call that just ended returned to the one that waits for it.
ReturnOK ==
  Returning => /\ Calls(Top)
               /\ completed => Sound(Top.current, Top.depth - 1, ply + 1, -Top.beta, -Top.alpha, returned)

\* The move m attains the score v of the root.
Attains(m, v, d) ==
  m # NoMove => /\ m \in Legal[limits.root]
                /\ -HiAt(m, d - 1, 1) <= v /\ v <= -LoAt(m, d - 1, 1)

RootOK ==
  /\ ply >= 0 => IF frames[0].opened THEN Attains(rootBest, frames[0].best, depth)
                                     ELSE rootBest = NoMove
  /\ phase = "search" /\ ply = -1 /\ completed =>
       /\ Sound(limits.root, depth, 0, -VALUE_INFINITE, VALUE_INFINITE, returned)
       /\ Attains(rootBest, returned, depth)

PhaseOK ==
  /\ phase # "search" => ply = -1 /\ returned = NoScore
  /\ phase = "iterate" => 1 <= depth
  /\ phase = "search" => /\ depth \in 1..MaxDepth
                         /\ ply = -1 \/ ~completed => returned # NoScore

\* What MoveAttainsScore says of an iteration that searched the root.
ScoredAttains ==
  result.scored =>
    /\ result.move \in Legal[limits.root]
    /\ -HiAt(result.move, result.depth - 1, 1) <= result.score
    /\ result.score <= -LoAt(result.move, result.depth - 1, 1)

ResultOK == ScoreSound /\ ScoredAttains

\* TypeOK without the stack.
Types ==
  /\ kept \in [Keys -> Entry \cup {Miss}]
  /\ phase \in {"idle", "iterate", "search"}
  /\ limits \in Limit /\ depth \in 0..(MaxDepth + 1)
  /\ returned \in Int \cup {NoScore}
  /\ completed \in BOOLEAN /\ stopped \in BOOLEAN
  /\ rootBest \in Node \cup {NoMove} /\ result \in Report

IInv == Types /\ StackOK /\ ReturnOK /\ RootOK /\ PhaseOK /\ TableSound /\ ResultOK

LEMMA InvariantTypes == IInv => TypeOK
BY DEF IInv, Types, StackOK, FrameOK, TypeOK, Depths

-----------------------------------------------------------------------------
\* Steps within a search.

\* A call of an iteration is at a ply that its depth allows.
LEMMA TopFrame ==
  ASSUME IInv, ply >= 0
  PROVE  /\ ply \in Depths /\ FrameOK(Top, ply, depth) /\ Top \in Frame
         /\ Top.depth = depth - ply
BY DEF IInv, StackOK, FrameOK, Windowed, Top, Depths

\* What a call returns keeps the stack, if it is what negamax promises.
LEMMA Answered ==
  ASSUME IInv, phase = "search", ply >= 0, NEW v \in Int, Return(v),
         UNCHANGED <<limits, depth, rootBest>>, completed' \in BOOLEAN,
         completed' => /\ completed
                       /\ Sound(Top.node, Top.depth, ply, Top.orig, Top.beta, v)
                       /\ ply = 0 => Attains(rootBest, v, depth)
  PROVE  StackOK' /\ ReturnOK' /\ RootOK'
<1>1. /\ ply \in 0..MaxDepth /\ MaxDepth \in 1..245 /\ ply' = ply - 1 /\ returned' = v
      /\ DOMAIN frames' = Depths /\ frames'[ply] = NoFrame
      /\ \A p \in Depths : p # ply => frames'[p] = frames[p]
  BY DepthsAreSmall DEF IInv, StackOK, Return
<1>2. StackOK'
  <2>1. \A p \in Depths : IF p <= ply' THEN FrameOK(frames'[p], p, depth') ELSE frames'[p] = NoFrame
    BY <1>1 DEF IInv, StackOK, Depths
  <2>2. \A p \in 0..(ply' - 1) : Calls(frames'[p]) /\ CallOf(frames'[p + 1], frames'[p])
    BY <1>1 DEF IInv, StackOK, Depths
  <2>3. ply' >= 0 => /\ frames'[0].node = limits'.root
                     /\ frames'[0].orig = -VALUE_INFINITE /\ frames'[0].beta = VALUE_INFINITE
    BY <1>1 DEF IInv, StackOK, Depths
  <2>4. ply' \in -1..MaxDepth
    BY <1>1
  <2> QED  BY <1>1, <2>1, <2>2, <2>3, <2>4 DEF StackOK
<1>3. ReturnOK'
  <2> SUFFICES ASSUME ply > 0
               PROVE  /\ Calls(frames[ply - 1])
                      /\ completed' => Sound(frames[ply - 1].current, frames[ply - 1].depth - 1, ply,
                                             -frames[ply - 1].beta, -frames[ply - 1].alpha, v)
    <3>1. Returning' => ply > 0 /\ Top' = frames[ply - 1]
      BY <1>1, DepthsAreSmall DEF Returning, Top
    <3>2. ply' + 1 = ply
      BY <1>1
    <3> QED  BY <1>1, <3>1, <3>2 DEF ReturnOK
  <2>1. Calls(frames[ply - 1]) /\ CallOf(Top, frames[ply - 1])
    BY <1>1 DEF IInv, StackOK, Top, Depths
  <2>2. frames[ply - 1] \in Frame /\ frames[ply - 1].depth = depth - (ply - 1)
    <3>1. ply - 1 \in Depths /\ ply - 1 <= ply
      BY <1>1, DepthsAreSmall
    <3>2. FrameOK(frames[ply - 1], ply - 1, depth)
      BY <3>1 DEF IInv, StackOK
    <3> QED  BY <3>2 DEF FrameOK, Windowed
  <2>3. frames[ply - 1].depth - 1 = Top.depth
    BY <1>1, <2>2, TopFrame, DepthsAreSmall DEF IInv, Types
  <2> QED  BY <2>1, <2>3 DEF CallOf
<1>4. RootOK'
  <2>1. CASE ply = 0
    <3>1. frames[0].node = limits.root /\ frames[0].orig = -VALUE_INFINITE
          /\ frames[0].beta = VALUE_INFINITE /\ Top = frames[0] /\ Top.depth = depth
      BY <2>1, TopFrame DEF IInv, StackOK, Top, Types
    <3>2. ply' = -1
      BY <1>1, <2>1
    <3> QED  BY <1>1, <2>1, <3>1, <3>2 DEF RootOK, Attains
  <2>2. CASE ply > 0
    <3>1. 0 \in Depths /\ 0 # ply /\ ply' >= 0 /\ ply' # -1
      BY <1>1, <2>2, DepthsAreSmall
    <3>2. frames'[0] = frames[0]
      BY <1>1, <3>1, Zenon
    <3> QED  BY <3>1, <3>2 DEF RootOK, Attains, IInv
  <2> QED  BY <1>1, <2>1, <2>2 DEF Depths
<1> QED  BY <1>2, <1>3, <1>4

\* The variables a step of negamax leaves alone keep their part of the invariant.
LEMMA RestKept ==
  ASSUME IInv, phase = "search", UNCHANGED rest, StackOK', ReturnOK', RootOK',
         returned' \in Int \cup {NoScore}, completed' \in BOOLEAN,
         rootBest' \in Node \cup {NoMove},
         ply' = -1 \/ ~completed' => returned' # NoScore
  PROVE  IInv'
<1>1. Types' /\ PhaseOK'
  BY DEF IInv, Types, PhaseOK, rest
<1>2. TableSound'
  BY Zenon DEF IInv, TableSound, rest, EntrySound, Table!Known
<1>3. ResultOK'
  BY Zenon DEF IInv, ResultOK, ScoreSound, ScoredAttains, rest
<1> QED  BY <1>1, <1>2, <1>3 DEF IInv

\* A call that answers before it searches a move.
LEMMA AnsweredAtOnce ==
  ASSUME IInv, Entering, NEW v \in Int, Return(v), UNCHANGED <<rest, rootBest>>,
         completed' \in BOOLEAN,
         completed' => /\ completed
                       /\ Sound(Top.node, Top.depth, ply, Top.orig, Top.beta, v)
  PROVE  IInv'
<1>1. phase = "search" /\ ply >= 0 /\ UNCHANGED <<limits, depth>> /\ returned' = v /\ v # NoScore
  BY GameAssumption DEF Entering, rest, Return
<1>2. ply = 0 => Attains(rootBest, v, depth)
  BY <1>1 DEF Entering, IInv, RootOK, Attains, Top
<1>3. StackOK' /\ ReturnOK' /\ RootOK'
  BY <1>1, <1>2, Answered
<1> QED  BY <1>1, <1>3, RestKept DEF IInv, Types

\* A call that has not looked at its position still has its first window.
LEMMA FirstWindow ==
  ASSUME IInv, Entering
  PROVE  /\ Top.alpha = Top.orig /\ Top.orig \in Int /\ Top.beta \in Int /\ Top.orig < Top.beta
         /\ Top.node \in Node /\ Top.depth \in Depths /\ ply \in Depths
         /\ depth \in 1..MaxDepth /\ Top.depth = depth - ply
BY TopFrame DEF Entering, FrameOK, Windowed, Frame, Larger, Depths, IInv, PhaseOK, VALUE_INFINITE

LEMMA CallQuiesceStep == ASSUME QuiesceIsSound, IInv, CallQuiesce PROVE IInv'
<1>1. Entering /\ Top.depth = 0
  BY DEF CallQuiesce
<1> DEFINE v == Quiesce(Top.node, Top.alpha, Top.beta, ply)
<1>2. v \in Int /\ Sound(Top.node, 0, ply, Top.alpha, Top.beta, v)
  BY <1>1, FirstWindow DEF QuiesceIsSound, Depths
<1>3. Sound(Top.node, Top.depth, ply, Top.orig, Top.beta, v)
  BY <1>1, <1>2, FirstWindow
<1> HIDE DEF v
<1>4. Return(v) /\ UNCHANGED <<rest, completed, rootBest>>
  BY DEF CallQuiesce, v
<1> QED  BY <1>1, <1>2, <1>3, <1>4, AnsweredAtOnce DEF IInv, Types, CallQuiesce, Return

LEMMA DecideStep == ASSUME IInv, Decide PROVE IInv'
<1>1. Entering /\ Decided(Top.node, ply)
  BY DEF Decide
<1> DEFINE v == Verdict(Top.node, ply)
<1>2. LoAt(Top.node, Top.depth, ply) = v /\ HiAt(Top.node, Top.depth, ply) = v
  BY <1>1 DEF LoAt, HiAt
<1>3. v \in Int
  BY <1>1, <1>2, FirstWindow, ReferenceInRange
<1>4. Sound(Top.node, Top.depth, ply, Top.orig, Top.beta, v)
  BY <1>2, <1>3 DEF Sound
<1> HIDE DEF v
<1>5. Return(v) /\ UNCHANGED <<rest, completed, rootBest>>
  BY DEF Decide, v
<1> QED  BY <1>1, <1>3, <1>4, <1>5, AnsweredAtOnce DEF IInv, Types

LEMMA AbortStep == ASSUME IInv, Abort PROVE IInv'
<1>1. Entering /\ Return(0) /\ UNCHANGED <<rest, rootBest>> /\ completed' = FALSE
  BY DEF Abort
<1>2. completed' \in BOOLEAN /\ ~completed'
  BY <1>1, Zenon
<1>3. 0 \in Int
  OBVIOUS
<1> QED  BY <1>1, <1>2, <1>3, AnsweredAtOnce, Zenon

\* An entry deep enough for a call and true at its ply answers it.
LEMMA CutoffIsSound ==
  ASSUME IInv, Entering, ~Decided(Top.node, ply), NEW v \in Hits
  PROVE  v \in Int /\ Sound(Top.node, Top.depth, ply, Top.orig, Top.beta, v)
<1> DEFINE n == Top.node
           e == kept[Key[n]]
<1>1. /\ n \in Node /\ Top.depth \in Depths /\ ply \in Depths /\ Top.alpha = Top.orig
      /\ Top.orig \in Int /\ Top.beta \in Int
  BY FirstWindow
<1>2. Key[n] \in Keys /\ Table!Known(Key[n]) /\ v \in Cutoffs(e, Top.depth, Top.alpha, Top.beta, ply)
  BY <1>1 DEF Hits, Keys
<1>3. e \in Entry
  BY <1>2 DEF IInv, Types, Table!Known
<1>4. /\ v = ValueFromTT(e.score.value, ply) /\ e.score.depth >= Top.depth
      /\ \/ e.score.bound = "Exact"
         \/ e.score.bound = "Lower" /\ v >= Top.beta
         \/ e.score.bound = "Upper" /\ v <= Top.orig
  BY <1>1, <1>2 DEF Cutoffs
<1>5. e.score.value \in Int /\ e.score.depth \in 1..MaxDepth
  BY <1>3 DEF Entry
<1>6. v \in Int
  BY <1>1, <1>4, <1>5, DepthsAreSmall, SMTT(30) DEF ValueFromTT, VALUE_NONE
<1>7. EntrySound(n, e.score, ply)
  BY <1>1, <1>2, DepthsAreSmall DEF IInv, TableSound
<1>8. /\ e.score.bound # "Upper" => v <= HiAt(n, e.score.depth, ply)
      /\ e.score.bound # "Lower" => v >= LoAt(n, e.score.depth, ply)
  BY <1>4, <1>7 DEF EntrySound
<1>9. /\ LoAt(n, Top.depth, ply) <= LoAt(n, e.score.depth, ply)
      /\ HiAt(n, e.score.depth, ply) <= HiAt(n, Top.depth, ply)
  BY <1>1, <1>4, <1>5, DeeperIsNarrower, DepthsAreSmall
<1>10. /\ LoAt(n, Top.depth, ply) \in Int /\ LoAt(n, e.score.depth, ply) \in Int
       /\ HiAt(n, Top.depth, ply) \in Int /\ HiAt(n, e.score.depth, ply) \in Int
  <2>1. e.score.depth \in Depths
    BY <1>5, DepthsAreSmall
  <2> HIDE DEF n, e
  <2> QED  BY <1>1, <2>1, ReferenceInRange
<1> HIDE DEF n, e
<1>11. Sound(n, Top.depth, ply, Top.orig, Top.beta, v)
  BY <1>1, <1>4, <1>6, <1>8, <1>9, <1>10 DEF Sound
<1> QED  BY <1>6, <1>11 DEF n

LEMMA CutOffStep == ASSUME IInv, CutOff PROVE IInv'
<1>1. Entering /\ ~Decided(Top.node, ply) /\ UNCHANGED <<rest, completed, rootBest>>
  BY DEF CutOff, Searched
<1>2. PICK v \in Hits : Return(v)
  BY DEF CutOff
<1>3. v \in Int /\ Sound(Top.node, Top.depth, ply, Top.orig, Top.beta, v)
  BY <1>1, CutoffIsSound
<1> QED  BY <1>1, <1>2, <1>3, AnsweredAtOnce DEF IInv, Types

\* Without searchmoves the root's moves are all its moves.
LEMMA AllAllowed ==
  ASSUME Unrestricted, IInv, NEW n, NEW p
  PROVE  Allowed(n, p, limits) = Legal[n]
BY DEF Unrestricted, IInv, Types, Allowed

LEMMA NoMovesStep == ASSUME Unrestricted, IInv, NoMoves PROVE IInv'
<1>1. /\ Entering /\ Top.depth > 0 /\ ~Decided(Top.node, ply) /\ Legal[Top.node] = {}
      /\ UNCHANGED <<rest, completed, rootBest>>
  BY AllAllowed DEF NoMoves, Searched
<1> DEFINE v == NoMoveScore(Top.node, ply)
<1>2. /\ Top.node \in Node /\ ply \in Depths /\ Top.depth \in 1..MaxDepth /\ ply + Top.depth <= MaxDepth
  BY <1>1, FirstWindow, DepthsAreSmall
<1>3. LoAt(Top.node, Top.depth, ply) <= v /\ v <= HiAt(Top.node, Top.depth, ply)
  BY <1>1, <1>2, MovesBoundValue
<1>4. v \in Int
  BY <1>2, DepthsAreSmall DEF NoMoveScore, MatedIn, VALUE_MATE, VALUE_DRAW
<1>5. Sound(Top.node, Top.depth, ply, Top.orig, Top.beta, v)
  BY <1>3 DEF Sound
<1> HIDE DEF v
<1>6. Return(v)
  BY DEF NoMoves, v
<1> QED  BY <1>1, <1>4, <1>5, <1>6, AnsweredAtOnce DEF IInv, Types

LEMMA UnwindStep == ASSUME IInv, Unwind PROVE IInv'
<1>1. /\ phase = "search" /\ ply >= 0 /\ Return(0) /\ ~completed'
      /\ UNCHANGED <<rest, completed, rootBest>> /\ returned' = 0
  BY DEF Unwind, Returning, Return
<1>2. completed' \in BOOLEAN /\ UNCHANGED <<limits, depth>>
  BY <1>1 DEF IInv, Types, rest
<1>3. StackOK' /\ ReturnOK' /\ RootOK'
  BY <1>1, <1>2, Answered
<1> QED  BY <1>1, <1>2, <1>3, RestKept, GameAssumption DEF IInv, Types

\* A step that changes the innermost frame only, and not its call.
LEMMA TopChanged ==
  ASSUME IInv, ply >= 0, NEW g, frames' = [frames EXCEPT ![ply] = g],
         FrameOK(g, ply, depth), g.node = Top.node, g.orig = Top.orig, g.beta = Top.beta,
         UNCHANGED <<ply, limits, depth>>
  PROVE  StackOK'
<1>1. /\ ply \in 0..MaxDepth /\ MaxDepth \in 1..245
      /\ DOMAIN frames' = Depths /\ frames'[ply] = g
      /\ \A p \in Depths : p # ply => frames'[p] = frames[p]
  BY DepthsAreSmall DEF IInv, StackOK
<1>2. \A p \in Depths : IF p <= ply' THEN FrameOK(frames'[p], p, depth') ELSE frames'[p] = NoFrame
  BY <1>1 DEF IInv, StackOK, Depths
<1>3. \A p \in 0..(ply' - 1) : Calls(frames'[p]) /\ CallOf(frames'[p + 1], frames'[p])
  <2> SUFFICES ASSUME NEW p \in 0..(ply - 1)
               PROVE  Calls(frames'[p]) /\ CallOf(frames'[p + 1], frames'[p])
    OBVIOUS
  <2>1. Calls(frames[p]) /\ CallOf(frames[p + 1], frames[p])
    BY DEF IInv, StackOK
  <2>2. frames'[p] = frames[p]
    BY <1>1 DEF Depths
  <2>3. frames'[p + 1] = frames[p + 1] \/ (frames'[p + 1] = g /\ frames[p + 1] = Top)
    BY <1>1 DEF Depths, Top
  <2> QED  BY <2>1, <2>2, <2>3 DEF CallOf
<1>4. /\ frames'[0].node = limits'.root
      /\ frames'[0].orig = -VALUE_INFINITE /\ frames'[0].beta = VALUE_INFINITE
  <2>1. /\ frames[0].node = limits.root
        /\ frames[0].orig = -VALUE_INFINITE /\ frames[0].beta = VALUE_INFINITE
    BY DEF IInv, StackOK
  <2>2. frames'[0] = frames[0] \/ (frames'[0] = g /\ frames[0] = Top)
    BY <1>1 DEF Depths, Top
  <2> QED  BY <2>1, <2>2
<1> QED  BY <1>1, <1>2, <1>3, <1>4 DEF StackOK

LEMMA OpenStep == ASSUME Unrestricted, IInv, Open PROVE IInv'
<1> DEFINE f == Top
           g == Opened(f, ply)
<1>1. /\ Entering /\ f.depth > 0 /\ ~Decided(f.node, ply) /\ Legal[f.node] # {}
      /\ frames' = [frames EXCEPT ![ply] = g]
      /\ UNCHANGED <<rest, ply, returned, completed, rootBest>>
  BY AllAllowed DEF Open, Searched
<1>2. phase = "search" /\ ply >= 0 /\ returned = NoScore /\ ~f.opened /\ UNCHANGED <<limits, depth>>
  BY <1>1 DEF Entering, rest
<1>3. f \in Frame /\ FrameOK(f, ply, depth) /\ f.best = -VALUE_INFINITE /\ ply \in Depths
  BY <1>2, TopFrame DEF FrameOK
<1>4. /\ Legal[f.node] \subseteq Node /\ Allowed(f.node, ply, limits) = Legal[f.node]
      /\ Table!Known(Key[f.node]) => kept[Key[f.node]].move \in Node \cup {NoMove}
  <2>1. f.node \in Node /\ Key[f.node] \in Keys
    BY <1>3 DEF Frame, Keys
  <2>2. Table!Known(Key[f.node]) => kept[Key[f.node]] \in Entry
    BY <2>1 DEF IInv, Types, Table!Known
  <2> QED  BY <2>1, <2>2, GameAssumption, AllAllowed DEF Entry
<1>5. /\ g.node = f.node /\ g.orig = f.orig /\ g.beta = f.beta /\ g.alpha = f.alpha
      /\ g.best = f.best /\ g.depth = f.depth /\ g.opened = TRUE /\ g.todo = Legal[f.node]
      /\ g \in Frame
  BY <1>3, <1>4 DEF Opened, Frame
<1> HIDE DEF f, g
<1>6. FrameOK(g, ply, depth)
  <2>1. Windowed(g, ply, depth)
    BY <1>3, <1>5 DEF FrameOK, Windowed
  <2>2. ~(g.best > g.orig)
    BY <1>3, <1>5 DEF FrameOK, Windowed, VALUE_INFINITE, Frame
  <2>3. InLoop(g, ply)
    BY <1>1, <1>5, <2>2 DEF InLoop
  <2> QED  BY <1>5, <2>1, <2>3 DEF FrameOK
<1>7. StackOK'
  BY <1>1, <1>2, <1>5, <1>6, TopChanged DEF f
<1>8. ReturnOK'
  BY <1>1, <1>2 DEF ReturnOK, Returning
<1>9. RootOK'
  <2>1. CASE ply = 0
    <3>1. rootBest = NoMove
      BY <1>2, <2>1 DEF IInv, RootOK, f, Top
    <3>2. frames'[0] = g
      BY <1>1, <1>3, <2>1 DEF IInv, StackOK
    <3> QED  BY <1>1, <1>5, <2>1, <3>1, <3>2 DEF RootOK, Attains
  <2>2. CASE ply > 0
    <3>1. frames'[0] = frames[0]
      BY <1>1, <1>3, <2>2, DepthsAreSmall DEF IInv, StackOK
    <3> QED  BY <1>1, <1>2, <2>2, <3>1 DEF RootOK, Attains, IInv
  <2> QED  BY <1>2, <1>3, <2>1, <2>2, DepthsAreSmall
<1>10. ply' = -1 \/ ~completed' => returned' # NoScore
  BY <1>1, <1>2, <1>3, DepthsAreSmall DEF IInv, PhaseOK
<1> QED  BY <1>1, <1>2, <1>7, <1>8, <1>9, <1>10, RestKept DEF IInv, Types

LEMMA DescendStep == ASSUME IInv, Descend PROVE IInv'
<1>1. /\ Looping /\ Top.alpha < Top.beta /\ ply' = ply + 1
      /\ UNCHANGED <<rest, returned, completed, rootBest>>
  BY DEF Descend
<1>2. phase = "search" /\ ply >= 0 /\ returned = NoScore /\ Top.opened /\ UNCHANGED <<limits, depth>>
  BY <1>1 DEF Looping, rest
<1>3. PICK c \in Top.todo :
        frames' = [frames EXCEPT ![ply] = [Top EXCEPT !.current = c],
                                 ![ply + 1] = Called(c, Top.depth - 1, Window(Top)[1], Window(Top)[2])]
  BY DEF Descend
<1> DEFINE f == [Top EXCEPT !.current = c]
           g == Called(c, Top.depth - 1, Window(Top)[1], Window(Top)[2])
<1>4. /\ Top \in Frame /\ FrameOK(Top, ply, depth) /\ InLoop(Top, ply) /\ Windowed(Top, ply, depth)
      /\ ply \in 0..MaxDepth /\ MaxDepth \in 1..245 /\ Top.depth = depth - ply
  BY <1>2, TopFrame, DepthsAreSmall DEF FrameOK
<1>5. /\ Top.depth \in 1..MaxDepth /\ depth \in 1..MaxDepth /\ ply + 1 \in 0..MaxDepth
      /\ Top.alpha \in Int /\ Top.beta \in Int /\ Top.orig \in Int /\ Top.best \in Int
  BY <1>2, <1>4 DEF InLoop, IInv, PhaseOK, Frame
<1>6. c \in Node
  BY <1>4, GameAssumption DEF InLoop, Frame
<1>7. /\ f.node = Top.node /\ f.orig = Top.orig /\ f.beta = Top.beta /\ f.alpha = Top.alpha
      /\ f.best = Top.best /\ f.depth = Top.depth /\ f.opened = Top.opened /\ f.todo = Top.todo
      /\ f.current = c /\ f \in Frame
  BY <1>4, <1>6 DEF Frame
<1>8. /\ g.node = c /\ g.depth = Top.depth - 1 /\ g.alpha = -Top.beta /\ g.beta = -Top.alpha
      /\ g.orig = -Top.beta /\ g.best = -VALUE_INFINITE /\ ~g.opened
  BY DEF Called, Window
<1>9. g \in Frame
  <2>1. /\ Window(Top)[1] \in Int /\ Window(Top)[2] \in Int /\ -VALUE_INFINITE \in Int
        /\ Top.depth - 1 \in 0..MaxDepth
    BY <1>4, <1>5 DEF Window, VALUE_INFINITE
  <2> QED  BY <1>6, <2>1 DEF Called, Frame
<1>9a. frames' = [frames EXCEPT ![ply] = f, ![ply + 1] = g]
  BY <1>3
<1> HIDE DEF f, g
<1>10. /\ DOMAIN frames' = Depths /\ frames'[ply] = f /\ frames'[ply + 1] = g
       /\ \A p \in Depths : p # ply /\ p # ply + 1 => frames'[p] = frames[p]
  <2>1. DOMAIN frames = Depths /\ ply \in Depths /\ ply + 1 \in Depths /\ ply # ply + 1
    BY <1>4, <1>5 DEF IInv, StackOK, Depths
  <2> QED  BY <1>9a, <2>1
<1>11. FrameOK(f, ply, depth)
  <2>1. Windowed(f, ply, depth)
    BY <1>4, <1>7 DEF Windowed
  <2>2. InLoop(f, ply)
    BY <1>4, <1>7 DEF InLoop, Covered
  <2> QED  BY <1>2, <1>7, <2>1, <2>2 DEF FrameOK
<1>12. FrameOK(g, ply + 1, depth)
  <2>1. Windowed(g, ply + 1, depth)
    BY <1>1, <1>4, <1>5, <1>8 DEF Windowed, Larger, VALUE_INFINITE
  <2> QED  BY <1>8, <1>9, <2>1 DEF FrameOK
<1>13. StackOK'
  <2>1. \A p \in Depths : IF p <= ply' THEN FrameOK(frames'[p], p, depth') ELSE frames'[p] = NoFrame
    BY <1>1, <1>2, <1>4, <1>10, <1>11, <1>12 DEF IInv, StackOK, Depths
  <2>2. \A p \in 0..(ply' - 1) : Calls(frames'[p]) /\ CallOf(frames'[p + 1], frames'[p])
    <3> SUFFICES ASSUME NEW p \in 0..ply
                 PROVE  Calls(frames'[p]) /\ CallOf(frames'[p + 1], frames'[p])
      BY <1>1, <1>4
    <3>1. CASE p = ply
      BY <1>1, <1>2, <1>7, <1>8, <1>10, <3>1 DEF Calls, CallOf
    <3>2. CASE p < ply
      <4>1. Calls(frames[p]) /\ CallOf(frames[p + 1], frames[p])
        BY <1>4, <3>2 DEF IInv, StackOK
      <4>2. frames'[p] = frames[p]
        BY <1>4, <1>10, <3>2 DEF Depths
      <4>3. frames'[p + 1] = frames[p + 1] \/ (frames'[p + 1] = f /\ frames[p + 1] = Top)
        BY <1>4, <1>10, <3>2 DEF Depths, Top
      <4> QED  BY <1>7, <4>1, <4>2, <4>3 DEF CallOf
    <3> QED  BY <1>4, <3>1, <3>2
  <2>3. /\ frames'[0].node = limits'.root
        /\ frames'[0].orig = -VALUE_INFINITE /\ frames'[0].beta = VALUE_INFINITE
    <3>1. /\ frames[0].node = limits.root
          /\ frames[0].orig = -VALUE_INFINITE /\ frames[0].beta = VALUE_INFINITE
      BY <1>2 DEF IInv, StackOK
    <3>2. frames'[0] = frames[0] \/ (frames'[0] = f /\ frames[0] = Top)
      <4>1. CASE ply = 0
        BY <1>10, <4>1 DEF Top
      <4>2. CASE ply > 0
        BY <1>4, <1>10, <4>2 DEF Depths
      <4> QED  BY <1>4, <4>1, <4>2
    <3> QED  BY <1>2, <1>7, <3>1, <3>2
  <2>4. ply' \in -1..MaxDepth
    BY <1>1, <1>5
  <2> QED  BY <1>10, <2>1, <2>2, <2>3, <2>4 DEF StackOK
<1>14. ReturnOK'
  BY <1>1, <1>2 DEF ReturnOK, Returning
<1>15. RootOK'
  <2>1. frames'[0] = frames[0] \/ (frames'[0] = f /\ frames[0] = Top)
    <3>1. CASE ply = 0
      BY <1>10, <3>1 DEF Top
    <3>2. CASE ply > 0
      BY <1>4, <1>10, <3>2 DEF Depths
    <3> QED  BY <1>4, <3>1, <3>2
  <2>2. frames'[0].opened = frames[0].opened /\ frames'[0].best = frames[0].best
    BY <1>7, <2>1
  <2>3. ply' # -1
    BY <1>1, <1>4
  <2> QED  BY <1>1, <1>2, <2>2, <2>3 DEF RootOK, Attains, IInv
<1>16. ply' = -1 \/ ~completed' => returned' # NoScore
  BY <1>1, <1>2, <1>4 DEF IInv, PhaseOK
<1> QED  BY <1>1, <1>2, <1>13, <1>14, <1>15, <1>16, RestKept DEF IInv, Types

\* What the innermost loop knows of its frame.
LEMMA LoopFrame ==
  ASSUME IInv, phase = "search", ply >= 0, Top.opened
  PROVE  /\ Top \in Frame /\ Windowed(Top, ply, depth) /\ InLoop(Top, ply)
         /\ ply \in 0..MaxDepth /\ ply + 1 \in 0..MaxDepth /\ MaxDepth \in 1..245
         /\ Top.depth \in 1..MaxDepth /\ Top.depth = depth - ply /\ Top.depth - 1 \in 0..MaxDepth
         /\ depth \in 1..MaxDepth /\ ply + Top.depth <= MaxDepth
         /\ Top.node \in Node /\ Top.best \in Int /\ Top.alpha \in Int /\ Top.beta \in Int /\ Top.orig \in Int
         /\ Legal[Top.node] \subseteq Node
<1>1. /\ ply \in Depths /\ FrameOK(Top, ply, depth) /\ Top \in Frame /\ Top.depth = depth - ply
      /\ depth \in 1..MaxDepth
  BY TopFrame DEF IInv, PhaseOK
<1>2. Windowed(Top, ply, depth) /\ InLoop(Top, ply) /\ Top.depth > 0
  BY <1>1 DEF FrameOK, InLoop
<1>3. /\ Top.node \in Node /\ Top.best \in Int /\ Top.alpha \in Int /\ Top.beta \in Int /\ Top.orig \in Int
      /\ Legal[Top.node] \subseteq Node
  BY <1>1, GameAssumption DEF Frame
<1> QED  BY <1>1, <1>2, <1>3, DepthsAreSmall

\* The score of the current move keeps what the loop knows.
LEMMA AbsorbedInLoop ==
  ASSUME IInv, Returning, completed
  PROVE  FrameOK(Absorbed(Top, -returned), ply, depth)
<1> DEFINE f == Top
           s == -returned
           g == Absorbed(f, s)
           c == f.current
<1>1. phase = "search" /\ ply >= 0 /\ returned \in Int /\ s \in Int /\ returned = -s
  BY DEF Returning, IInv, Types
<1>2. /\ Calls(f) /\ Sound(c, f.depth - 1, ply + 1, -f.beta, -f.alpha, returned)
  BY DEF IInv, ReturnOK
<1>3. /\ f \in Frame /\ Windowed(f, ply, depth) /\ InLoop(f, ply)
      /\ ply \in Depths /\ ply + 1 \in Depths /\ f.depth \in 1..MaxDepth /\ f.depth - 1 \in Depths
      /\ ply + f.depth <= MaxDepth
      /\ f.node \in Node /\ f.best \in Int /\ f.alpha \in Int /\ f.beta \in Int /\ f.orig \in Int
      /\ Legal[f.node] \subseteq Node
  BY <1>1, <1>2, LoopFrame DEF Calls, Depths
<1>4. c \in Legal[f.node] /\ c \in Node /\ f.opened
  BY <1>2, <1>3 DEF Calls, InLoop
<1>5. /\ g.best = Larger(f.best, s) /\ g.alpha = Larger(f.alpha, s)
      /\ g.todo = f.todo \ {c} /\ g.node = f.node /\ g.depth = f.depth
      /\ g.orig = f.orig /\ g.beta = f.beta /\ g.opened = f.opened
  BY <1>3 DEF Absorbed, Frame
<1>6. g \in Frame
  BY <1>1, <1>3, <1>4, ZenonT(30) DEF Absorbed, Frame, Larger
<1>7. /\ LoAt(c, f.depth - 1, ply + 1) \in Int /\ HiAt(c, f.depth - 1, ply + 1) \in Int
      /\ \A x \in Legal[f.node] : HiAt(x, f.depth - 1, ply + 1) \in Int
      /\ HiAt(f.node, f.depth, ply) \in Int
  <2>1. f.depth \in Depths
    BY <1>3, DepthsAreSmall
  <2> HIDE DEF f, c
  <2>2. \A x \in Node : /\ LoAt(x, f.depth - 1, ply + 1) \in Int
                        /\ HiAt(x, f.depth - 1, ply + 1) \in Int
    BY <1>3, ReferenceInRange
  <2> QED  BY <1>3, <1>4, <2>1, <2>2, ReferenceInRange
<1>8. /\ s < f.beta => -HiAt(c, f.depth - 1, ply + 1) <= s
      /\ s > f.alpha => s <= -LoAt(c, f.depth - 1, ply + 1)
  <2> HIDE DEF f, s, c
  <2> QED  BY <1>1, <1>2, <1>3, <1>7 DEF Sound
<1>9. -LoAt(c, f.depth - 1, ply + 1) <= HiAt(f.node, f.depth, ply)
  BY <1>3, <1>4, MovesBoundValue DEF InLoop
<1> HIDE DEF f, s, g, c
<1>10. Windowed(g, ply, depth)
  BY <1>1, <1>3, <1>5 DEF Windowed, Larger, VALUE_INFINITE
<1>11. f.best <= g.best /\ s <= g.best /\ g.best \in {f.best, s} /\ g.best \in Int
  BY <1>1, <1>3, <1>5 DEF Larger
<1>12. InLoop(g, ply)
  <2>1. \A x \in Legal[g.node] \ g.todo : Covered(g, ply, x)
    <3> SUFFICES ASSUME NEW x \in Legal[f.node], x \notin f.todo \/ x = c, g.best < f.beta
                 PROVE  -HiAt(x, f.depth - 1, ply + 1) <= g.best
      BY <1>5 DEF Covered
    <3>1. CASE x = c
      BY <1>1, <1>3, <1>7, <1>8, <1>11, <3>1
    <3>2. CASE x \notin f.todo
      <4>1. Covered(f, ply, x)
        BY <1>3, <3>2 DEF InLoop
      <4> QED  BY <1>3, <1>7, <1>11, <4>1 DEF Covered
    <3> QED  BY <3>1, <3>2
  <2>2. g.best > g.orig => g.best <= HiAt(g.node, g.depth, ply)
    <3>1. CASE g.best = f.best
      BY <1>3, <1>5, <3>1 DEF InLoop
    <3>2. CASE g.best # f.best
      <4>1. g.best = s /\ f.best < s
        BY <1>1, <1>3, <1>11, <3>2
      <4>2. s > f.orig => s > f.alpha
        BY <1>1, <1>3, <4>1 DEF Windowed, Larger
      <4> QED  BY <1>1, <1>3, <1>5, <1>7, <1>8, <1>9, <4>1, <4>2
    <3> QED  BY <3>1, <3>2
  <2> QED  BY <1>3, <1>5, <2>1, <2>2 DEF InLoop
<1>13. FrameOK(g, ply, depth)
  BY <1>4, <1>5, <1>6, <1>10, <1>12 DEF FrameOK
<1> QED  BY <1>13 DEF g, s, f

LEMMA AbsorbStep == ASSUME IInv, Absorb PROVE IInv'
<1> DEFINE f == Top
           s == -returned
           g == Absorbed(f, s)
<1>1. /\ Returning /\ completed /\ frames' = [frames EXCEPT ![ply] = g]
      /\ rootBest' = IF Raises(f, s) /\ ply = 0 THEN f.current ELSE rootBest
      /\ returned' = NoScore /\ UNCHANGED <<rest, ply, completed>>
  BY DEF Absorb
<1>2. /\ phase = "search" /\ ply >= 0 /\ UNCHANGED <<limits, depth>>
      /\ returned \in Int /\ s \in Int /\ returned = -s
  BY <1>1 DEF Returning, rest, IInv, Types
<1>3. FrameOK(g, ply, depth)
  BY <1>1, AbsorbedInLoop
<1>4. Calls(f) /\ Sound(f.current, f.depth - 1, ply + 1, -f.beta, -f.alpha, returned)
  BY <1>1 DEF IInv, ReturnOK
<1>5. /\ f \in Frame /\ Windowed(f, ply, depth) /\ InLoop(f, ply) /\ ply \in Depths /\ ply + 1 \in Depths
      /\ f.depth = depth - ply /\ f.depth - 1 \in Depths /\ depth \in 1..MaxDepth /\ f.opened
      /\ f.current \in Legal[f.node] /\ f.current \in Node
      /\ f.best \in Int /\ f.alpha \in Int /\ f.beta \in Int /\ f.orig \in Int
  BY <1>2, <1>4, LoopFrame DEF Calls, InLoop, Depths
<1>6. /\ g.best = Larger(f.best, s) /\ g.node = f.node /\ g.orig = f.orig /\ g.beta = f.beta
      /\ g.opened
  BY <1>5 DEF Absorbed, Frame
<1>7. rootBest' \in Node \cup {NoMove}
  BY <1>1, <1>5 DEF IInv, Types
<1> HIDE DEF f, g, s
<1>8. StackOK'
  BY <1>1, <1>2, <1>3, <1>6, TopChanged DEF f
<1>9. ReturnOK'
  BY <1>1 DEF ReturnOK, Returning
<1>10. RootOK'
  <2>1. CASE ply = 0
    <3>1. frames'[0] = g /\ f = frames[0]
      BY <1>1, <1>5, <2>1 DEF IInv, StackOK, f, Top
    <3>2. f.node = limits.root /\ f.orig = -VALUE_INFINITE /\ f.beta = VALUE_INFINITE /\ f.depth = depth
      BY <1>5, <2>1, <3>1 DEF IInv, StackOK
    <3>3. Attains(rootBest', g.best, depth)
      <4>1. CASE s > f.best
        <5>1. g.best = s /\ rootBest' = f.current
          BY <1>1, <1>2, <1>5, <1>6, <2>1, <4>1 DEF Raises, Larger
        <5>2. f.alpha = f.best
          BY <1>5, <3>2 DEF Windowed, Larger, VALUE_INFINITE
        <5>3. /\ LoAt(f.current, depth - 1, 1) \in Int /\ HiAt(f.current, depth - 1, 1) \in Int
              /\ -VALUE_INFINITE < LoAt(f.current, depth - 1, 1)
          BY <1>5, <2>1, <3>2, ReferenceInRange
        <5>4. returned < -f.alpha => returned >= LoAt(f.current, depth - 1, 1)
          BY <1>4, <2>1, <3>2 DEF Sound
        <5>5. returned > -f.beta => returned <= HiAt(f.current, depth - 1, 1)
          BY <1>4, <2>1, <3>2 DEF Sound
        <5>6. returned >= LoAt(f.current, depth - 1, 1) /\ returned <= HiAt(f.current, depth - 1, 1)
          BY <1>2, <1>5, <3>2, <4>1, <5>2, <5>3, <5>4, <5>5 DEF VALUE_INFINITE
        <5>7. -HiAt(f.current, depth - 1, 1) <= s /\ s <= -LoAt(f.current, depth - 1, 1)
          BY <1>2, <5>3, <5>6
        <5> QED  BY <1>5, <3>2, <5>1, <5>7 DEF Attains
      <4>2. CASE ~(s > f.best)
        <5>1. g.best = f.best /\ rootBest' = rootBest
          BY <1>1, <1>2, <1>5, <1>6, <4>2 DEF Raises, Larger
        <5>2. Attains(rootBest, f.best, depth)
          BY <1>2, <1>5, <3>1 DEF IInv, RootOK
        <5> QED  BY <5>1, <5>2
      <4> QED  BY <4>1, <4>2
    <3> QED  BY <1>1, <1>2, <1>6, <2>1, <3>1, <3>3 DEF RootOK, Attains
  <2>2. CASE ply > 0
    <3>1. frames'[0] = frames[0]
      BY <1>1, <1>5, <2>2, DepthsAreSmall DEF IInv, StackOK
    <3>2. rootBest' = rootBest /\ ply' # -1
      BY <1>1, <2>2, <1>2
    <3> QED  BY <1>1, <1>2, <2>2, <3>1, <3>2 DEF RootOK, Attains, IInv
  <2> QED  BY <1>2, <1>5, <2>1, <2>2, DepthsAreSmall
<1>11. ply' # -1 /\ completed'
  BY <1>1, <1>2
<1> QED  BY <1>1, <1>2, <1>7, <1>8, <1>9, <1>10, <1>11, RestKept DEF IInv, Types

\* The score of a finished loop is what negamax promises.
LEMMA LoopIsSound ==
  ASSUME IInv, phase = "search", ply >= 0, Top.opened, Top.todo = {} \/ Top.alpha >= Top.beta
  PROVE  /\ Sound(Top.node, Top.depth, ply, Top.orig, Top.beta, Top.best)
         /\ -VALUE_INFINITE <= Top.best /\ Top.best <= VALUE_INFINITE
<1> DEFINE f == Top
<1>1. /\ Windowed(f, ply, depth) /\ InLoop(f, ply) /\ ply \in Depths /\ ply + 1 \in Depths
      /\ f.depth \in 1..MaxDepth /\ f.depth \in Depths /\ f.depth - 1 \in Depths
      /\ ply + f.depth <= MaxDepth /\ f.node \in Node /\ Legal[f.node] \subseteq Node
      /\ f.best \in Int /\ f.alpha \in Int /\ f.beta \in Int /\ f.orig \in Int
  BY LoopFrame DEF Depths
<1>2. Top.todo = {} \/ f.alpha >= f.beta
  OBVIOUS
<1> HIDE DEF f
<1>3. /\ LoAt(f.node, f.depth, ply) \in Int /\ HiAt(f.node, f.depth, ply) \in Int
      /\ HiAt(f.node, f.depth, ply) < VALUE_INFINITE
  BY <1>1, ReferenceInRange
<1>4. f.best > f.orig => f.best <= HiAt(f.node, f.depth, ply)
  BY <1>1 DEF InLoop
<1>5. ASSUME f.best < f.beta PROVE f.best >= LoAt(f.node, f.depth, ply)
  <2>1. f.todo = {}
    BY <1>1, <1>2, <1>5 DEF Windowed, Larger, f
  <2>2. PICK c \in Legal[f.node] : LoAt(f.node, f.depth, ply) <= -HiAt(c, f.depth - 1, ply + 1)
    BY <1>1, MovesBoundValue DEF InLoop
  <2>3. Covered(f, ply, c)
    BY <1>1, <2>1, <2>2 DEF InLoop
  <2>4. HiAt(c, f.depth - 1, ply + 1) \in Int
    BY <1>1, <2>2, ReferenceInRange
  <2>5. -HiAt(c, f.depth - 1, ply + 1) <= f.best
    BY <1>5, <2>3 DEF Covered
  <2> QED  BY <1>1, <1>3, <2>2, <2>4, <2>5
<1>6. -VALUE_INFINITE <= f.best /\ f.best <= VALUE_INFINITE
  BY <1>1, <1>3, <1>4 DEF Windowed, VALUE_INFINITE
<1> QED  BY <1>4, <1>5, <1>6 DEF Sound, f

\* The score a finished loop saves is true of its key at every ply.
LEMMA SavedIsTrue ==
  ASSUME IInv, phase = "search", ply >= 0, Top.opened, Top.todo = {} \/ Top.alpha >= Top.beta,
         NEW n \in Node, Key[n] = Key[Top.node], NEW q \in Depths, ~Decided(n, q)
  PROVE  EntrySound(n, [value |-> ValueToTT(Top.best, ply), bound |-> BoundOf(Top.best, Top.orig, Top.beta),
                        depth |-> Top.depth], q)
<1> DEFINE f == Top
           k == Key[f.node]
           v == f.best
           r == ValueFromTT(ValueToTT(v, ply), q)
           b == BoundOf(v, f.orig, f.beta)
<1>1. /\ Windowed(f, ply, depth) /\ InLoop(f, ply) /\ ply \in Depths /\ f.node \in Node
      /\ f.depth \in Depths /\ v \in Int /\ f.beta \in Int /\ f.orig \in Int
  BY LoopFrame DEF Depths
<1>2. Sound(f.node, f.depth, ply, f.orig, f.beta, v) /\ -VALUE_INFINITE <= v /\ v <= VALUE_INFINITE
  BY LoopIsSound
<1>3. /\ Lo[k][f.depth] \in Int /\ ClearOfBand(Lo[k][f.depth], Depths)
      /\ Hi[k][f.depth] \in Int /\ ClearOfBand(Hi[k][f.depth], Depths)
  BY <1>1, TablesBound DEF Keys
<1>4. /\ LoAt(f.node, f.depth, ply) = AtPly(Lo[k][f.depth], ply)
      /\ HiAt(f.node, f.depth, ply) = AtPly(Hi[k][f.depth], ply)
  BY <1>1 DEF LoAt, HiAt, InLoop
<1>5. /\ LoAt(n, f.depth, q) = AtPly(Lo[k][f.depth], q)
      /\ HiAt(n, f.depth, q) = AtPly(Hi[k][f.depth], q)
  BY DEF LoAt, HiAt
<1> HIDE DEF f, v, k
<1>6. /\ v <= AtPly(Hi[k][f.depth], ply) => r <= AtPly(Hi[k][f.depth], q)
      /\ AtPly(Lo[k][f.depth], ply) <= v => AtPly(Lo[k][f.depth], q) <= r
      /\ r \in Int
  BY <1>1, <1>2, <1>3, Rebase
<1>7. b # "Upper" => v > f.orig
  BY <1>1 DEF BoundOf, Windowed
<1>8. b # "Lower" => v < f.beta
  BY <1>1 DEF BoundOf
<1>9. b # "Upper" => r <= HiAt(n, f.depth, q)
  BY <1>2, <1>4, <1>5, <1>6, <1>7 DEF Sound
<1>10. b # "Lower" => LoAt(n, f.depth, q) <= r
  BY <1>2, <1>4, <1>5, <1>6, <1>8 DEF Sound
<1>11. LoAt(n, f.depth, q) \in Int
  BY <1>1, ReferenceInRange
<1> HIDE DEF r, b
<1>12. b # "Lower" => r >= LoAt(n, f.depth, q)
  BY <1>6, <1>10, <1>11
<1> QED  BY <1>9, <1>12 DEF EntrySound, f, v, r, b

\* What a save may do to a key, for any request.
LEMMA SaveOutcome ==
  ASSUME NEW r, kept \in [Keys -> Entry \cup {Miss}], r.key \in Keys, Table!Save(r),
         [value |-> ValueToTT(r.value, r.ply), bound |-> r.bound, depth |-> r.depth]
            \in [value : Int, bound : {"Exact", "Lower", "Upper"}, depth : 1..MaxDepth],
         r.move \in Node \cup {NoMove}, r.eval \in Int
  PROVE  /\ kept' \in [Keys -> Entry \cup {Miss}]
         /\ \A k \in Keys : kept'[k] # Miss =>
              \/ kept[k] # Miss /\ kept'[k].score = kept[k].score
              \/ k = r.key /\ kept'[k].score = [value |-> ValueToTT(r.value, r.ply), bound |-> r.bound,
                                                depth |-> r.depth]
<1> DEFINE score == [value |-> ValueToTT(r.value, r.ply), bound |-> r.bound, depth |-> r.depth]
<1>1. Table!Known(r.key) => kept[r.key] \in Entry
  BY DEF Table!Known
<1>2. Table!Move(r) \in Node \cup {NoMove}
  BY <1>1 DEF Table!Move, Entry
<1>3. Table!Replaced(r) \in Entry /\ Table!Replaced(r).score = score
  BY <1>2 DEF Table!Replaced, Entry
<1>4. Table!Known(r.key) => Table!Refreshed(r) \in Entry /\ Table!Refreshed(r).score = kept[r.key].score
  BY <1>1, <1>2 DEF Table!Refreshed, Entry
<1>5. CASE Table!Accept(r)
  BY <1>3, <1>5 DEF Table!Accept
<1>6. CASE Table!Decline(r)
  BY <1>4, <1>6 DEF Table!Decline, Table!Known
<1>7. CASE \E victim \in Keys : Table!Evict(r, victim)
  BY <1>3, <1>7 DEF Table!Evict
<1> QED  BY <1>5, <1>6, <1>7 DEF Table!Save

LEMMA SaveStep == ASSUME IInv, Save PROVE IInv'
<1> DEFINE f == Top
           r == SaveOf(f, ply)
           score == [value |-> ValueToTT(f.best, ply), bound |-> BoundOf(f.best, f.orig, f.beta),
                     depth |-> f.depth]
<1>1. /\ phase = "search" /\ ply >= 0 /\ returned = NoScore /\ f.opened
      /\ f.todo = {} \/ f.alpha >= f.beta
      /\ Table!Save(r) /\ Return(f.best)
      /\ UNCHANGED <<phase, limits, depth, stopped, result, completed, rootBest>>
  BY DEF Save, Looping
<1>2. /\ f \in Frame /\ ply \in 0..MaxDepth /\ MaxDepth \in 1..245 /\ f.depth \in 1..MaxDepth
      /\ f.node \in Node /\ f.best \in Int /\ f.orig \in Int /\ f.beta \in Int
  BY <1>1, LoopFrame
<1>3. completed /\ completed' \in BOOLEAN
  BY <1>1 DEF IInv, PhaseOK, Types
<1>4. Sound(f.node, f.depth, ply, f.orig, f.beta, f.best)
  BY <1>1, LoopIsSound
<1>5. ply = 0 => Attains(rootBest, f.best, depth)
  BY <1>1 DEF IInv, RootOK, Top
<1>6. \A n \in Node, q \in Depths : Key[n] = Key[f.node] /\ ~Decided(n, q) => EntrySound(n, score, q)
  BY <1>1, SavedIsTrue
<1>7. /\ r.key = Key[f.node] /\ r.key \in Keys /\ r.move \in Node \cup {NoMove} /\ r.eval \in Int
      /\ r.value = f.best /\ r.ply = ply /\ r.bound = BoundOf(f.best, f.orig, f.beta) /\ r.depth = f.depth
  BY <1>2, GameAssumption DEF SaveOf, Frame, Keys
<1>8. score \in [value : Int, bound : {"Exact", "Lower", "Upper"}, depth : 1..MaxDepth]
  BY <1>2 DEF BoundOf, ValueToTT, VALUE_NONE
<1>9. kept \in [Keys -> Entry \cup {Miss}]
  BY DEF IInv, Types
<1>10. score = [value |-> ValueToTT(r.value, r.ply), bound |-> r.bound, depth |-> r.depth]
  BY <1>7, Zenon
<1> HIDE DEF f, r, score
<1>11. /\ kept' \in [Keys -> Entry \cup {Miss}]
       /\ \A k \in Keys : kept'[k] # Miss =>
            \/ kept[k] # Miss /\ kept'[k].score = kept[k].score
            \/ k = r.key /\ kept'[k].score = score
  BY <1>1, <1>7, <1>8, <1>9, <1>10, SaveOutcome
<1>12. TableSound'
  <2> SUFFICES ASSUME NEW n \in Node, kept'[Key[n]] # Miss, NEW q \in Depths, ~Decided(n, q)
               PROVE  EntrySound(n, kept'[Key[n]].score, q)
    BY DepthsAreSmall, Zenon DEF TableSound, Table!Known
  <2>1. Key[n] \in Keys
    BY DEF Keys
  <2>2. CASE kept[Key[n]] # Miss /\ kept'[Key[n]].score = kept[Key[n]].score
    BY <2>2, DepthsAreSmall, Zenon DEF IInv, TableSound, Table!Known
  <2>3. CASE Key[n] = r.key /\ kept'[Key[n]].score = score
    BY <1>6, <1>7, <2>3, Zenon
  <2> QED  BY <1>11, <2>1, <2>2, <2>3, Zenon
<1>13. StackOK' /\ ReturnOK' /\ RootOK'
  BY <1>1, <1>2, <1>3, <1>4, <1>5, Answered DEF f
<1>14. returned' = f.best /\ returned' # NoScore
  BY <1>1, <1>2, GameAssumption DEF Return
<1>15. Types' /\ PhaseOK'
  BY <1>1, <1>2, <1>11, <1>14 DEF IInv, Types, PhaseOK
<1>16. ResultOK'
  BY <1>1, Zenon DEF IInv, ResultOK, ScoreSound, ScoredAttains
<1> QED  BY <1>12, <1>13, <1>15, <1>16 DEF IInv

-----------------------------------------------------------------------------
\* Steps outside the search.

\* Without a call in progress the stack is empty, and stays so.
LEMMA EmptyStack ==
  ASSUME IInv, ply = -1, UNCHANGED <<frames, ply>>
  PROVE  StackOK' /\ ReturnOK' /\ (ply' >= 0 => FALSE)
<1>1. DOMAIN frames' = Depths /\ \A p \in Depths : frames'[p] = NoFrame
  BY DepthsAreSmall DEF IInv, StackOK
<1> QED  BY <1>1, DepthsAreSmall DEF StackOK, ReturnOK, Returning

LEMMA TableKept == ASSUME IInv, UNCHANGED kept PROVE TableSound'
BY Zenon DEF IInv, TableSound, Table!Known

LEMMA ResultKept == ASSUME IInv, UNCHANGED <<result, limits>> PROVE ResultOK'
BY Zenon DEF IInv, ResultOK, ScoreSound, ScoredAttains

LEMMA InitInv == Init => IInv
<1> SUFFICES ASSUME Init PROVE IInv
  OBVIOUS
<1>1. Types
  <2>1. result = [move |-> NoMove, score |-> 0, depth |-> 0, scored |-> FALSE]
    BY Zenon DEF Init
  <2>2. 0 \in 0..MaxDepth /\ 0 \in 0..(MaxDepth + 1)
    BY DepthsAreSmall
  <2>3. result \in Report
    BY <2>1, <2>2 DEF Report
  <2>4. /\ phase = "idle" /\ depth = 0 /\ ~stopped /\ limits \in Limit
        /\ returned = NoScore /\ completed /\ rootBest = NoMove
    BY Zenon DEF Init
  <2>5. completed \in BOOLEAN /\ stopped \in BOOLEAN
    BY Zenon DEF Init
  <2>6. kept \in [Keys -> Entry \cup {Miss}]
    BY Zenon DEF Init
  <2> QED  BY <2>2, <2>3, <2>4, <2>5, <2>6 DEF Types
<1>2. StackOK
  BY DepthsAreSmall DEF Init, StackOK
<1>3. ReturnOK /\ RootOK /\ PhaseOK
  BY DEF Init, ReturnOK, Returning, RootOK, PhaseOK
<1>4. TableSound
  <2>1. \A n \in Node : Key[n] \in Keys
    BY DEF Keys
  <2> QED  BY <2>1 DEF Init, TableSound, Table!Known
<1>5. ResultOK
  BY DEF Init, ResultOK, ScoreSound, ScoredAttains
<1> QED  BY <1>1, <1>2, <1>3, <1>4, <1>5 DEF IInv

LEMMA GoStep == ASSUME IInv, NEW l \in Limit, Go(l) \/ GoNowhere(l) PROVE IInv'
<1>1. /\ phase = "idle" /\ limits' = l /\ stopped' = FALSE /\ completed' = TRUE /\ rootBest' = NoMove
      /\ UNCHANGED <<kept, frames, ply, returned>>
      /\ phase' \in {"idle", "iterate"} /\ (phase' = "iterate" => depth' = 1)
      /\ depth' \in {depth, 1}
  BY DEF Go, GoNowhere
<1>2. ply = -1 /\ returned = NoScore
  BY <1>1 DEF IInv, PhaseOK
<1>3. l.root \in Node /\ Allowed(l.root, 0, l) \subseteq Node
  BY LimitAssumption, GameAssumption DEF Allowed
<1>4. /\ result' \in Report /\ result'.depth = 0 /\ ~result'.scored
  <2>1. NoMoveScore(l.root, 0) \in Int
    BY DEF NoMoveScore, MatedIn, VALUE_MATE, VALUE_DRAW
  <2>2. CASE Go(l)
    BY <1>3, <2>2, DepthsAreSmall DEF Go, FirstMove, Report
  <2>3. CASE GoNowhere(l)
    BY <2>1, <2>3, DepthsAreSmall DEF GoNowhere, Report
  <2> QED  BY <2>2, <2>3
<1>5. depth' \in 0..(MaxDepth + 1)
  BY <1>1, DepthsAreSmall DEF IInv, Types
<1>6. Types'
  BY <1>1, <1>4, <1>5 DEF IInv, Types
<1>7. StackOK' /\ ReturnOK' /\ ~(ply' >= 0)
  BY <1>1, <1>2, EmptyStack
<1>8. RootOK' /\ PhaseOK'
  BY <1>1, <1>2, <1>7 DEF RootOK, PhaseOK
<1>9. ResultOK'
  BY <1>4 DEF ResultOK, ScoreSound, ScoredAttains
<1> QED  BY <1>1, <1>6, <1>7, <1>8, <1>9, TableKept DEF IInv

LEMMA DeepenStep == ASSUME IInv, Deepen PROVE IInv'
<1> DEFINE g == Called(limits.root, depth, -VALUE_INFINITE, VALUE_INFINITE)
<1>1. /\ phase = "iterate" /\ depth <= limits.depth /\ frames' = [frames EXCEPT ![0] = g]
      /\ ply' = 0 /\ completed' = TRUE /\ rootBest' = NoMove /\ phase' = "search"
      /\ UNCHANGED <<kept, limits, depth, returned, stopped, result>>
  BY DEF Deepen
<1>2. /\ ply = -1 /\ returned = NoScore /\ depth \in 1..MaxDepth /\ MaxDepth \in 1..245
      /\ limits.root \in Node
  BY <1>1, DepthsAreSmall, LimitAssumption DEF IInv, PhaseOK, Types
<1>3. /\ g.node = limits.root /\ g.orig = -VALUE_INFINITE /\ g.beta = VALUE_INFINITE
      /\ g.alpha = -VALUE_INFINITE /\ g.best = -VALUE_INFINITE /\ g.depth = depth /\ g.opened = FALSE
  BY DEF Called
<1>4. g \in Frame
  <2>1. -VALUE_INFINITE \in Int /\ VALUE_INFINITE \in Int /\ depth \in 0..MaxDepth
    BY <1>2 DEF VALUE_INFINITE
  <2> QED  BY <1>2, <2>1 DEF Called, Frame
<1> HIDE DEF g
<1>5. FrameOK(g, 0, depth)
  <2>1. Windowed(g, 0, depth)
    BY <1>2, <1>3 DEF Windowed, Larger, VALUE_INFINITE
  <2> QED  BY <1>3, <1>4, <2>1 DEF FrameOK
<1>6. /\ DOMAIN frames' = Depths /\ frames'[0] = g
      /\ \A q \in Depths : q # 0 => frames'[q] = NoFrame
  BY <1>1, <1>2, DepthsAreSmall DEF IInv, StackOK
<1>7. StackOK'
  BY <1>1, <1>2, <1>3, <1>5, <1>6, DepthsAreSmall DEF StackOK
<1>8. ReturnOK' /\ RootOK' /\ PhaseOK'
  BY <1>1, <1>2, <1>3, <1>6 DEF ReturnOK, Returning, RootOK, PhaseOK
<1>9. Types'
  BY <1>1 DEF IInv, Types
<1> QED  BY <1>1, <1>7, <1>8, <1>9, TableKept, ResultKept DEF IInv

LEMMA FinishStep == ASSUME IInv, Finish \/ GiveUp \/ Stop \/ UNCHANGED vars PROVE IInv'
<1>1. UNCHANGED <<kept, limits, frames, ply, completed, rootBest, result>>
  BY DEF Finish, GiveUp, Stop, vars, search
<1>2. Types'
  <2>1. phase' \in {"idle", phase} /\ depth' \in {0, depth} /\ returned' \in {NoScore, returned}
    BY DEF Finish, GiveUp, Stop, vars, search
  <2>2. completed' \in BOOLEAN /\ stopped' \in BOOLEAN
    BY Zenon DEF Finish, GiveUp, Stop, vars, search, IInv, Types
  <2>3. depth' \in 0..(MaxDepth + 1)
    BY <2>1, DepthsAreSmall DEF IInv, Types
  <2> QED  BY <1>1, <2>1, <2>2, <2>3 DEF IInv, Types
<1>3. CASE Finish \/ GiveUp
  <2>1. ply = -1 /\ phase' = "idle" /\ returned' = NoScore
    BY <1>3 DEF Finish, GiveUp, search, IInv, PhaseOK
  <2>2. StackOK' /\ ReturnOK' /\ ~(ply' >= 0)
    BY <1>1, <2>1, EmptyStack
  <2>3. RootOK' /\ PhaseOK'
    BY <1>1, <2>1, <2>2 DEF RootOK, PhaseOK
  <2> QED  BY <1>1, <1>2, <2>2, <2>3, TableKept, ResultKept DEF IInv
<1>4. CASE Stop \/ UNCHANGED vars
  <2>1. UNCHANGED <<phase, depth, returned>>
    BY <1>4 DEF Stop, vars, search
  <2>2. StackOK' /\ ReturnOK' /\ RootOK' /\ PhaseOK'
    BY <1>1, <2>1 DEF IInv, StackOK, ReturnOK, Returning, Top, RootOK, Attains, PhaseOK
  <2> QED  BY <1>1, <1>2, <2>2, TableKept, ResultKept DEF IInv
<1> QED  BY <1>3, <1>4

LEMMA CompleteStep == ASSUME IInv, Complete PROVE IInv'
<1>1. /\ phase = "search" /\ ply = -1 /\ completed /\ phase' = "iterate" /\ depth' = depth + 1
      /\ returned' = NoScore
      /\ result' = [move |-> IF rootBest # NoMove THEN rootBest ELSE result.move,
                    score |-> returned, depth |-> depth, scored |-> rootBest # NoMove]
      /\ UNCHANGED <<kept, limits, frames, ply, completed, rootBest, stopped>>
  BY DEF Complete
<1>2. /\ depth \in 1..MaxDepth /\ MaxDepth \in 1..245 /\ returned \in Int /\ limits.root \in Node
  BY <1>1, DepthsAreSmall, LimitAssumption DEF IInv, PhaseOK, Types
<1>3. /\ Sound(limits.root, depth, 0, -VALUE_INFINITE, VALUE_INFINITE, returned)
      /\ Attains(rootBest, returned, depth)
  BY <1>1 DEF IInv, RootOK
<1>4. rootBest \in Node \cup {NoMove} /\ result \in Report
  BY DEF IInv, Types
<1>5. result' \in Report
  BY <1>1, <1>2, <1>4 DEF Report
<1>6. /\ result'.score = returned /\ result'.depth = depth
      /\ result'.scored = (rootBest # NoMove) /\ (rootBest # NoMove => result'.move = rootBest)
  BY <1>1
<1>7. Types'
  BY <1>1, <1>2, <1>5 DEF IInv, Types
<1>8. StackOK' /\ ReturnOK' /\ ~(ply' >= 0)
  BY <1>1, EmptyStack
<1>9. RootOK' /\ PhaseOK'
  BY <1>1, <1>2, <1>8 DEF RootOK, PhaseOK
<1>10. ScoreSound'
  <2>1. /\ LoAt(limits.root, depth, 0) \in Int /\ HiAt(limits.root, depth, 0) \in Int
        /\ -VALUE_INFINITE < LoAt(limits.root, depth, 0) /\ HiAt(limits.root, depth, 0) < VALUE_INFINITE
    BY <1>2, ReferenceInRange, DepthsAreSmall
  <2>2. LoAt(limits.root, depth, 0) <= returned /\ returned <= HiAt(limits.root, depth, 0)
    BY <1>2, <1>3, <2>1 DEF Sound, VALUE_INFINITE
  <2> QED  BY <1>1, <1>6, <2>2 DEF ScoreSound
<1>11. ScoredAttains'
  BY <1>1, <1>3, <1>6 DEF ScoredAttains, Attains
<1> QED  BY <1>1, <1>7, <1>8, <1>9, <1>10, <1>11, TableKept DEF IInv, ResultOK

LEMMA ClearHashStep == ASSUME IInv, ClearHash PROVE IInv'
<1>1. /\ kept' = [k \in Keys |-> Miss]
      /\ UNCHANGED <<phase, limits, depth, frames, ply, returned, completed, rootBest, stopped, result>>
  BY DEF ClearHash, Table!Clear, search
<1>2. Types'
  BY <1>1 DEF IInv, Types
<1>3. StackOK' /\ ReturnOK' /\ RootOK' /\ PhaseOK'
  BY <1>1 DEF IInv, StackOK, ReturnOK, Returning, Top, RootOK, Attains, PhaseOK
<1>4. TableSound'
  <2>1. \A n \in Node : Key[n] \in Keys
    BY DEF Keys
  <2> QED  BY <1>1, <2>1 DEF TableSound, Table!Known
<1> QED  BY <1>1, <1>2, <1>3, <1>4, ResultKept DEF IInv

LEMMA NextInv == ASSUME QuiesceIsSound, Unrestricted, IInv, [Next]_vars PROVE IInv'
<1>1. CASE SearchStep
  BY <1>1, DeepenStep, FinishStep, CallQuiesceStep, DecideStep, AbortStep, CutOffStep, NoMovesStep,
     OpenStep, DescendStep, AbsorbStep, UnwindStep, SaveStep, CompleteStep DEF SearchStep
<1>2. CASE Stop \/ UNCHANGED vars
  BY <1>2, FinishStep
<1>3. CASE ClearHash
  BY <1>3, ClearHashStep
<1>4. CASE \E l \in Limit : Go(l) \/ GoNowhere(l)
  BY <1>4, GoStep
<1> QED  BY <1>1, <1>2, <1>3, <1>4 DEF Next

-----------------------------------------------------------------------------
\* What follows for every behaviour.

\* The inductive invariant holds throughout.
LEMMA SearchInvariant == QuiesceIsSound /\ Unrestricted => (Spec => []IInv)
<1> SUFFICES ASSUME QuiesceIsSound, Unrestricted PROVE Spec => []IInv
  OBVIOUS
<1>1. IInv /\ [Next]_vars => IInv'
  BY NextInv
<1> QED  BY InitInv, <1>1, PTL DEF Spec

\* The types, and a stack no deeper than the iteration: with every call at the depth
\* its ply leaves, negamax never runs past the deepest frame.
THEOREM SearchTypes == QuiesceIsSound /\ Unrestricted => (Spec => []TypeOK)
BY SearchInvariant, InvariantTypes, PTL

\* Whatever the search has stored, in whichever window and at whichever ply, is a
\* true bound for every position of its key at every ply.
THEOREM TableIsSound == QuiesceIsSound /\ Unrestricted => (Spec => []TableSound)
<1>1. IInv => TableSound
  BY DEF IInv
<1> QED  BY SearchInvariant, <1>1, PTL

\* Alpha-beta with the table computes what minimax would, within what the mixing of
\* depths leaves open.
THEOREM ScoreIsSound == QuiesceIsSound /\ Unrestricted => (Spec => []ScoreSound)
<1>1. IInv => ScoreSound
  BY DEF IInv, ResultOK
<1> QED  BY SearchInvariant, <1>1, PTL

-----------------------------------------------------------------------------
\* Where the reported move comes from: once an iteration has searched the root, the
\* table holds no exact entry of it that could cut a later one off.

Root == limits.root
RootHit(d) ==
  /\ kept[Key[Root]] # Miss
  /\ kept[Key[Root]].score.bound = "Exact" /\ kept[Key[Root]].score.depth >= d

Unsearched ==
  (phase # "idle" \/ result.depth > 0) /\ ~result.scored /\ ~Decided(Root, 0) =>
    FirstMove(result.move, limits)
Between == phase = "iterate" /\ result.scored /\ ~Decided(Root, 0) => ~RootHit(depth)
Searching ==
  phase = "search" /\ ply >= 0 =>
    /\ ~Decided(Root, 0) => (result.scored \/ frames[0].opened => ~RootHit(depth))
    /\ frames[0].opened => (frames[0].best > -VALUE_INFINITE => rootBest # NoMove)
RootSearched ==
  phase = "search" /\ ply = -1 /\ completed /\ ~Decided(Root, 0) =>
    IF rootBest = NoMove THEN ~result.scored ELSE ~RootHit(depth + 1)
HasMoves == phase # "idle" => Allowed(Root, 0, limits) # {}

MoveInv == Unsearched /\ Between /\ Searching /\ RootSearched /\ HasMoves

\* A step that leaves the table and the result alone keeps what only they decide.
LEMMA RestMoves ==
  ASSUME IInv, MoveInv, phase = "search", UNCHANGED rest, Searching', RootSearched'
  PROVE  MoveInv'
<1>1. phase' = "search" /\ UNCHANGED <<limits, result>>
  BY DEF rest
<1> QED BY <1>1 DEF MoveInv, Unsearched, Between, HasMoves, Root, FirstMove

\* The call of the root.
LEMMA RootCall ==
  ASSUME IInv, phase = "search", ply >= 0
  PROVE  /\ frames[0].node = Root /\ frames[0].orig = -VALUE_INFINITE
         /\ frames[0].beta = VALUE_INFINITE /\ frames[0].depth = depth /\ depth \in 1..MaxDepth
         /\ ply = 0 => Top = frames[0]
         /\ frames[0] \in Frame /\ Root \in Node /\ Key[Root] \in Keys
<1>1. depth \in 1..MaxDepth /\ 0 \in Depths /\ 0 <= ply
  <2>1. ply \in -1..MaxDepth /\ depth \in 1..MaxDepth
    BY DEF IInv, PhaseOK, StackOK
  <2> QED BY <2>1, DepthsAreSmall
<1>2. FrameOK(frames[0], 0, depth)
  BY <1>1 DEF IInv, StackOK
<1>3. limits.root \in Node
  BY LimitAssumption DEF IInv, Types
<1> QED BY <1>1, <1>2, <1>3 DEF IInv, StackOK, FrameOK, Windowed, Top, Root, Keys

\* A call below the root that answers, and one at the root that is interrupted.
LEMMA AnswerMoves ==
  ASSUME IInv, MoveInv, phase = "search", ply >= 0, NEW v, Return(v), UNCHANGED <<rest, rootBest>>,
         ply = 0 /\ completed' /\ ~Decided(Root, 0) => rootBest = NoMove /\ ~result.scored
  PROVE  MoveInv'
<1>1. /\ ply \in 0..MaxDepth /\ ply' = ply - 1 /\ phase' = "search"
      /\ UNCHANGED <<kept, limits, depth, result, rootBest>>
      /\ ply > 0 => frames'[0] = frames[0]
  BY DepthsAreSmall DEF IInv, StackOK, Return, rest, Depths
<1>2. Searching'
  BY <1>1 DEF MoveInv, Searching, Root, RootHit
<1>3. RootSearched'
  BY <1>1 DEF RootSearched, Root
<1> QED BY <1>2, <1>3, RestMoves

LEMMA CutOffMoves == ASSUME IInv, MoveInv, CutOff PROVE MoveInv'
<1>1. /\ Entering /\ ~Decided(Top.node, ply) /\ UNCHANGED <<rest, completed, rootBest>>
      /\ phase = "search" /\ ply >= 0 /\ ~Top.opened
  BY DEF CutOff, Searched, Entering
<1>2. PICK v \in Hits : Return(v)
  BY DEF CutOff
<1>3. ASSUME ply = 0, ~Decided(Root, 0) PROVE rootBest = NoMove /\ ~result.scored
  <2>1. rootBest = NoMove
    BY <1>1, <1>3, RootCall DEF IInv, RootOK
  <2> DEFINE e == kept[Key[Root]]
  <2>2. /\ Top.node = Root /\ Top.alpha = -VALUE_INFINITE /\ Top.beta = VALUE_INFINITE
        /\ Top.depth = depth
    BY <1>1, <1>3, RootCall, FirstWindow
  <2>3. e # Miss /\ v \in Cutoffs(e, depth, -VALUE_INFINITE, VALUE_INFINITE, 0)
    BY <1>2, <1>3, <2>2 DEF Hits, Table!Known
  <2>4. e \in Entry
    BY <1>1, <2>3, RootCall DEF IInv, Types
  <2>5. /\ v = ValueFromTT(e.score.value, 0) /\ e.score.depth >= depth
        /\ \/ e.score.bound = "Exact"
           \/ e.score.bound = "Lower" /\ v >= VALUE_INFINITE
           \/ e.score.bound = "Upper" /\ v <= -VALUE_INFINITE
    BY <2>3 DEF Cutoffs
  <2>6. EntrySound(Root, e.score, 0)
    <3>1. Root \in Node
      BY <1>1, RootCall, Zenon
    <3>2. 0 \in 0..MaxDepth
      BY DepthsAreSmall
    <3>3. Table!Known(Key[Root])
      BY <2>3, Zenon DEF Table!Known
    <3> QED BY <1>3, <3>1, <3>2, <3>3, Zenon DEF IInv, TableSound
  <2>7. /\ LoAt(Root, e.score.depth, 0) \in Int /\ HiAt(Root, e.score.depth, 0) \in Int
        /\ -VALUE_INFINITE < LoAt(Root, e.score.depth, 0) /\ HiAt(Root, e.score.depth, 0) < VALUE_INFINITE
    <3>1. e.score.depth \in Depths /\ 0 \in Depths /\ Root \in Node
      BY <1>1, <2>4, RootCall, DepthsAreSmall DEF Entry
    <3> HIDE DEF e
    <3> QED BY <3>1, ReferenceInRange
  <2>8. v \in Int
    BY <1>1, <1>2, <1>3, <2>2, CutoffIsSound
  <2>9. /\ e.score.bound # "Upper" => v <= HiAt(Root, e.score.depth, 0)
        /\ e.score.bound # "Lower" => v >= LoAt(Root, e.score.depth, 0)
    BY <2>5, <2>6 DEF EntrySound
  <2>10. e.score.bound = "Exact"
    <3> DEFINE lo == LoAt(Root, e.score.depth, 0)
               hi == HiAt(Root, e.score.depth, 0)
    <3> HIDE DEF e, lo, hi
    <3>1. /\ lo \in Int /\ hi \in Int /\ -VALUE_INFINITE < lo /\ hi < VALUE_INFINITE
          /\ e.score.bound # "Upper" => v <= hi
          /\ e.score.bound # "Lower" => v >= lo
      BY <2>7, <2>9 DEF lo, hi
    <3> QED BY <2>5, <2>8, <3>1 DEF VALUE_INFINITE
  <2>11. RootHit(depth)
    BY <2>3, <2>5, <2>10 DEF RootHit
  <2> QED BY <1>1, <1>3, <2>1, <2>11 DEF MoveInv, Searching
<1> QED BY <1>1, <1>2, <1>3, AnswerMoves

LEMMA OtherAnswersMove ==
  ASSUME IInv, MoveInv, CallQuiesce \/ Decide \/ Abort \/ NoMoves \/ Unwind
  PROVE  MoveInv'
<1>1. /\ phase = "search" /\ ply >= 0 /\ UNCHANGED <<rest, rootBest>>
      /\ \E v : Return(v)
  BY DEF CallQuiesce, Decide, Abort, NoMoves, Unwind, Entering, Returning, Searched
<1>2. /\ frames[0].node = Root /\ frames[0].depth = depth /\ depth \in 1..MaxDepth
      /\ ply = 0 => Top = frames[0]
  BY <1>1, RootCall
<1>3. ASSUME ply = 0, completed', ~Decided(Root, 0) PROVE FALSE
  <2>1. CASE CallQuiesce
    BY <1>2, <1>3, <2>1, DepthsAreSmall DEF CallQuiesce
  <2>2. CASE Decide
    BY <1>2, <1>3, <2>2 DEF Decide
  <2>3. CASE Abort \/ Unwind
    BY <1>3, <2>3 DEF Abort, Unwind
  <2>4. CASE NoMoves
    BY <1>1, <1>2, <1>3, <2>4 DEF NoMoves, MoveInv, HasMoves
  <2> QED BY <2>1, <2>2, <2>3, <2>4
<1> QED BY <1>1, <1>3, AnswerMoves

LEMMA OpenMoves == ASSUME IInv, MoveInv, Open PROVE MoveInv'
<1>1. /\ phase = "search" /\ ply >= 0 /\ ~Decided(Top.node, ply) /\ Hits = {} /\ ~Top.opened
      /\ Entering /\ frames' = [frames EXCEPT ![ply] = Opened(Top, ply)]
      /\ UNCHANGED <<rest, ply, returned, completed, rootBest>>
  BY DEF Open, Searched, Entering
<1>2. ply \in Depths /\ DOMAIN frames = Depths /\ 0 \in Depths /\ ply # -1
  BY <1>1, DepthsAreSmall DEF IInv, StackOK, Depths
<1>3. RootSearched'
  BY <1>1, <1>2 DEF RootSearched
<1>4. Searching'
  <2>1. CASE ply = 0
    <3>1. /\ Top.node = Root /\ Top.alpha = -VALUE_INFINITE /\ Top.beta = VALUE_INFINITE
          /\ Top.depth = depth /\ Top \in Frame
      BY <1>1, <2>1, RootCall, FirstWindow
    <3>2. ~RootHit(depth)
      <4> SUFFICES ASSUME RootHit(depth) PROVE FALSE
        OBVIOUS
      <4>1. ValueFromTT(kept[Key[Root]].score.value, ply) \in Hits
        BY <3>1 DEF RootHit, Hits, Cutoffs, Table!Known
      <4> QED BY <1>1, <4>1
    <3>3. Top.best = -VALUE_INFINITE
      BY <1>1, TopFrame DEF FrameOK
    <3>4. frames'[0].best = -VALUE_INFINITE
      BY <1>1, <1>2, <2>1, <3>1, <3>3 DEF Opened, Frame
    <3> QED BY <1>1, <2>1, <3>2, <3>4 DEF Searching, RootHit, Root, rest, VALUE_INFINITE
  <2>2. CASE ply # 0
    <3>1. frames'[0] = frames[0]
      BY <1>1, <1>2, <2>2
    <3> QED BY <1>1, <3>1 DEF MoveInv, Searching, RootHit, Root, rest
  <2> QED BY <2>1, <2>2
<1> QED BY <1>1, <1>3, <1>4, RestMoves

LEMMA DescendMoves == ASSUME IInv, MoveInv, Descend PROVE MoveInv'
<1>1. phase = "search" /\ ply >= 0 /\ ply' = ply + 1 /\ UNCHANGED <<rest, returned, completed, rootBest>>
  BY DEF Descend, Looping
<1>2. /\ ply \in Depths /\ ply + 1 # 0 /\ DOMAIN frames = Depths /\ 0 \in Depths
      /\ ply' >= 0 /\ ply' # -1
  BY <1>1, DepthsAreSmall DEF IInv, StackOK, Depths
<1>3. frames'[0].opened = frames[0].opened /\ frames'[0].best = frames[0].best
  <2>1. PICK c : frames' = [frames EXCEPT
                       ![ply] = [Top EXCEPT !.current = c],
                       ![ply + 1] = Called(c, Top.depth - 1, Window(Top)[1], Window(Top)[2])]
    BY DEF Descend
  <2>2. frames'[0] = IF ply = 0 THEN [frames[0] EXCEPT !.current = c] ELSE frames[0]
    BY <1>2, <2>1 DEF Top
  <2>3. frames[0] \in Frame
    BY <1>1, RootCall
  <2> QED BY <2>2, <2>3 DEF Frame
<1>4. Searching'
  BY <1>1, <1>3 DEF MoveInv, Searching, RootHit, Root, rest
<1>5. RootSearched'
  BY <1>2 DEF RootSearched
<1> QED BY <1>1, <1>4, <1>5, RestMoves

LEMMA AbsorbMoves == ASSUME IInv, MoveInv, Absorb PROVE MoveInv'
<1> DEFINE s == -returned
<1>1. /\ phase = "search" /\ ply >= 0 /\ completed
      /\ frames' = [frames EXCEPT ![ply] = Absorbed(Top, s)]
      /\ rootBest' = IF Raises(Top, s) /\ ply = 0 THEN Top.current ELSE rootBest
      /\ UNCHANGED <<rest, ply, completed>> /\ Returning
  BY DEF Absorb, Returning
<1>2. ply \in Depths /\ DOMAIN frames = Depths /\ 0 \in Depths /\ ply # -1
  BY <1>1, DepthsAreSmall DEF IInv, StackOK, Depths
<1> HIDE DEF s
<1>3. RootSearched'
  BY <1>1, <1>2 DEF RootSearched
<1>4. Searching'
  <2>1. CASE ply = 0
    <3>1. Calls(frames[0]) /\ frames[0] \in Frame /\ Top = frames[0]
      BY <1>1, <2>1, RootCall DEF IInv, ReturnOK
    <3>2. frames[0].current \in Node /\ frames[0].current # NoMove /\ frames[0].opened
      BY <3>1, GameAssumption DEF Calls, Frame
    <3>3. /\ frames'[0].opened /\ frames'[0].best = Larger(frames[0].best, s)
          /\ rootBest' = IF s > frames[0].best THEN frames[0].current ELSE rootBest
      BY <1>1, <1>2, <2>1, <3>1, <3>2 DEF Absorbed, Frame, Raises
    <3>4. frames'[0].best = frames[0].best \/ rootBest' # NoMove
      <4>1. returned \in Int /\ s = -returned
        BY <1>1 DEF s, Returning, IInv, Types
      <4>2. frames[0].best \in Int
        BY <3>1 DEF Frame
      <4> QED BY <3>2, <3>3, <4>1, <4>2 DEF Larger
    <3>5. frames[0].best > -VALUE_INFINITE /\ rootBest' = rootBest => rootBest' # NoMove
      BY <1>1, <2>1, <3>2 DEF MoveInv, Searching
    <3> QED BY <1>1, <2>1, <3>2, <3>3, <3>4, <3>5 DEF MoveInv, Searching, RootHit, Root, rest
  <2>2. CASE ply # 0
    <3>1. frames'[0] = frames[0] /\ rootBest' = rootBest
      BY <1>1, <1>2, <2>2
    <3> QED BY <1>1, <3>1 DEF MoveInv, Searching, RootHit, Root, rest
  <2> QED BY <2>1, <2>2
<1> QED BY <1>1, <1>3, <1>4, RestMoves

LEMMA SaveMoves == ASSUME IInv, MoveInv, Save PROVE MoveInv'
<1> DEFINE f == Top
           r == SaveOf(f, ply)
           k == Key[Root]
<1>1. /\ phase = "search" /\ ply >= 0 /\ f.opened /\ (f.todo = {} \/ f.alpha >= f.beta)
      /\ Table!Save(r) /\ Return(f.best)
      /\ UNCHANGED <<phase, limits, depth, stopped, result, completed, rootBest>>
  BY DEF Save, Looping
<1>2. /\ f \in Frame /\ f.depth \in 1..MaxDepth /\ f.node \in Node /\ f.best \in Int
      /\ f.orig \in Int /\ f.beta \in Int /\ ply \in 0..MaxDepth /\ f.depth = depth - ply
      /\ depth \in 1..MaxDepth /\ MaxDepth \in 1..245
  BY <1>1, LoopFrame
<1>3. k \in Keys
  BY <1>1, RootCall
<1> DEFINE score == [value |-> ValueToTT(r.value, r.ply), bound |-> r.bound, depth |-> r.depth]
<1>4. /\ r.key \in Keys /\ r.move \in Node \cup {NoMove} /\ r.eval \in Int /\ r.depth = f.depth
      /\ r.value = f.best /\ r.ply = ply /\ r.bound = BoundOf(f.best, f.orig, f.beta)
  BY <1>2, GameAssumption DEF SaveOf, Frame, Keys
<1>5. kept \in [Keys -> Entry \cup {Miss}]
  BY DEF IInv, Types
<1> HIDE DEF r, k
<1>11. /\ score \in [value : Int, bound : {"Exact", "Lower", "Upper"}, depth : 1..MaxDepth]
       /\ score.depth = f.depth
  BY <1>2, <1>4 DEF BoundOf, ValueToTT, VALUE_NONE
<1>6. kept'[k] # Miss => \/ kept[k] # Miss /\ kept'[k].score = kept[k].score
                         \/ kept'[k].score.depth = f.depth
  <2>1. \A x \in Keys : kept'[x] # Miss =>
          \/ kept[x] # Miss /\ kept'[x].score = kept[x].score
          \/ x = r.key /\ kept'[x].score = score
    BY <1>1, <1>4, <1>5, <1>11, SaveOutcome
  <2> HIDE DEF score
  <2> QED BY <1>3, <1>11, <2>1
<1> HIDE DEF f, score
<1>7. ply' = ply - 1 /\ (ply > 0 => frames'[0] = frames[0])
  BY <1>1, <1>2, DepthsAreSmall DEF Return, IInv, StackOK, Depths
<1>8. \A d \in Int : ~RootHit(d) /\ f.depth < d =>
        ~(kept'[k] # Miss /\ kept'[k].score.bound = "Exact" /\ kept'[k].score.depth >= d)
  BY <1>1, <1>2, <1>6 DEF RootHit, k
<1>12. k = Key[Root] /\ Root' = Root /\ depth' = depth
  BY <1>1 DEF k, Root
<1>9. Searching'
  <2>1. CASE ply = 0
    BY <1>7, <2>1 DEF Searching
  <2>2. CASE ply > 0
    <3>1. f.depth < depth /\ depth \in Int
      BY <1>2, <2>2
    <3>2. ~RootHit(depth) => ~RootHit(depth)'
      BY <1>8, <1>12, <3>1 DEF RootHit
    <3> QED BY <1>1, <1>7, <2>2, <3>2 DEF MoveInv, Searching, Root
  <2> QED BY <1>2, <2>1, <2>2
<1>10. RootSearched'
  <2> SUFFICES ASSUME ply = 0, ~Decided(Root, 0) PROVE rootBest # NoMove /\ ~RootHit(depth + 1)'
    BY <1>1, <1>2, <1>7 DEF RootSearched, Root
  <2>1. /\ frames[0].node = Root /\ frames[0].orig = -VALUE_INFINITE /\ f = frames[0]
        /\ frames[0].beta = VALUE_INFINITE /\ Root \in Node
    BY <1>1, RootCall DEF f
  <2>2. Sound(f.node, f.depth, ply, f.orig, f.beta, f.best) /\ -VALUE_INFINITE <= f.best
    BY <1>1, LoopIsSound DEF f
  <2>3. LoAt(f.node, f.depth, ply) \in Int /\ -VALUE_INFINITE < LoAt(f.node, f.depth, ply)
    BY <1>2, ReferenceInRange DEF Depths
  <2>4. f.best > -VALUE_INFINITE
    BY <1>2, <2>1, <2>2, <2>3 DEF Sound, VALUE_INFINITE
  <2>5. rootBest # NoMove /\ ~RootHit(depth)
    BY <1>1, <2>1, <2>4 DEF MoveInv, Searching
  <2>6. ~RootHit(depth + 1)
    <3>1. kept[Key[Root]] # Miss => kept[Key[Root]].score.depth \in Int
      BY <1>3, <1>5 DEF Entry, k
    <3> QED BY <1>2, <2>5, <3>1 DEF RootHit
  <2>7. f.depth < depth + 1 /\ depth + 1 \in Int
    BY <1>2
  <2> QED BY <1>8, <1>12, <2>5, <2>6, <2>7 DEF RootHit
<1> QED BY <1>1, <1>9, <1>10 DEF MoveInv, Unsearched, Between, HasMoves, Root, FirstMove

LEMMA LoopMoves ==
  ASSUME IInv, MoveInv, Deepen \/ Complete \/ Finish \/ GiveUp \/ Stop \/ ClearHash \/ UNCHANGED vars
         \/ \E l \in Limit : Go(l) \/ GoNowhere(l)
  PROVE  MoveInv'
<1>1. CASE Deepen
  <2>1. /\ phase = "iterate" /\ ply' = 0 /\ phase' = "search"
        /\ frames' = [frames EXCEPT ![0] = Called(limits.root, depth, -VALUE_INFINITE, VALUE_INFINITE)]
        /\ UNCHANGED <<kept, limits, depth, result>>
    BY <1>1 DEF Deepen
  <2>2. ~frames'[0].opened
    BY <2>1, DepthsAreSmall DEF IInv, StackOK, Called
  <2> QED BY <2>1, <2>2 DEF MoveInv, Unsearched, Between, Searching, RootSearched, HasMoves, Root, RootHit, FirstMove
<1>2. CASE Complete
  <2>1. /\ phase = "search" /\ ply = -1 /\ completed /\ phase' = "iterate" /\ depth' = depth + 1
        /\ result' = [move |-> IF rootBest # NoMove THEN rootBest ELSE result.move,
                      score |-> returned, depth |-> depth, scored |-> rootBest # NoMove]
        /\ UNCHANGED <<kept, limits, frames, ply, completed, rootBest, stopped>>
    BY <1>2 DEF Complete
  <2>2. result'.scored = (rootBest # NoMove) /\ (rootBest = NoMove => result'.move = result.move)
    BY <2>1
  <2>3. Unsearched'
    BY <2>1, <2>2 DEF MoveInv, Unsearched, RootSearched, Root, FirstMove
  <2>4. Between'
    <3>1. ~Decided(Root, 0) /\ rootBest # NoMove => ~RootHit(depth + 1)
      BY <2>1 DEF MoveInv, RootSearched
    <3> QED BY <2>1, <2>2, <3>1 DEF Between, Root, RootHit
  <2> QED BY <2>1, <2>3, <2>4 DEF MoveInv, Searching, RootSearched, HasMoves, Root
<1>3. CASE Finish \/ GiveUp
  BY <1>3 DEF Finish, GiveUp, MoveInv, Unsearched, Between, Searching, RootSearched, HasMoves, Root, FirstMove
<1>4. CASE Stop \/ UNCHANGED vars
  <2>1. UNCHANGED <<kept, phase, limits, depth, frames, ply, completed, rootBest, result>>
    BY <1>4 DEF Stop, vars, search
  <2> QED BY <2>1 DEF MoveInv, Unsearched, Between, Searching, RootSearched, HasMoves, Root, RootHit, FirstMove
<1>5. CASE ClearHash
  BY <1>5 DEF ClearHash, search, MoveInv, Unsearched, Between, Searching, RootSearched, HasMoves, Root, FirstMove
<1>6. CASE \E l \in Limit : Go(l)
  <2>1. PICK l \in Limit, m \in Node :
          /\ FirstMove(m, l) /\ limits' = l /\ phase' = "iterate"
          /\ result' = [move |-> m, score |-> 0, depth |-> 0, scored |-> FALSE]
    BY <1>6 DEF Go
  <2> QED BY <2>1 DEF MoveInv, Unsearched, Between, Searching, RootSearched, HasMoves, Root, FirstMove
<1>7. CASE \E l \in Limit : GoNowhere(l)
  <2>1. phase' = "idle" /\ result'.depth = 0
    BY <1>7 DEF GoNowhere
  <2> QED BY <2>1 DEF MoveInv, Unsearched, Between, Searching, RootSearched, HasMoves
<1> QED BY <1>1, <1>2, <1>3, <1>4, <1>5, <1>6, <1>7

LEMMA MovesStep == IInv /\ MoveInv /\ [Next]_vars => MoveInv'
BY CutOffMoves, OtherAnswersMove, OpenMoves, DescendMoves, AbsorbMoves, SaveMoves, LoopMoves
   DEF Next, SearchStep

\* The move reported attains the score whenever the root was searched at all, and is
\* the first legal one when the table answered every iteration: never the move of
\* one iteration with the score of another (root_best_ and result in
\* think_classic_ab).
THEOREM MoveIsAttained == QuiesceIsSound /\ Unrestricted => (Spec => []MoveAttainsScore)
<1> SUFFICES ASSUME QuiesceIsSound, Unrestricted PROVE Spec => []MoveAttainsScore
  OBVIOUS
<1>1. Init => MoveInv
  BY DEF Init, MoveInv, Unsearched, Between, Searching, RootSearched, HasMoves
<1>2. Spec => []IInv
  BY SearchInvariant
<1>3. IInv /\ MoveInv => MoveAttainsScore
  BY DEF IInv, ResultOK, ScoredAttains, MoveInv, Unsearched, MoveAttainsScore, Root
<1> QED BY <1>1, <1>2, <1>3, MovesStep, PTL DEF Spec

\* A stop unwinds the search without touching the table or the last result.
THEOREM InterruptionIsClean ==
  QuiesceIsSound /\ Unrestricted => (Spec => InterruptedChangesNothing)
<1> SUFFICES ASSUME QuiesceIsSound, Unrestricted PROVE Spec => InterruptedChangesNothing
  OBVIOUS
<1>1. IInv /\ [Next]_vars => [phase = "search" /\ ~completed' => UNCHANGED <<kept, result>>]_vars
  <2> SUFFICES ASSUME IInv, Next, phase = "search", ~completed'
               PROVE  UNCHANGED <<kept, result>>
    OBVIOUS
  <2>1. ~Save
    BY DEF Save, Looping, IInv, PhaseOK
  <2>2. ~Complete
    BY DEF Complete
  <2>3. CASE SearchStep
    BY <2>1, <2>2, <2>3 DEF SearchStep, Deepen, Finish, CallQuiesce, Decide, Abort, CutOff, NoMoves,
                            Open, Descend, Absorb, Unwind, GiveUp, rest
  <2>4. CASE Stop
    BY <2>4 DEF Stop
  <2>5. ~ClearHash /\ \A l \in Limit : ~Go(l) /\ ~GoNowhere(l)
    BY DEF ClearHash, Go, GoNowhere
  <2> QED  BY <2>3, <2>4, <2>5 DEF Next
<1>2. Spec => []IInv
  BY SearchInvariant
<1> QED  BY <1>1, <1>2, PTL DEF Spec, InterruptedChangesNothing

=============================================================================
