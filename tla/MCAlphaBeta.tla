---------------------------- MODULE MCAlphaBeta ----------------------------
(***************************************************************************)
(* A game whose root 3 is also met inside the search of root 1. 2 is a     *)
(* stalemate, 9 a mate, 8 a tablebase loss. 6 is 5 with a repetition in    *)
(* its history and has its key. 5 may be refuted by the mate after 7 that  *)
(* a quiescence search cut off early does not see, and 4 answers first     *)
(* with a draw and could win.                                              *)
(***************************************************************************)
EXTENDS AlphaBeta

Moves == <<{2, 3, 4}, {}, {5, 6}, {6, 8}, {7}, {7}, {8, 9}, {}, {}>>

MCNode == 1..9
MCLegal == [n \in MCNode |-> Moves[n]]
MCKey == [n \in MCNode |-> IF n = 6 THEN 5 ELSE n]
MCNoisy == [n \in MCNode |-> CASE n = 7 -> {8, 9} [] n = 1 -> {2} [] OTHER -> {}]
MCStatic == [n \in MCNode |-> <<10, 60, -20, 15, 30, 30, 40, 25, -5>>[n]]
MCWdl == [n \in MCNode |-> IF n = 8 THEN -20000 ELSE NoScore]

Asked(n, d, S) == [root |-> n, depth |-> d, searchmoves |-> S]
MCUnrestricted == {Asked(1, 3, {}), Asked(3, 2, {}), Asked(9, 1, {})}
MCRestricted == MCUnrestricted \cup {Asked(1, 2, {4})}

-----------------------------------------------------------------------------
\* The minimax values, as ranges, over all the depths that the table may mix.

Exactly(v) == [lo |-> v, hi |-> v]
Least(S) == CHOOSE x \in S : \A y \in S : x <= y
Most(S) == CHOOSE x \in S : \A y \in S : x >= y
Hull(R) == [lo |-> Least({r.lo : r \in R}), hi |-> Most({r.hi : r \in R})]
BestOf(R) == [lo |-> Most({r.lo : r \in R}), hi |-> Most({r.hi : r \in R})]

\* What a move to c is worth to the side that makes it.
Turned(c, r) ==
  IF Decided(c, 1) THEN Exactly(-Verdict(c, 1))
  ELSE [lo |-> -AtPly(r.hi, 1), hi |-> -AtPly(r.lo, 1)]

QuietRange[n \in MCNode] ==
  LET tried == IF n \in InCheck THEN Legal[n] ELSE Noisy[n]
      stand == IF n \in InCheck THEN {} ELSE {Exactly(Static[n])}
  IN  IF Legal[n] = {}
      THEN Hull({Exactly(NoMoveScore(n, 0)), BestOf(stand \cup {Exactly(NoMoveScore(n, 0))})})
      ELSE BestOf(stand \cup {Turned(c, QuietRange[c]) : c \in tried})

RangeAt[n \in MCNode, d \in 0..MaxDepth] ==
  CASE d = 0 -> Hull({QuietRange[n], RangeAt[n, 1]})
    [] d > 0 /\ Legal[n] = {} -> Exactly(NoMoveScore(n, 0))
    [] OTHER -> BestOf({Turned(c, RangeAt[c, d - 1]) : c \in Legal[n]})

RangeOf(k, d) == Hull({RangeAt[n, d] : n \in {m \in MCNode : Key[m] = k}})
MCLo == [k \in Keys |-> [d \in 0..MaxDepth |-> RangeOf(k, d).lo]]
MCHi == [k \in Keys |-> [d \in 0..MaxDepth |-> RangeOf(k, d).hi]]

Edges == {-VALUE_INFINITE, -20000, -60, -40, -1, 0, 15, 30, 60, VALUE_MATE - 4, VALUE_INFINITE}

\* The quiescence search keeps negamax's promise for every window.
ASSUME QuiesceSound ==
  \A n \in MCNode, p \in 1..MaxDepth, a, b \in Edges :
    a < b => Sound(n, 0, p, a, b, Quiesce(n, a, b, p))

=============================================================================
