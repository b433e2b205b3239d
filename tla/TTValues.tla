------------------------------ MODULE TTValues ------------------------------
(***************************************************************************)
(* The search's scores and how a mate changes its distance on the way into *)
(* the transposition table and back (src/src/tt.hpp).                      *)
(***************************************************************************)
EXTENDS Integers

VALUE_NONE == 32767
VALUE_INFINITE == 32001
VALUE_MATE == 32000
VALUE_DRAW == 0
MAX_PLY == 246
VALUE_MATE_IN_MAX_PLY == VALUE_MATE - MAX_PLY

\* What the search computes with.
IsValue(v) == v \in Int /\ -VALUE_INFINITE <= v /\ v <= VALUE_INFINITE

\* The value t of a position as the search counts it at a ply: mates are counted
\* from the root.
AtPly(t, ply) ==
  IF t >= VALUE_MATE_IN_MAX_PLY THEN t - ply
  ELSE IF t <= -VALUE_MATE_IN_MAX_PLY THEN t + ply ELSE t

\* The value of a position is a mate that every ply of P still counts as one, or
\* so far from the mates that no ply makes it one.
ClearOfBand(t, P) ==
  \/ /\ t < VALUE_MATE_IN_MAX_PLY - MAX_PLY
     /\ -t < VALUE_MATE_IN_MAX_PLY - MAX_PLY
  \/ \A p \in P : t - p >= VALUE_MATE_IN_MAX_PLY
  \/ \A p \in P : t + p <= -VALUE_MATE_IN_MAX_PLY

-----------------------------------------------------------------------------

\* Fault: the correction of a mate distance is applied twice, not undone.
ValueFromTTTwice(v, ply) ==
  IF v = VALUE_NONE THEN v
  ELSE IF v >= VALUE_MATE_IN_MAX_PLY THEN v + ply
  ELSE IF v <= -VALUE_MATE_IN_MAX_PLY THEN v - ply ELSE v

\* Mates are counted from the root by the search, from the node in the table.
ValueToTT(v, ply) ==
  IF v = VALUE_NONE THEN v
  ELSE IF v >= VALUE_MATE_IN_MAX_PLY THEN v + ply
  ELSE IF v <= -VALUE_MATE_IN_MAX_PLY THEN v - ply ELSE v

ValueFromTT(v, ply) ==
  IF v = VALUE_NONE THEN v
  ELSE IF v >= VALUE_MATE_IN_MAX_PLY THEN v - ply
  ELSE IF v <= -VALUE_MATE_IN_MAX_PLY THEN v + ply ELSE v

=============================================================================
