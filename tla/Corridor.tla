------------------------------ MODULE Corridor ------------------------------
(***************************************************************************)
(* The interval arithmetic of Modern B* (search.cpp: Corridor, clamp,      *)
(* rebuild_leaf, backup_node, verify_leaf). A corridor is what the search  *)
(* believes of a position, from its side to move. Values are cut down to a *)
(* scale that keeps the three bands of the engine apart: heuristic values  *)
(* up to Cap, tablebase wins above them, mates from Mate on.               *)
(***************************************************************************)
EXTENDS Integers

CONSTANTS Cap, Mate

ASSUME ScaleAssumption == Cap \in Nat /\ Mate \in Nat /\ Cap < Mate

Corridors == [lower: Int, upper: Int]
Valid(c) == c.lower <= c.upper
Point(v) == [lower |-> v, upper |-> v]
IsPoint(c) == c.lower = c.upper
IsMate(v) == v >= Mate \/ v <= -Mate

Inside(c, d) == d.lower <= c.lower /\ c.upper <= d.upper

Lesser(a, b) == IF a <= b THEN a ELSE b
Greater(a, b) == IF a >= b THEN a ELSE b

Clamp(v) == IF v > Cap THEN Cap ELSE IF v < -Cap THEN -Cap ELSE v

Negate(c) == [lower |-> -c.upper, upper |-> -c.lower]
Hull(c, d) == [lower |-> Lesser(c.lower, d.lower), upper |-> Greater(c.upper, d.upper)]
Overlap(c, d) == [lower |-> Greater(c.lower, d.lower), upper |-> Lesser(c.upper, d.upper)]

\* The best of the moves: S is a nonempty set of their corridors.
Best(S) ==
  [lower |-> CHOOSE v \in {c.lower : c \in S} : \A c \in S : c.lower <= v,
   upper |-> CHOOSE v \in {c.upper : c \in S} : \A c \in S : c.upper <= v]

\* Fault: a contradiction is resolved by overlapping all the same.
RefineOverlaps(backed, local, full) ==
  LET c == Overlap(backed, local)
  IN  IF full THEN c ELSE Hull(c, local)

\* backup_node: agreement narrows the working corridor, contradiction widens
\* it, and moves not looked at yet keep the whole local corridor in it.
Refine(backed, local, full) ==
  LET agreed == Overlap(backed, local)
      c == IF Valid(agreed) THEN agreed ELSE Hull(backed, local)
  IN  IF full THEN c ELSE Hull(c, local)

\* rebuild_leaf: the corridor around the evaluators' span, and a proved mate.
Leaf(low, high, margin) == [lower |-> Clamp(low - margin), upper |-> Clamp(high + margin)]

\* verify_leaf on an expanded node: the score only widens the local corridor.
Widened(local, score, margin) ==
  [lower |-> Clamp(Lesser(local.lower, score - margin)),
   upper |-> Clamp(Greater(local.upper, score + margin))]

=============================================================================
