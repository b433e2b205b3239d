---------------------------- MODULE MCTransTable ----------------------------
(***************************************************************************)
(* One key more than lanes, so that saves evict. Key 0 is the one zeroed   *)
(* memory seems to hold, key 1 a position that mates in three plies and    *)
(* key 2 one that is mated in four; one key is saved both as a classic     *)
(* score and as a heuristic corridor that does not hold its value.         *)
(***************************************************************************)
EXTENDS TransTable

MCTruth == [k \in 0..2 |-> [d \in {1, 9} |->
  CASE k = 0 -> 10 * d
    [] k = 1 -> VALUE_MATE - 3
    [] k = 2 -> -(VALUE_MATE - 4)]]

MCWindow == {<<-32001, 32001>>, <<0, 25>>, <<31990, 31994>>, <<-31995, -31992>>}

Classic(k, bound, value, depth, ply, move, eval) ==
  [kind |-> "classic", key |-> k, bound |-> bound, lower |-> value, upper |-> value,
   depth |-> depth, ply |-> ply, move |-> move, eval |-> eval, pv |-> FALSE, force |-> FALSE]

Corridor(k, lower, upper, depth, ply, move, eval, final) ==
  [kind |-> "corridor", key |-> k, bound |-> "None", lower |-> lower, upper |-> upper,
   depth |-> depth, ply |-> ply, move |-> move, eval |-> eval, pv |-> final, force |-> final]

MCRequest ==
  {Classic(0, "Exact", 10, 1, 2, 1, 7),
   Classic(0, "Lower", 80, 9, 0, 0, VALUE_NONE),
   Corridor(0, 30, 45, 4, 2, 2, VALUE_NONE, FALSE),
   Corridor(0, 15, 15, 1, 0, 2, 7, TRUE),
   Classic(1, "Exact", VALUE_MATE - 5, 1, 2, 2, VALUE_NONE),
   Classic(1, "Upper", VALUE_MATE - 8, 9, 5, 0, VALUE_NONE),
   Classic(2, "Exact", -(VALUE_MATE - 9), 9, 5, 1, 7)}

=============================================================================
