----------------------------- MODULE MCUciEngine -----------------------------
(***************************************************************************)
(* Two units of work, so that a search is interrupted before, between and  *)
(* after them, and a node limit that bites in the middle. The go commands  *)
(* are those that differ in what ends them.                                *)
(***************************************************************************)
EXTENDS UciEngine

Plain == [infinite |-> FALSE, ponder |-> FALSE, time |-> FALSE,
          nodes |-> FALSE, searchmoves |-> FALSE]

MCGoRequest ==
  {Plain,
   [Plain EXCEPT !.time = TRUE],
   [Plain EXCEPT !.nodes = TRUE],
   [Plain EXCEPT !.searchmoves = TRUE],
   [Plain EXCEPT !.infinite = TRUE],
   [Plain EXCEPT !.infinite = TRUE, !.searchmoves = TRUE],
   [Plain EXCEPT !.infinite = TRUE, !.nodes = TRUE],
   [Plain EXCEPT !.ponder = TRUE],
   [Plain EXCEPT !.ponder = TRUE, !.time = TRUE]}

InfiniteOnly == {[Plain EXCEPT !.infinite = TRUE]}

=============================================================================
