---------------------------- MODULE MCProofArena ----------------------------
(***************************************************************************)
(* A board of four files and five ranks, as small as en passant and        *)
(* castling allow. Castling lacks the queen's side: no right to it is ever *)
(* given. Three games: castling and en passant; a promotion that takes a   *)
(* rook with its right to castle; and two promotions after which the king  *)
(* takes, so that the paths meet, from the start and after a repetition.   *)
(***************************************************************************)
EXTENDS ProofArena

MCSquare == 0..19
MCType == {"pawn", "knight", "rook", "king"}
MCBehind == [c \in Color |-> [s \in MCSquare |->
               IF s - Forward(c) * 4 \in MCSquare THEN s - Forward(c) * 4 ELSE s]]
MCCastleRook == [c \in Color |-> [k \in Castles |->
                   IF c = "white" THEN [from |-> 3, to |-> 1] ELSE [from |-> 19, to |-> 17]]]
MCCastleKing == [c \in Color |-> [k \in Castles |->
                   IF c = "white" THEN [from |-> 0, to |-> 2, clear |-> {1, 2}]
                   ELSE [from |-> 16, to |-> 18, clear |-> {17, 18}]]]

Board(men) == [s \in MCSquare |-> IF s \in DOMAIN men THEN men[s] ELSE Empty]
Fen(men, side, rights, clock) ==
  [board |-> Board(men), side |-> side, rights |-> rights, ep |-> NoSquare, clock |-> clock]

Castling == Fen(0 :> <<"white", "king">> @@ 3 :> <<"white", "rook">> @@ 5 :> <<"white", "pawn">>
                @@ 17 :> <<"black", "king">> @@ 12 :> <<"black", "pawn">>,
                "white", {<<"white", "king castle">>}, 2)
Promoting == Fen(0 :> <<"white", "king">> @@ 14 :> <<"white", "pawn">>
                 @@ 16 :> <<"black", "king">> @@ 19 :> <<"black", "rook">>,
                 "white", {<<"black", "king castle">>}, 0)
Meeting == Fen(0 :> <<"white", "king">> @@ 14 :> <<"white", "pawn">> @@ 4 :> <<"white", "pawn">>
               @@ 15 :> <<"black", "king">> @@ 8 :> <<"black", "pawn">>, "white", {}, 0)

MCCommand ==
  {[fen |-> Castling, moves |-> << >>],
   [fen |-> Castling, moves |-> <<Plain(0, 1), Plain(17, 0)>>],
   [fen |-> Promoting, moves |-> << >>],
   [fen |-> Meeting, moves |-> << >>],
   [fen |-> Meeting, moves |-> <<Plain(0, 1), Plain(15, 11), Plain(1, 0), Plain(11, 15)>>],
   [fen |-> [Meeting EXCEPT !.rights = {<<"white", "king castle">>}], moves |-> << >>]}

Promotion(from, to, pt) == [Plain(from, to) EXCEPT !.kind = "promotion", !.promotion = pt]
MCSearchmoves(g) ==
  CASE g.at.board = Castling.board ->
         {[Plain(0, 2) EXCEPT !.kind = "king castle"], [Plain(5, 13) EXCEPT !.kind = "double"]}
    [] g.at.board = Promoting.board -> {Promotion(14, 18, "rook"), Promotion(14, 19, "rook")}
    [] g.at.board = Meeting.board /\ Len(g.keys) = 1 ->
         {Promotion(14, 18, "rook"), Promotion(14, 18, "knight")}
    [] OTHER -> {Promotion(14, 18, "rook"), Plain(0, 1)}
MCPrior(m) == IF m = Plain(15, 18) \/ m.kind \in {"en passant", "double"} THEN 2 ELSE 1
MCBudget(g) == IF g.at.board = Meeting.board THEN 7 ELSE 5

=============================================================================
