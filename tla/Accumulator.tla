----------------------------- MODULE Accumulator -----------------------------
(***************************************************************************)
(* The incrementally updated input layer of the Berserk network            *)
(* (src/src/nnue_berserk.cpp) against a full rebuild, and the part of      *)
(* Position::make_move (src/src/movegen.hpp) that it follows.              *)
(*                                                                         *)
(* A view's values are the biases plus the weights of its features, added  *)
(* and subtracted modulo 2^16. Here they are how often each feature has    *)
(* been added, a feature being a piece, its square and the view's king     *)
(* square: equal counts give equal values whatever the weights. A feature  *)
(* counted zero times is left out.                                         *)
(***************************************************************************)
EXTENDS Integers

CONSTANTS
  Square,
  Type,         \* the piece types of the board
  Behind,       \* Behind[c][s]: the square of the pawn that c takes en passant on s
  CastleRook    \* CastleRook[c][kind]: the squares the castling rook leaves and takes

Color == {"white", "black"}
Piece == Color \X Type
Empty == <<"no color", "no type">>

Castles == {"king castle", "queen castle"}
Kind == {"plain", "double", "promotion", "en passant"} \cup Castles

ASSUME BoardAssumption ==
  /\ {"pawn", "rook", "king"} \subseteq Type /\ "no type" \notin Type
  /\ Behind \in [Color -> [Square -> Square]]
  /\ CastleRook \in [Color -> [Castles -> [from: Square, to: Square]]]

Position == [board: [Square -> Piece \cup {Empty}], king: [Color -> Square], side: Color]
Move == [from: Square, to: Square, kind: Kind, promotion: Type]

Them(c) == IF c = "white" THEN "black" ELSE "white"

-----------------------------------------------------------------------------

CapturedSq(pos, m) == IF m.kind = "en passant" THEN Behind[pos.side][m.to] ELSE m.to

\* What make_move is called with: its assertions and what the generator pushes.
Playable(pos, m) ==
  LET us == pos.side
      moved == pos.board[m.from]
      rook == CastleRook[us][m.kind]
  IN  /\ m.from # m.to
      /\ moved[1] = us /\ pos.board[m.to][1] # us
      /\ m.kind = "promotion" => moved[2] = "pawn" /\ m.promotion # "king"
      /\ m.kind = "en passant" =>
           /\ moved[2] = "pawn" /\ pos.board[m.to] = Empty
           /\ pos.board[CapturedSq(pos, m)] = <<Them(us), "pawn">>
      /\ m.kind \in Castles =>
           /\ moved[2] = "king" /\ pos.board[m.to] = Empty
           /\ pos.board[rook.from] = <<us, "rook">>
           /\ pos.board[rook.to] = Empty /\ rook.to # m.to

\* make_move, on the board: the mover and its victim leave, the mover or what it
\* promotes to arrives, and the castling rook jumps.
MakeMove(pos, m) ==
  LET us == pos.side
      moved == pos.board[m.from]
      rook == CastleRook[us][m.kind]
      cleared == [pos.board EXCEPT ![m.from] = Empty, ![CapturedSq(pos, m)] = Empty]
      placed == [cleared EXCEPT ![m.to] = IF m.kind = "promotion" THEN <<us, m.promotion>> ELSE moved]
  IN  [board |-> IF m.kind \in Castles
                 THEN [placed EXCEPT ![rook.from] = Empty, ![rook.to] = placed[rook.from]]
                 ELSE placed,
       king |-> IF moved[2] = "king" THEN [pos.king EXCEPT ![us] = m.to] ELSE pos.king,
       side |-> Them(us)]

-----------------------------------------------------------------------------

Feature == Piece \X Square \X Square

\* rebuild_view, for both views: refresh.
Rebuild(pos, view) ==
  [f \in {<<pos.board[s], s, pos.king[view]>> : s \in {t \in Square : pos.board[t] # Empty}} |-> 1]

Refresh(pos) == [view \in Color |-> Rebuild(pos, view)]

Count(values, f) == IF f \in DOMAIN values THEN values[f] ELSE 0

\* A feature's weights added n times.
Adjusted(values, f, n) ==
  LET Next(g) == Count(values, g) + (IF g = f THEN n ELSE 0)
  IN  [g \in {g \in DOMAIN values \cup {f} : Next(g) # 0} |-> Next(g)]

\* adjust_piece_feature, adding and removing.
Add(values, pc, s, king) == IF pc = Empty THEN values ELSE Adjusted(values, <<pc, s, king>>, 1)

Drop(values, pc, s, king) == IF pc = Empty THEN values ELSE Adjusted(values, <<pc, s, king>>, -1)

\* The differences one move makes to a view whose king stays.
Updated(values, pos, m, king) ==
  LET after == MakeMove(pos, m)
      rook == CastleRook[pos.side][m.kind]
      left == Drop(values, pos.board[m.from], m.from, king)
      taken == Drop(left, pos.board[CapturedSq(pos, m)], CapturedSq(pos, m), king)
      arrived == Add(taken, after.board[m.to], m.to, king)
  IN  IF m.kind \in Castles
      THEN Add(Drop(arrived, <<pos.side, "rook">>, rook.from, king),
               after.board[rook.to], rook.to, king)
      ELSE arrived

\* apply_move: the view of a king that moved is rebuilt, every other updated.
ApplyMove(acc, pos, m) ==
  LET after == MakeMove(pos, m)
  IN  [view \in Color |->
         IF pos.board[m.from][2] = "king" /\ view = pos.side
         THEN Rebuild(after, view)
         ELSE Updated(acc[view], pos, m, after.king[view])]

=============================================================================
