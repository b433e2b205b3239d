------------------------------- MODULE MoveGen -------------------------------
(***************************************************************************)
(* Attacks and pseudo-legal moves (src/src/movegen.hpp) on a board of any  *)
(* width and height. The source's bitboards are sets of squares, its       *)
(* shifts and magic tables the squares a step or a slide reaches.          *)
(***************************************************************************)
EXTENDS Accumulator

CONSTANTS
  Width, Height,  \* 8 and 8; square r * Width + f is on file f and rank r
  CastleKing      \* CastleKing[c][kind]: the squares the castling king leaves and
                  \* takes, and those that must be empty

ASSUME GeometryAssumption ==
  /\ Width \in Nat \ {0} /\ Height \in Nat /\ Height >= 5
  /\ Square = 0..(Width * Height - 1)
  /\ CastleKing \in [Color -> [Castles -> [from: Square, to: Square, clear: SUBSET Square]]]
  /\ \A c \in Color : \A k \in Castles :
       /\ {CastleKing[c][k].to, CastleRook[c][k].to} \subseteq CastleKing[c][k].clear
       /\ CastleKing[c][k].to # CastleRook[c][k].to
  /\ \A c \in Color : \A s \in Square :
       LET t == IF c = "white" THEN s - Width ELSE s + Width IN t \in Square => Behind[c][s] = t
  /\ Type \subseteq {"pawn", "knight", "bishop", "rook", "queen", "king"}

NoSquare == -1

File(s) == s % Width
Rank(s) == s \div Width

\* The square d[1] files and d[2] ranks away, or none.
Leap(s, d) ==
  LET f == File(s) + d[1]
      r == Rank(s) + d[2]
  IN  IF f \in 0..(Width - 1) /\ r \in 0..(Height - 1) THEN {r * Width + f} ELSE {}

Straight == {<<1, 0>>, <<-1, 0>>, <<0, 1>>, <<0, -1>>}
Diagonal == {<<1, 1>>, <<1, -1>>, <<-1, 1>>, <<-1, -1>>}
Hops == {-1, 1} \X {-2, 2} \cup {-2, 2} \X {-1, 1}

\* The square k steps along a ray, and whether a slider sees as far as that.
Ray(s, d, k) == Leap(s, <<k * d[1], k * d[2]>>)
Sees(board, s, d, k) == \A j \in 1..(k - 1) : \A t \in Ray(s, d, j) : board[t] = Empty

\* ray_attacks_from: what a slider sees, up to the first piece on each ray.
Slide(board, s, rays) ==
  UNION {UNION {Ray(s, d, k) : k \in {k \in 1..(Width + Height) : Sees(board, s, d, k)}} : d \in rays}

Targets(board, s, pt) ==
  CASE pt = "knight" -> UNION {Leap(s, d) : d \in Hops}
    [] pt = "king" -> UNION {Leap(s, d) : d \in Straight \cup Diagonal}
    [] pt = "bishop" -> Slide(board, s, Diagonal)
    [] pt = "rook" -> Slide(board, s, Straight)
    [] pt = "queen" -> Slide(board, s, Straight \cup Diagonal)

Forward(c) == IF c = "white" THEN 1 ELSE -1
PawnHits(c, s) == Leap(s, <<-1, Forward(c)>>) \cup Leap(s, <<1, Forward(c)>>)

\* square_attacked_by: from a square, the pieces look back at their attackers.
Attacked(board, s, by) ==
  \/ \E t \in PawnHits(Them(by), s) : board[t] = <<by, "pawn">>
  \/ \E pt \in Type \ {"pawn"} : \E t \in Targets(board, s, pt) : board[t] = <<by, pt>>

\* A pawn of that colour could take en passant on this square.
Capturable(board, ep, by) == \E t \in PawnHits(Them(by), ep) : board[t] = <<by, "pawn">>

-----------------------------------------------------------------------------

Plain(from, to) == [from |-> from, to |-> to, kind |-> "plain", promotion |-> "pawn"]

LastRank(c) == IF c = "white" THEN Height - 1 ELSE 0
ThirdRank(c) == IF c = "white" THEN 2 ELSE Height - 3

\* add_normal_or_promo.
Arrivals(c, s, t) ==
  IF Rank(t) # LastRank(c) THEN {Plain(s, t)}
  ELSE {[Plain(s, t) EXCEPT !.kind = "promotion", !.promotion = pt] : pt \in Type \ {"pawn", "king"}}

Own(pos, types) == {s \in Square : pos.board[s][1] = pos.side /\ pos.board[s][2] \in types}

PawnMoves(pos, ep) ==
  LET us == pos.side
      Push(s) == {t \in Leap(s, <<0, Forward(us)>>) : pos.board[t] = Empty}
      Takes(s) == {t \in PawnHits(us, s) : pos.board[t][1] = Them(us)}
      Moves(s) ==
        (UNION {Arrivals(us, s, t) : t \in Push(s) \cup Takes(s)})
          \cup {[Plain(s, t) EXCEPT !.kind = "double"] :
                  t \in UNION {Push(u) : u \in {v \in Push(s) : Rank(v) = ThirdRank(us)}}}
          \cup {[Plain(s, t) EXCEPT !.kind = "en passant"] : t \in PawnHits(us, s) \cap {ep}}
  IN  UNION {Moves(s) : s \in Own(pos, {"pawn"})}

PieceMoves(pos) ==
  UNION {{Plain(s, t) : t \in {t \in Targets(pos.board, s, pos.board[s][2]) :
                                 pos.board[t][1] # pos.side}} :
           s \in Own(pos, Type \ {"pawn"})}

\* generate_castling_moves: the king neither starts, crosses nor ends in check, the
\* square it crosses seen through the one it left.
CastlingMoves(pos, rights) ==
  LET us == pos.side
      Clear(kind) ==
        LET king == CastleKing[us][kind]
            rook == CastleRook[us][kind]
        IN  /\ <<us, kind>> \in rights
            /\ pos.board[king.from] = <<us, "king">> /\ pos.board[rook.from] = <<us, "rook">>
            /\ \A s \in king.clear : pos.board[s] = Empty
            /\ ~Attacked(pos.board, king.from, Them(us))
            /\ ~Attacked([pos.board EXCEPT ![king.from] = Empty], rook.to, Them(us))
            /\ ~Attacked(pos.board, king.to, Them(us))
  IN  {[Plain(CastleKing[us][k].from, CastleKing[us][k].to) EXCEPT !.kind = k] :
         k \in {k \in Castles : Clear(k)}}

\* generate_pseudo_legal.
PseudoLegal(pos, rights, ep) == PawnMoves(pos, ep) \cup PieceMoves(pos) \cup CastlingMoves(pos, rights)

=============================================================================
