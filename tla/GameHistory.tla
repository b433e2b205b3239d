----------------------------- MODULE GameHistory -----------------------------
(***************************************************************************)
(* A Position with its history (src/src/movegen.hpp): making a move and    *)
(* taking it back, the castling rights, the en passant square and the      *)
(* half-move clock, the keys that repetitions are counted by and the       *)
(* frames LD2 reads; the draws by rule and the proof contexts that         *)
(* search.cpp derives from them. A key is the identity of the position it  *)
(* was computed from. The move number, which nothing reads, is left out.   *)
(***************************************************************************)
EXTENDS MoveGen, SequencesExt

CONSTANTS
  FrameLimit,   \* LEELA_HISTORY_FRAMES: 8
  DrawClock,    \* the half-move clock of a draw: 100
  NoGame, NoFrame

Right == Color \X Castles
Identity == [board: [Square -> Piece \cup {Empty}], side: Color,
             rights: SUBSET Right, ep: Square \cup {NoSquare}]
Frame == [board: [Square -> Piece \cup {Empty}], repeated: BOOLEAN]
Game == [at: Position, rights: SUBSET Right, ep: Square \cup {NoSquare}, clock: Nat,
         keys: Seq(Identity), frames: Seq(Frame)]

ASSUME HistoryAssumption ==
  FrameLimit \in Nat \ {0} /\ DrawClock \in Nat /\ NoFrame \notin Frame /\ NoGame \notin Game

KeyOf(g) == [board |-> g.at.board, side |-> g.at.side, rights |-> g.rights, ep |-> g.ep]

-----------------------------------------------------------------------------
\* Repetitions and draws.

\* Half-moves that can be looked back on.
Reversible(g) == IF g.clock <= Len(g.keys) - 1 THEN g.clock ELSE Len(g.keys) - 1

\* Fault: the look back ends one half-move early.
RepetitionCountShort(g) ==
  Cardinality({back \in 2..(Reversible(g) - 1) :
                 back % 2 = 0 /\ g.keys[Len(g.keys) - back] = KeyOf(g)})

\* repetition_count: earlier positions like this one with the same side to move.
RepetitionCount(g) ==
  Cardinality({back \in 2..Reversible(g) :
                 back % 2 = 0 /\ g.keys[Len(g.keys) - back] = KeyOf(g)})

InsufficientMaterial(board) ==
  LET Men(types) == {s \in Square : board[s][2] \in types}
      bishops == Men({"bishop"})
  IN  /\ Men({"pawn", "rook", "queen"}) = {}
      /\ \/ Cardinality(Men({"knight", "bishop"})) <= 1
         \/ /\ Men({"knight"}) = {}
            /\ \A s, t \in bishops : (File(s) + Rank(s)) % 2 = (File(t) + Rank(t)) % 2

DrawByRule(g, atRoot) ==
  \/ g.clock >= DrawClock
  \/ RepetitionCount(g) >= IF atRoot THEN 2 ELSE 1
  \/ InsufficientMaterial(g.at.board)

-----------------------------------------------------------------------------
\* make_move and undo_move.

\* clear_castling_by_square.
RightsOf(s) == {x \in Right : s \in {CastleKing[x[1]][x[2]].from, CastleRook[x[1]][x[2]].from}}

\* The StateInfo of a move.
Info(g, m) ==
  [rights |-> g.rights, ep |-> g.ep, clock |-> g.clock, moved |-> g.at.board[m.from],
   captured |-> g.at.board[CapturedSq(g.at, m)], capturedSq |-> CapturedSq(g.at, m),
   history |-> Len(g.keys), frames |-> Len(g.frames), dropped |-> NoFrame]

\* The square a double step can be taken on, if a pawn stands there to take.
DoubleEp(g, m) ==
  LET ep == m.from + Forward(g.at.side) * Width
  IN  IF m.kind = "double" /\ Capturable(MakeMove(g.at, m).board, ep, Them(g.at.side))
      THEN ep ELSE NoSquare

\* Fault: a captured rook leaves the right to castle with it.
MovedKeepingRights(g, m) ==
  LET st == Info(g, m)
  IN  [g EXCEPT !.at = MakeMove(g.at, m),
                !.rights = @ \ RightsOf(m.from),
                !.ep = DoubleEp(g, m),
                !.clock = IF st.moved[2] = "pawn" \/ st.captured # Empty THEN 0 ELSE @ + 1]

\* make_move up to its test of the king it must not leave in check.
Moved(g, m) ==
  LET st == Info(g, m)
      taken == IF st.captured # Empty THEN RightsOf(st.capturedSq) ELSE {}
  IN  [g EXCEPT !.at = MakeMove(g.at, m),
                !.rights = @ \ (RightsOf(m.from) \cup taken),
                !.ep = DoubleEp(g, m),
                !.clock = IF st.moved[2] = "pawn" \/ st.captured # Empty THEN 0 ELSE @ + 1]

\* What it does last: the key, then append_leela_history.
Recorded(g) ==
  LET next == [g EXCEPT !.keys = Append(@, KeyOf(g))]
      frame == [board |-> g.at.board, repeated |-> RepetitionCount(next) > 0]
  IN  [next EXCEPT !.frames = Append(IF Len(@) = FrameLimit THEN Tail(@) ELSE @, frame)]

Dropped(g, st) == [st EXCEPT !.dropped = IF Len(g.frames) = FrameLimit THEN Head(g.frames) ELSE NoFrame]

\* The board of undo_move: the castling rook returns, then the mover, then its victim.
UndoBoard(pos, m, st) ==
  LET us == Them(pos.side)
      rook == CastleRook[us][m.kind]
      uncastled == IF m.kind \in Castles
                   THEN [pos.board EXCEPT ![rook.to] = Empty, ![rook.from] = pos.board[rook.to]]
                   ELSE pos.board
      back == [uncastled EXCEPT ![m.to] = Empty, ![m.from] = st.moved]
  IN  [board |-> IF st.captured # Empty THEN [back EXCEPT ![st.capturedSq] = st.captured] ELSE back,
       king |-> IF st.moved[2] = "king" THEN [pos.king EXCEPT ![us] = m.from] ELSE pos.king,
       side |-> us]

\* Fault: the frame that was dropped does not return.
UndoWithoutFrame(g, m, st) ==
  [at |-> UndoBoard(g.at, m, st), rights |-> st.rights, ep |-> st.ep, clock |-> st.clock,
   keys |-> SubSeq(g.keys, 1, st.history), frames |-> SubSeq(g.frames, 1, st.frames)]

\* undo_move.
Undo(g, m, st) ==
  [at |-> UndoBoard(g.at, m, st), rights |-> st.rights, ep |-> st.ep, clock |-> st.clock,
   keys |-> SubSeq(g.keys, 1, st.history),
   frames |-> SubSeq(IF st.dropped # NoFrame THEN <<st.dropped>> \o g.frames ELSE g.frames,
                     1, st.frames)]

\* A castling king that starts or crosses in check, and a king left in check.
Barred(g, m) ==
  /\ m.kind \in Castles
  /\ \/ Attacked(g.at.board, m.from, Them(g.at.side))
     \/ Attacked([g.at.board EXCEPT ![m.from] = Empty], CastleRook[g.at.side][m.kind].to,
                 Them(g.at.side))

Exposed(g, m) ==
  LET after == MakeMove(g.at, m) IN Attacked(after.board, after.king[g.at.side], after.side)

Succeeds(g, m) == ~Barred(g, m) /\ ~Exposed(g, m)

\* make_move: its result is Succeeds.
Make(g, m) ==
  CASE Barred(g, m) -> g
    [] Exposed(g, m) /\ ~Barred(g, m) -> Undo(Moved(g, m), m, Info(g, m))
    [] OTHER -> Recorded(Moved(g, m))

\* generate_legal: the moves that succeed, each tried on the position itself.
Pseudo(g) == PseudoLegal(g.at, g.rights, g.ep)
Legal(g) == {m \in Pseudo(g) : Succeeds(g, m)}
Probed(g) ==
  LET Try(m, h) == IF Succeeds(h, m) THEN Undo(Make(h, m), m, Dropped(h, Info(h, m))) ELSE Make(h, m)
  IN  FoldSet(Try, g, Pseudo(g))

-----------------------------------------------------------------------------
\* position.

\* What set_fen accepts. The rights it checks say nothing of who is in check.
WellFormed(f) ==
  LET King(c) == {s \in Square : f.board[s] = <<c, "king">>}
      pushed == f.ep - Forward(f.side) * Width
  IN  /\ \A c \in Color : Cardinality(King(c)) = 1
      /\ \A s \in Square : f.board[s][2] = "pawn" => Rank(s) \notin {0, Height - 1}
      /\ \A x \in f.rights : /\ f.board[CastleKing[x[1]][x[2]].from] = <<x[1], "king">>
                            /\ f.board[CastleRook[x[1]][x[2]].from] = <<x[1], "rook">>
      /\ f.ep # NoSquare =>
           /\ Rank(f.ep) = ThirdRank(Them(f.side)) /\ f.board[f.ep] = Empty
           /\ f.board[pushed] = <<Them(f.side), "pawn">>

\* What a GUI may send: typed fields, and a king that cannot be taken at once.
Proper(f) ==
  /\ f.board \in [Square -> Piece \cup {Empty}] /\ f.side \in Color /\ f.rights \in SUBSET Right
  /\ f.ep \in Square \cup {NoSquare} /\ f.clock \in Nat
  /\ \A s \in Square : f.board[s] = <<Them(f.side), "king">> => ~Attacked(f.board, s, f.side)

\* set_fen: an en passant square is kept if a pawn can take there.
SetFen(f) ==
  LET at == [board |-> f.board, side |-> f.side,
             king |-> [c \in Color |-> CHOOSE s \in Square : f.board[s] = <<c, "king">>]]
      ep == IF f.ep # NoSquare /\ Capturable(f.board, f.ep, f.side) THEN f.ep ELSE NoSquare
      g == [at |-> at, rights |-> f.rights, ep |-> ep, clock |-> f.clock, keys |-> << >>,
            frames |-> <<[board |-> f.board, repeated |-> FALSE]>>]
  IN  IF WellFormed(f) THEN [g EXCEPT !.keys = <<KeyOf(g)>>] ELSE NoGame

\* set_position's loop over the moves, each parsed among the legal ones.
Positioned(c) ==
  LET Play(g, m) == IF g = NoGame \/ m \notin Legal(g) THEN NoGame ELSE Make(Probed(g), m)
  IN  FoldLeft(Play, SetFen(c.fen), c.moves)

-----------------------------------------------------------------------------
\* Proof contexts.

ReversibleKeys(g) == SubSeq(g.keys, Len(g.keys) - Reversible(g), Len(g.keys))

\* Fault: positions are told apart by key and clock alone.
SameContextByKey(a, b) == KeyOf(a) = KeyOf(b) /\ a.clock = b.clock

\* same_proof_context.
SameContext(a, b) ==
  /\ KeyOf(a) = KeyOf(b) /\ a.clock = b.clock
  /\ ReversibleKeys(a) = ReversibleKeys(b)
  /\ a.frames = b.frames

=============================================================================
