------------------------- MODULE GameHistory_proofs -------------------------
(***************************************************************************)
(* Games of any length on any board of the geometry MoveGen assumes: what  *)
(* is generated is what make_move asserts, a legal move leads from one     *)
(* position that could be set up to another, trying a move and taking it   *)
(* back changes nothing, and positions of one proof context are told apart *)
(* by nothing a search asks of them. The first part is the accumulator: an *)
(* incremental update equals a full rebuild. The second is the geometry:   *)
(* what a piece sees is seen back from there. The third shows of every     *)
(* kind of move what it is made of; the fourth, one part of Honest after   *)
(* another, that a move that does not leave its king in check keeps it:    *)
(* also that its history remembers all it should, since what a move makes  *)
(* lighter never weighs as much again.                                     *)
(***************************************************************************)
EXTENDS GameHistory, FiniteSetTheorems, WellFoundedInduction, TLAPS

-----------------------------------------------------------------------------
\* The accumulator: the incremental update equals a full rebuild, for every
\* set of squares, every board on it and every playable move.

\* The values of a view, what a square holds, and a view that differs from
\* another by n in the count of one piece's feature.
Counts ==
  {v \in UNION {[D -> Int] : D \in SUBSET Feature} : \A f \in DOMAIN v : v[f] # 0}
Content == Piece \cup {Empty}
Differs(next, values, pc, s, king, n) ==
  \A f \in Feature :
    Count(next, f) =
      IF f[1] = pc /\ f[2] = s /\ f[3] = king THEN Count(values, f) + n ELSE Count(values, f)

\* Values are told apart by their counts.
LEMMA SameCounts ==
  ASSUME NEW v \in Counts, NEW w \in Counts, \A f \in Feature : Count(v, f) = Count(w, f)
  PROVE  v = w
<1>1. /\ v \in [DOMAIN v -> Int] /\ DOMAIN v \subseteq Feature /\ \A f \in DOMAIN v : v[f] # 0
      /\ w \in [DOMAIN w -> Int] /\ DOMAIN w \subseteq Feature /\ \A f \in DOMAIN w : w[f] # 0
  BY DEF Counts
<1>2. DOMAIN v = DOMAIN w
  BY <1>1 DEF Count
<1>3. \A f \in DOMAIN v : v[f] = w[f]
  BY <1>1, <1>2 DEF Count
<1> QED  BY <1>1, <1>2, <1>3

LEMMA CountIsInt == ASSUME NEW v \in Counts, NEW f PROVE Count(v, f) \in Int
BY DEF Counts, Count

LEMMA AdjustedAt ==
  ASSUME NEW v \in Counts, NEW f \in Feature, NEW n \in Int
  PROVE  /\ Adjusted(v, f, n) \in Counts
         /\ \A g \in Feature : Count(Adjusted(v, f, n), g) = Count(v, g) + (IF g = f THEN n ELSE 0)
<1> DEFINE total == [g \in Feature \cup DOMAIN v |-> Count(v, g) + (IF g = f THEN n ELSE 0)]
           D == {g \in DOMAIN v \cup {f} : total[g] # 0}
           w == [g \in D |-> total[g]]
<1>1. DOMAIN v \subseteq Feature
  BY DEF Counts
<1>2. Adjusted(v, f, n) = w
  <2>1. DOMAIN v \cup {f} \subseteq Feature \cup DOMAIN v
    OBVIOUS
  <2>2. D = {g \in DOMAIN v \cup {f} : Count(v, g) + (IF g = f THEN n ELSE 0) # 0}
    BY <2>1
  <2> QED  BY <2>1, <2>2 DEF Adjusted
<1>3. \A g \in Feature : /\ total[g] \in Int
                         /\ g \notin DOMAIN v \cup {f} => total[g] = 0
                         /\ total[g] = Count(v, g) + (IF g = f THEN n ELSE 0)
  BY CountIsInt DEF Count
<1> HIDE DEF total
<1>4. D \in SUBSET Feature /\ w \in [D -> Int] /\ DOMAIN w = D /\ \A g \in D : w[g] = total[g] /\ w[g] # 0
  BY <1>1, <1>3
<1>5. w \in Counts
  BY <1>4 DEF Counts
<1>6. \A g \in Feature : Count(w, g) = total[g]
  BY <1>3, <1>4 DEF Count
<1> QED  BY <1>2, <1>3, <1>5, <1>6

LEMMA EmptyIsNoPiece == Empty \notin Piece /\ \A c \in Color : Empty[1] # c
BY BoardAssumption DEF Empty, Piece, Color

\* adjust_piece_feature changes one count, and none for an empty square.
LEMMA AddAt ==
  ASSUME NEW values \in Counts, NEW pc \in Content, NEW s \in Square, NEW king \in Square
  PROVE  /\ Add(values, pc, s, king) \in Counts
         /\ Differs(Add(values, pc, s, king), values, pc, s, king, 1)
<1> USE DEF Content, Differs
<1>1. \A f \in Feature : /\ f[1] \in Piece /\ f[2] \in Square /\ f[3] \in Square
                         /\ f = <<f[1], f[2], f[3]>>
  BY DEF Feature
<1>2. CASE pc = Empty
  BY <1>1, <1>2, EmptyIsNoPiece DEF Add
<1>3. CASE pc # Empty
  <2>1. <<pc, s, king>> \in Feature
    BY <1>3 DEF Feature
  <2>2. Add(values, pc, s, king) = Adjusted(values, <<pc, s, king>>, 1)
    BY <1>3 DEF Add
  <2>3. \A f \in Feature : f = <<pc, s, king>> <=> f[1] = pc /\ f[2] = s /\ f[3] = king
    BY <1>1
  <2>4. \A f \in Feature : Count(values, f) \in Int
    BY CountIsInt
  <2> QED
    <3>1. /\ Adjusted(values, <<pc, s, king>>, 1) \in Counts
          /\ \A g \in Feature : Count(Adjusted(values, <<pc, s, king>>, 1), g)
                              = Count(values, g) + (IF g = <<pc, s, king>> THEN 1 ELSE 0)
      BY <2>1, AdjustedAt
    <3> QED  BY <2>2, <2>3, <2>4, <3>1
<1> QED
  BY <1>2, <1>3

LEMMA DropAt ==
  ASSUME NEW values \in Counts, NEW pc \in Content, NEW s \in Square, NEW king \in Square
  PROVE  /\ Drop(values, pc, s, king) \in Counts
         /\ Differs(Drop(values, pc, s, king), values, pc, s, king, -1)
<1> USE DEF Content, Differs
<1>1. \A f \in Feature : /\ f[1] \in Piece /\ f[2] \in Square /\ f[3] \in Square
                         /\ f = <<f[1], f[2], f[3]>>
  BY DEF Feature
<1>2. CASE pc = Empty
  BY <1>1, <1>2, EmptyIsNoPiece DEF Drop
<1>3. CASE pc # Empty
  <2>1. <<pc, s, king>> \in Feature
    BY <1>3 DEF Feature
  <2>2. Drop(values, pc, s, king) = Adjusted(values, <<pc, s, king>>, -1)
    BY <1>3 DEF Drop
  <2>3. \A f \in Feature : f = <<pc, s, king>> <=> f[1] = pc /\ f[2] = s /\ f[3] = king
    BY <1>1
  <2>4. \A f \in Feature : Count(values, f) \in Int
    BY CountIsInt
  <2> QED
    <3>1. /\ Adjusted(values, <<pc, s, king>>, -1) \in Counts
          /\ \A g \in Feature : Count(Adjusted(values, <<pc, s, king>>, -1), g)
                              = Count(values, g) + (IF g = <<pc, s, king>> THEN -1 ELSE 0)
      BY <2>1, AdjustedAt
    <3> QED  BY <2>2, <2>3, <2>4, <3>1
<1> QED
  BY <1>2, <1>3

\* What a playable move leaves on the squares it touches, and on the others.
LEMMA PlainBoard ==
  ASSUME NEW pos \in Position, NEW m \in Move, Playable(pos, m), m.kind \notin Castles
  PROVE  LET after == MakeMove(pos, m)
             taken == CapturedSq(pos, m)
         IN  /\ taken \in Square /\ taken # m.from
             /\ taken # m.to => pos.board[m.to] = Empty
             /\ after.board[m.from] = Empty
             /\ after.board[m.to] \in Piece
             /\ taken # m.to => after.board[taken] = Empty
             /\ \A s \in Square \ {m.from, m.to, taken} : after.board[s] = pos.board[s]
<1> DEFINE us == pos.side
           moved == pos.board[m.from]
           taken == CapturedSq(pos, m)
           arriving == IF m.kind = "promotion" THEN <<us, m.promotion>> ELSE moved
<1>1. /\ pos.board \in [Square -> Piece \cup {Empty}] /\ us \in Color
      /\ m.from \in Square /\ m.to \in Square /\ m.promotion \in Type
  BY DEF Position, Move
<1>2. m.from # m.to /\ moved[1] = us /\ moved \in Piece
  BY <1>1, EmptyIsNoPiece DEF Playable
<1>3. arriving \in Piece
  BY <1>1, <1>2 DEF Piece
<1>4. taken \in Square /\ taken # m.from /\ (taken # m.to => pos.board[m.to] = Empty)
  <2>1. CASE m.kind = "en passant"
    <3>1. taken = Behind[us][m.to] /\ pos.board[taken] = <<Them(us), "pawn">> /\ pos.board[m.to] = Empty
      BY <2>1 DEF CapturedSq, Playable
    <3>2. Them(us) # us
      BY <1>1 DEF Them, Color
    <3>3. taken \in Square
      <4>1. Behind \in [Color -> [Square -> Square]]
        BY BoardAssumption
      <4> QED  BY <1>1, <3>1, <4>1
    <3> QED
      BY <1>2, <3>1, <3>2, <3>3
  <2>2. CASE m.kind # "en passant"
    BY <1>1, <1>2, <2>2 DEF CapturedSq
  <2> QED
    BY <2>1, <2>2
<1>5. MakeMove(pos, m).board =
        [[pos.board EXCEPT ![m.from] = Empty, ![taken] = Empty] EXCEPT ![m.to] = arriving]
  BY DEF MakeMove
<1> HIDE DEF taken, arriving
<1>6. /\ MakeMove(pos, m).board[m.from] = Empty
      /\ MakeMove(pos, m).board[m.to] = arriving
      /\ taken # m.to => MakeMove(pos, m).board[taken] = Empty
      /\ \A s \in Square \ {m.from, m.to, taken} : MakeMove(pos, m).board[s] = pos.board[s]
  BY <1>1, <1>2, <1>4, <1>5
<1> QED
  BY <1>3, <1>4, <1>6 DEF taken

\* The same of castling, where nothing is taken and the rook moves too.
LEMMA CastleBoard ==
  ASSUME NEW pos \in Position, NEW m \in Move, Playable(pos, m), m.kind \in Castles
  PROVE  LET after == MakeMove(pos, m)
             rook == CastleRook[pos.side][m.kind]
         IN  /\ rook.from \in Square /\ rook.to \in Square
             /\ m.from # m.to /\ rook.from \notin {m.from, m.to} /\ rook.to \notin {m.from, m.to, rook.from}
             /\ CapturedSq(pos, m) = m.to /\ pos.board[m.to] = Empty /\ pos.board[rook.to] = Empty
             /\ pos.board[m.from] \in Piece
             /\ pos.board[rook.from] = <<pos.side, "rook">> /\ <<pos.side, "rook">> \in Piece
             /\ after.board[m.from] = Empty /\ after.board[rook.from] = Empty
             /\ after.board[m.to] = pos.board[m.from] /\ after.board[rook.to] = <<pos.side, "rook">>
             /\ \A s \in Square \ {m.from, m.to, rook.from, rook.to} : after.board[s] = pos.board[s]
<1> DEFINE us == pos.side
           moved == pos.board[m.from]
           rook == CastleRook[us][m.kind]
           walked == [[pos.board EXCEPT ![m.from] = Empty, ![m.to] = Empty] EXCEPT ![m.to] = moved]
<1>1. /\ pos.board \in [Square -> Piece \cup {Empty}] /\ us \in Color
      /\ m.from \in Square /\ m.to \in Square
  BY DEF Position, Move
<1>2. /\ m.from # m.to /\ moved[1] = us /\ moved[2] = "king" /\ pos.board[m.to] = Empty
      /\ pos.board[rook.from] = <<us, "rook">> /\ pos.board[rook.to] = Empty /\ rook.to # m.to
  BY DEF Playable
<1>3. CapturedSq(pos, m) = m.to /\ m.kind # "promotion"
  BY DEF CapturedSq, Castles
<1>4. moved \in Piece /\ moved # Empty /\ <<us, "rook">> \in Piece /\ <<us, "rook">> # Empty
  <2>1. moved \in Piece \cup {Empty} /\ moved # Empty
    BY <1>1, <1>2, EmptyIsNoPiece
  <2>2. moved \in Piece
    BY <2>1
  <2>3. <<us, "rook">> \in Piece
    BY <1>1, BoardAssumption DEF Piece
  <2>4. <<us, "rook">> # Empty
    BY <2>3, EmptyIsNoPiece
  <2> QED
    BY <2>1, <2>2, <2>3, <2>4
<1>5. rook.from \in Square /\ rook.to \in Square
  <2>1. rook \in [from: Square, to: Square]
    <3>1. CastleRook \in [Color -> [Castles -> [from: Square, to: Square]]]
      BY BoardAssumption, Zenon
    <3> DEFINE S == [from: Square, to: Square]
    <3>2. \A f \in [Color -> [Castles -> S]] : f[us][m.kind] \in S
      <4> HIDE DEF S
      <4> QED BY <1>1
    <3> QED BY <3>1, <3>2, Zenon
  <2> QED
    BY <2>1
<1>6. rook.from \notin {m.from, m.to} /\ rook.to \notin {m.from, m.to, rook.from}
  <2>1. <<us, "rook">>[2] # "king"
    OBVIOUS
  <2> QED
    BY <1>2, <1>4, <2>1
<1>7. MakeMove(pos, m).board = [walked EXCEPT ![rook.from] = Empty, ![rook.to] = walked[rook.from]]
  BY <1>3 DEF MakeMove
<1> HIDE DEF rook
<1>8. /\ walked \in [Square -> Piece \cup {Empty}]
      /\ walked[m.from] = Empty /\ walked[m.to] = moved /\ walked[rook.from] = <<us, "rook">>
      /\ \A s \in Square \ {m.from, m.to} : walked[s] = pos.board[s]
  BY <1>1, <1>2, <1>4, <1>5, <1>6
<1> HIDE DEF walked
<1>9. /\ MakeMove(pos, m).board[m.from] = Empty /\ MakeMove(pos, m).board[rook.from] = Empty
      /\ MakeMove(pos, m).board[m.to] = moved /\ MakeMove(pos, m).board[rook.to] = <<us, "rook">>
      /\ \A s \in Square \ {m.from, m.to, rook.from, rook.to} : MakeMove(pos, m).board[s] = pos.board[s]
  BY <1>1, <1>5, <1>6, <1>7, <1>8
<1> QED
  BY <1>2, <1>3, <1>4, <1>5, <1>6, <1>9 DEF rook

\* A rebuilt view is made of integers, and MakeMove gives squares to the kings.
LEMMA RebuildType ==
  ASSUME NEW pos, NEW view \in Color, pos.board \in [Square -> Piece \cup {Empty}],
         pos.king[view] \in Square
  PROVE  /\ Rebuild(pos, view) \in Counts
         /\ \A f \in Feature :
              Count(Rebuild(pos, view), f) =
                IF f[3] = pos.king[view] /\ pos.board[f[2]] = f[1] THEN 1 ELSE 0
<1> DEFINE king == pos.king[view]
           D == {<<pos.board[s], s, king>> : s \in {t \in Square : pos.board[t] # Empty}}
<1>1. Rebuild(pos, view) = [f \in D |-> 1]
  BY DEF Rebuild
<1>2. D \subseteq Feature
  BY DEF Feature
<1>3. \A f \in Feature : f \in D <=> f[3] = king /\ pos.board[f[2]] = f[1]
  <2>1. \A f \in Feature : /\ f[1] \in Piece /\ f[1] # Empty /\ f[2] \in Square
                           /\ f = <<f[1], f[2], f[3]>>
    BY EmptyIsNoPiece DEF Feature
  <2> QED  BY <2>1
<1> HIDE DEF D
<1>4. [f \in D |-> 1] \in Counts
  BY <1>2 DEF Counts
<1> QED  BY <1>1, <1>3, <1>4 DEF Count

LEMMA FeatureParts ==
  \A f \in Feature : f[1] \in Piece /\ f[1] # Empty /\ f[2] \in Square /\ f[3] \in Square
BY EmptyIsNoPiece DEF Feature

\* The differences of a move add up to the rebuilt view.
\* A playable move leads to a position.
LEMMA MovedType ==
  ASSUME NEW pos \in Position, NEW m \in Move, Playable(pos, m)
  PROVE  MakeMove(pos, m) \in Position
<1> DEFINE us == pos.side
           moved == pos.board[m.from]
           rook == CastleRook[us][m.kind]
           cleared == [pos.board EXCEPT ![m.from] = Empty, ![CapturedSq(pos, m)] = Empty]
           arriving == IF m.kind = "promotion" THEN <<us, m.promotion>> ELSE moved
           placed == [cleared EXCEPT ![m.to] = arriving]
<1>1. /\ pos.board \in [Square -> Piece \cup {Empty}] /\ us \in Color
      /\ pos.king \in [Color -> Square]
      /\ m.from \in Square /\ m.to \in Square /\ m.promotion \in Type
  BY DEF Position, Move
<1>2. moved \in Piece \cup {Empty} /\ arriving \in Piece \cup {Empty}
  BY <1>1 DEF Piece
<1>3. cleared \in [Square -> Piece \cup {Empty}]
  BY <1>1
<1> HIDE DEF cleared
<1>4. placed \in [Square -> Piece \cup {Empty}]
  BY <1>1, <1>2, <1>3
<1> HIDE DEF placed
<1>5. m.kind \in Castles => rook.from \in Square
  <2>1. CastleRook \in [Color -> [Castles -> [from: Square, to: Square]]]
    BY BoardAssumption
  <2>2. m.kind \in Castles => CastleRook[us][m.kind] \in [from: Square, to: Square]
    BY <1>1, <2>1
  <2> QED  BY <2>2
<1>6. MakeMove(pos, m).board \in [Square -> Piece \cup {Empty}]
  <2>1. MakeMove(pos, m).board =
          IF m.kind \in Castles
          THEN [placed EXCEPT ![rook.from] = Empty, ![rook.to] = placed[rook.from]] ELSE placed
    BY DEF MakeMove, placed, cleared
  <2>2. m.kind \in Castles => placed[rook.from] \in Piece \cup {Empty}
    BY <1>4, <1>5
  <2> QED  BY <1>4, <2>1, <2>2
<1>7. MakeMove(pos, m).king \in [Color -> Square]
  BY <1>1 DEF MakeMove
<1>8. MakeMove(pos, m).side \in Color
  BY DEF MakeMove, Them, Color
<1> QED  BY <1>6, <1>7, <1>8 DEF Position, MakeMove

LEMMA PlainUpdate ==
  ASSUME NEW pos \in Position, NEW m \in Move, Playable(pos, m), m.kind \notin Castles,
         NEW view \in Color, MakeMove(pos, m).king[view] = pos.king[view]
  PROVE  Updated(Rebuild(pos, view), pos, m, pos.king[view]) = Rebuild(MakeMove(pos, m), view)
<1> DEFINE before == pos.board
           after == MakeMove(pos, m).board
           king == pos.king[view]
           taken == CapturedSq(pos, m)
           values == Rebuild(pos, view)
           left == Drop(values, before[m.from], m.from, king)
           lighter == Drop(left, before[taken], taken, king)
           arrived == Add(lighter, after[m.to], m.to, king)
<1>0. /\ pos.board \in [Square -> Piece \cup {Empty}] /\ pos.king[view] \in Square
      /\ MakeMove(pos, m).board \in [Square -> Piece \cup {Empty}]
      /\ MakeMove(pos, m).king[view] \in Square
  BY MovedType DEF Position
<1>1a. before \in [Square -> Piece \cup {Empty}]
  BY DEF Position
<1>1. /\ king \in Square
      /\ m.from \in Square /\ m.to \in Square /\ m.from # m.to
  BY DEF Position, Move, Playable
<1>2. /\ taken \in Square /\ taken # m.from
      /\ taken # m.to => before[m.to] = Empty
      /\ after[m.from] = Empty /\ after[m.to] \in Piece
      /\ taken # m.to => after[taken] = Empty
      /\ \A s \in Square \ {m.from, m.to, taken} : after[s] = before[s]
  BY PlainBoard
<1>3. Updated(values, pos, m, king) = arrived
  BY DEF Updated
<1>3b. /\ left = Drop(values, before[m.from], m.from, king)
       /\ lighter = Drop(left, before[taken], taken, king)
       /\ arrived = Add(lighter, after[m.to], m.to, king)
  OBVIOUS
<1> HIDE DEF after, taken, left, lighter, arrived
<1>3a. values \in Counts /\ before[m.from] \in Content /\ before[taken] \in Content
  BY <1>0, <1>1a, <1>1, <1>2, RebuildType DEF Content
<1>3c. after[m.to] \in Content /\ taken \in Square
  BY <1>2 DEF Content
<1> HIDE DEF before, king, values
<1>4. left \in Counts /\ Differs(left, values, before[m.from], m.from, king, -1)
  BY <1>1, <1>3a, <1>3b, DropAt
<1>5. lighter \in Counts /\ Differs(lighter, left, before[taken], taken, king, -1)
  BY <1>1, <1>3a, <1>3b, <1>3c, <1>4, DropAt
<1>6. arrived \in Counts /\ Differs(arrived, lighter, after[m.to], m.to, king, 1)
  BY <1>1, <1>3b, <1>3c, <1>5, AddAt
<1>7. ASSUME NEW f \in Feature
      PROVE  Count(arrived, f) = IF f[3] = king /\ after[f[2]] = f[1] THEN 1 ELSE 0
  <2>0. /\ Count(left, f) = IF f[1] = before[m.from] /\ f[2] = m.from /\ f[3] = king THEN Count(values, f) - 1 ELSE Count(values, f)
        /\ Count(lighter, f) = IF f[1] = before[taken] /\ f[2] = taken /\ f[3] = king THEN Count(left, f) - 1 ELSE Count(left, f)
        /\ Count(arrived, f) = IF f[1] = after[m.to] /\ f[2] = m.to /\ f[3] = king THEN Count(lighter, f) + 1 ELSE Count(lighter, f)
    BY <1>4, <1>5, <1>6 DEF Differs
  <2>1. Count(values, f) = IF f[3] = king /\ before[f[2]] = f[1] THEN 1 ELSE 0
    BY <1>0, RebuildType DEF values, king, before
  <2>2. f[1] # Empty /\ f[2] \in Square
    BY FeatureParts
  <2>3. CASE f[2] = m.from
    BY <1>1, <1>2, <2>0, <2>1, <2>2, <2>3
  <2>4. CASE f[2] = m.to
    BY <1>1, <1>2, <2>0, <2>1, <2>2, <2>4
  <2>5. CASE f[2] = taken /\ f[2] # m.to
    BY <1>1, <1>2, <2>0, <2>1, <2>2, <2>5
  <2>6. CASE f[2] \notin {m.from, m.to, taken}
    BY <1>1, <1>2, <2>0, <2>1, <2>2, <2>6
  <2> QED
    BY <2>3, <2>4, <2>5, <2>6
<1>8. /\ Rebuild(MakeMove(pos, m), view) \in Counts
      /\ \A f \in Feature :
           Count(Rebuild(MakeMove(pos, m), view), f) = IF f[3] = king /\ after[f[2]] = f[1] THEN 1 ELSE 0
  <2>1. MakeMove(pos, m).king[view] = king
    BY DEF king
  <2> QED
    BY <1>0, <2>1, RebuildType DEF after
<1> QED
  BY <1>3, <1>6, <1>7, <1>8, SameCounts DEF values, king

LEMMA CastleUpdate ==
  ASSUME NEW pos \in Position, NEW m \in Move, Playable(pos, m), m.kind \in Castles,
         NEW view \in Color, MakeMove(pos, m).king[view] = pos.king[view]
  PROVE  Updated(Rebuild(pos, view), pos, m, pos.king[view]) = Rebuild(MakeMove(pos, m), view)
<1> DEFINE before == pos.board
           after == MakeMove(pos, m).board
           king == pos.king[view]
           rook == CastleRook[pos.side][m.kind]
           piece == <<pos.side, "rook">>
           values == Rebuild(pos, view)
           left == Drop(values, before[m.from], m.from, king)
           arrived == Add(left, after[m.to], m.to, king)
           lifted == Drop(arrived, piece, rook.from, king)
           landed == Add(lifted, after[rook.to], rook.to, king)
<1>0. /\ pos.board \in [Square -> Piece \cup {Empty}] /\ pos.king[view] \in Square
      /\ MakeMove(pos, m).board \in [Square -> Piece \cup {Empty}]
      /\ MakeMove(pos, m).king[view] \in Square
  BY MovedType DEF Position
<1>1. king \in Square /\ m.from \in Square /\ m.to \in Square
  BY DEF Position, Move
<1>2. /\ rook.from \in Square /\ rook.to \in Square
      /\ m.from # m.to /\ rook.from \notin {m.from, m.to} /\ rook.to \notin {m.from, m.to, rook.from}
      /\ CapturedSq(pos, m) = m.to /\ before[m.to] = Empty /\ before[rook.to] = Empty
      /\ before[m.from] \in Piece /\ before[rook.from] = piece /\ piece \in Piece
      /\ after[m.from] = Empty /\ after[rook.from] = Empty
      /\ after[m.to] = before[m.from] /\ after[rook.to] = piece
      /\ \A s \in Square \ {m.from, m.to, rook.from, rook.to} : after[s] = before[s]
  BY CastleBoard
<1>3. Updated(values, pos, m, king) = landed
  <2>1. Drop(left, before[CapturedSq(pos, m)], CapturedSq(pos, m), king) = left
    BY <1>2 DEF Drop
  <2> QED
    BY <2>1 DEF Updated
<1>3a. /\ left = Drop(values, before[m.from], m.from, king)
       /\ arrived = Add(left, after[m.to], m.to, king)
       /\ lifted = Drop(arrived, piece, rook.from, king)
       /\ landed = Add(lifted, after[rook.to], rook.to, king)
  OBVIOUS
<1> HIDE DEF after, rook, piece, left, arrived, lifted, landed
<1>3b. values \in Counts
  BY <1>0, RebuildType
<1>3c. /\ before[m.from] \in Content /\ after[m.to] \in Content
       /\ piece \in Content /\ after[rook.to] \in Content
       /\ rook.from \in Square /\ rook.to \in Square
  BY <1>2 DEF Content
<1> HIDE DEF before, king, values
<1>4. left \in Counts /\ Differs(left, values, before[m.from], m.from, king, -1)
  BY <1>1, <1>3a, <1>3b, <1>3c, DropAt
<1>5. arrived \in Counts /\ Differs(arrived, left, after[m.to], m.to, king, 1)
  BY <1>1, <1>3a, <1>3b, <1>3c, <1>4, AddAt
<1>6. lifted \in Counts /\ Differs(lifted, arrived, piece, rook.from, king, -1)
  BY <1>1, <1>3a, <1>3b, <1>3c, <1>5, DropAt
<1>7. landed \in Counts /\ Differs(landed, lifted, after[rook.to], rook.to, king, 1)
  BY <1>1, <1>3a, <1>3b, <1>3c, <1>6, AddAt
<1>8. ASSUME NEW f \in Feature
      PROVE  Count(landed, f) = IF f[3] = king /\ after[f[2]] = f[1] THEN 1 ELSE 0
  <2>0. /\ Count(left, f) = IF f[1] = before[m.from] /\ f[2] = m.from /\ f[3] = king THEN Count(values, f) - 1 ELSE Count(values, f)
        /\ Count(arrived, f) = IF f[1] = after[m.to] /\ f[2] = m.to /\ f[3] = king THEN Count(left, f) + 1 ELSE Count(left, f)
        /\ Count(lifted, f) = IF f[1] = piece /\ f[2] = rook.from /\ f[3] = king THEN Count(arrived, f) - 1 ELSE Count(arrived, f)
        /\ Count(landed, f) = IF f[1] = after[rook.to] /\ f[2] = rook.to /\ f[3] = king THEN Count(lifted, f) + 1 ELSE Count(lifted, f)
    BY <1>4, <1>5, <1>6, <1>7 DEF Differs
  <2>1. Count(values, f) = IF f[3] = king /\ before[f[2]] = f[1] THEN 1 ELSE 0
    BY <1>0, RebuildType DEF values, king, before
  <2>2. f[1] # Empty /\ f[2] \in Square
    BY FeatureParts
  <2>3. CASE f[2] \in {m.from, m.to}
    BY <1>2, <2>0, <2>1, <2>2, <2>3
  <2>4. CASE f[2] \in {rook.from, rook.to}
    BY <1>2, <2>0, <2>1, <2>2, <2>4
  <2>5. CASE f[2] \notin {m.from, m.to, rook.from, rook.to}
    BY <1>2, <2>0, <2>1, <2>2, <2>5
  <2> QED
    BY <2>3, <2>4, <2>5
<1>9. /\ Rebuild(MakeMove(pos, m), view) \in Counts
      /\ \A f \in Feature :
           Count(Rebuild(MakeMove(pos, m), view), f) = IF f[3] = king /\ after[f[2]] = f[1] THEN 1 ELSE 0
  <2>1. MakeMove(pos, m).king[view] = king
    BY DEF king
  <2> QED
    BY <1>0, <2>1, RebuildType DEF after
<1> QED
  BY <1>3, <1>7, <1>8, <1>9, SameCounts DEF values, king

\* apply_move on the accumulator of a position gives the accumulator a refresh
\* computes for the position after the move (matches_full_rebuild): captures, en
\* passant, promotions, castling and king moves, on any board.
THEOREM UpdateIsRefresh ==
  ASSUME NEW pos \in Position, NEW m \in Move, Playable(pos, m)
  PROVE  ApplyMove(Refresh(pos), pos, m) = Refresh(MakeMove(pos, m))
<1> DEFINE after == MakeMove(pos, m)
<1>1. ASSUME NEW view \in Color, ~(pos.board[m.from][2] = "king" /\ view = pos.side)
      PROVE  after.king[view] = pos.king[view]
  <2>1. pos.king \in [Color -> Square]
    BY DEF Position
  <2>2. after.king = IF pos.board[m.from][2] = "king"
                     THEN [pos.king EXCEPT ![pos.side] = m.to] ELSE pos.king
    BY DEF MakeMove
  <2> QED
    BY <1>1, <2>1, <2>2
<1>2. ASSUME NEW view \in Color, ~(pos.board[m.from][2] = "king" /\ view = pos.side)
      PROVE  Updated(Refresh(pos)[view], pos, m, after.king[view]) = Rebuild(after, view)
  <2>1. Refresh(pos)[view] = Rebuild(pos, view)
    BY DEF Refresh
  <2> QED
    BY <1>1, <1>2, <2>1, PlainUpdate, CastleUpdate
<1>3. ApplyMove(Refresh(pos), pos, m) =
        [view \in Color |-> IF pos.board[m.from][2] = "king" /\ view = pos.side
                            THEN Rebuild(after, view)
                            ELSE Updated(Refresh(pos)[view], pos, m, after.king[view])]
  BY DEF ApplyMove
<1> HIDE DEF after
<1>4. ApplyMove(Refresh(pos), pos, m) = [view \in Color |-> Rebuild(after, view)]
  BY <1>2, <1>3
<1> QED
  BY <1>4 DEF Refresh, after

-----------------------------------------------------------------------------
\* The geometry.

LEMMA DivMod ==
  ASSUME NEW r \in Int, NEW f \in 0..(Width - 1)
  PROVE  (r * Width + f) % Width = f /\ (r * Width + f) \div Width = r
<1>1. Width \in Nat \ {0}
  BY GeometryAssumption
<1> DEFINE x == r * Width + f
           q == x \div Width
           m == x % Width
<1>2. x \in Int
  BY <1>1
<1>3. q \in Int /\ m \in 0..(Width - 1) /\ x = q * Width + m
  BY <1>1, <1>2
<1>4. (q - r) * Width = f - m
  BY <1>1, <1>3
<1>5. q - r <= 0
  <2>1. SUFFICES ASSUME q - r >= 1 PROVE FALSE
    BY <1>1, <1>3
  <2>2. (q - r) * Width >= Width
    BY <1>1, <1>3, <2>1
  <2> QED BY <1>1, <1>3, <1>4, <2>2
<1>6. q - r >= 0
  <2>1. SUFFICES ASSUME q - r <= -1 PROVE FALSE
    BY <1>1, <1>3
  <2>2. (q - r) * Width <= -Width
    BY <1>1, <1>3, <2>1
  <2> QED BY <1>1, <1>3, <1>4, <2>2
<1>7. q = r
  BY <1>1, <1>3, <1>5, <1>6
<1> QED
  BY <1>1, <1>3, <1>7

LEMMA SquareParts ==
  ASSUME NEW s \in Square
  PROVE  /\ File(s) \in 0..(Width - 1) /\ Rank(s) \in 0..(Height - 1)
         /\ s = Rank(s) * Width + File(s)
<1>1. Width \in Nat \ {0} /\ Height \in Nat /\ s \in 0..(Width * Height - 1)
  BY GeometryAssumption
<1>2. File(s) \in 0..(Width - 1) /\ Rank(s) \in Int /\ s = Rank(s) * Width + File(s)
  BY <1>1 DEF File, Rank
<1> HIDE DEF File, Rank
<1> DEFINE q == Rank(s)
<1>3. q >= 0
  <2>1. SUFFICES ASSUME q <= -1 PROVE FALSE
    BY <1>2
  <2>2. q * Width <= -Width
    BY <1>1, <1>2, <2>1
  <2> QED BY <1>1, <1>2, <2>2
<1>4. q <= Height - 1
  <2>1. SUFFICES ASSUME q >= Height PROVE FALSE
    BY <1>1, <1>2
  <2>2. q * Width >= Width * Height
    BY <1>1, <1>2, <2>1
  <2> QED BY <1>1, <1>2, <2>2
<1> QED BY <1>1, <1>2, <1>3, <1>4

LEMMA SquareAt ==
  ASSUME NEW f \in 0..(Width - 1), NEW r \in 0..(Height - 1)
  PROVE  r * Width + f \in Square /\ File(r * Width + f) = f /\ Rank(r * Width + f) = r
<1>1. Width \in Nat \ {0} /\ Height \in Nat /\ Square = 0..(Width * Height - 1)
  BY GeometryAssumption
<1>2. r * Width >= 0
  BY <1>1
<1>3. r * Width <= (Height - 1) * Width
  BY <1>1
<1>4. (Height - 1) * Width = Width * Height - Width
  BY <1>1
<1>5. r * Width + f \in Square
  BY <1>1, <1>2, <1>3, <1>4
<1> QED BY <1>5, DivMod DEF File, Rank

LEMMA NoSquareIsOff == NoSquare \notin Square
<1>1. \A n \in Int : -1 \notin 0..n
  OBVIOUS
<1>2. Square = 0..(Width * Height - 1) /\ Width * Height - 1 \in Int
  BY GeometryAssumption
<1> QED BY <1>1, <1>2 DEF NoSquare

LEMMA SameSquare ==
  ASSUME NEW s \in Square, NEW t \in Square, File(s) = File(t), Rank(s) = Rank(t)
  PROVE  s = t
BY SquareParts

\* A leap reaches one square of the board or none.
LEMMA LeapIs ==
  ASSUME NEW s \in Square, NEW d, d[1] \in Int, d[2] \in Int
  PROVE  /\ Leap(s, d) \subseteq Square
         /\ \A t \in Square : t \in Leap(s, d) <=> File(t) = File(s) + d[1] /\ Rank(t) = Rank(s) + d[2]
<1> DEFINE f == File(s) + d[1]
           r == Rank(s) + d[2]
<1>1. f \in Int /\ r \in Int
  BY SquareParts
<1>2. CASE f \in 0..(Width - 1) /\ r \in 0..(Height - 1)
  <2>1. Leap(s, d) = {r * Width + f}
    BY <1>2 DEF Leap
  <2>2. r * Width + f \in Square /\ File(r * Width + f) = f /\ Rank(r * Width + f) = r
    BY <1>2, SquareAt
  <2> HIDE DEF f, r
  <2>3. \A t \in Square : t \in Leap(s, d) <=> File(t) = f /\ Rank(t) = r
    BY <2>1, <2>2, SameSquare
  <2> QED BY <2>1, <2>2, <2>3 DEF f, r
<1>3. CASE ~(f \in 0..(Width - 1) /\ r \in 0..(Height - 1))
  <2>1. Leap(s, d) = {}
    BY <1>3 DEF Leap
  <2> QED BY <1>3, <2>1, SquareParts
<1> QED BY <1>2, <1>3

\* Every leap can be taken back.
LEMMA LeapBack ==
  ASSUME NEW s \in Square, NEW a \in Int, NEW b \in Int, NEW t \in Leap(s, <<a, b>>)
  PROVE  t \in Square /\ s \in Leap(t, <<-a, -b>>)
<1>1. t \in Square /\ File(t) = File(s) + a /\ Rank(t) = Rank(s) + b
  BY LeapIs
<1>2. File(s) = File(t) + (-a) /\ Rank(s) = Rank(t) + (-b)
  BY <1>1, SquareParts
<1>3. <<-a, -b>>[1] = -a /\ <<-a, -b>>[2] = -b /\ -a \in Int /\ -b \in Int
  OBVIOUS
<1>4. \A u \in Square : u \in Leap(t, <<-a, -b>>)
        <=> File(u) = File(t) + <<-a, -b>>[1] /\ Rank(u) = Rank(t) + <<-a, -b>>[2]
  BY <1>1, <1>3, LeapIs
<1> QED BY <1>1, <1>2, <1>3, <1>4

LEMMA RayIs ==
  ASSUME NEW s \in Square, NEW d, d[1] \in Int, d[2] \in Int, NEW k \in Int
  PROVE  /\ Ray(s, d, k) \subseteq Square
         /\ \A t \in Square : t \in Ray(s, d, k)
              <=> File(t) = File(s) + k * d[1] /\ Rank(t) = Rank(s) + k * d[2]
<1> DEFINE e == <<k * d[1], k * d[2]>>
<1>1. e[1] = k * d[1] /\ e[2] = k * d[2] /\ e[1] \in Int /\ e[2] \in Int
  OBVIOUS
<1>2. Ray(s, d, k) = Leap(s, e)
  BY DEF Ray
<1> HIDE DEF e
<1>3. /\ Leap(s, e) \subseteq Square
      /\ \A t \in Square : t \in Leap(s, e) <=> File(t) = File(s) + e[1] /\ Rank(t) = Rank(s) + e[2]
  BY <1>1, LeapIs
<1> QED BY <1>1, <1>2, <1>3

Symmetric(rays) == \A d \in rays : d[1] \in Int /\ d[2] \in Int /\ <<-d[1], -d[2]>> \in rays

\* A slider sees the square it is seen from.
LEMMA SlideBack ==
  ASSUME NEW board, NEW s \in Square, NEW rays, Symmetric(rays), NEW t \in Slide(board, s, rays)
  PROVE  t \in Square /\ s \in Slide(board, t, rays)
<1>1. PICK d \in rays, k \in 1..(Width + Height) : t \in Ray(s, d, k) /\ Sees(board, s, d, k)
  BY DEF Slide
<1> DEFINE e == <<-d[1], -d[2]>>
<1>2. d[1] \in Int /\ d[2] \in Int /\ e \in rays /\ e[1] = -d[1] /\ e[2] = -d[2]
  BY DEF Symmetric
<1>3. k \in Int /\ e[1] \in Int /\ e[2] \in Int
  BY <1>2, GeometryAssumption
<1> HIDE DEF e
<1>4. t \in Square /\ File(t) = File(s) + k * d[1] /\ Rank(t) = Rank(s) + k * d[2]
  BY <1>1, <1>2, <1>3, RayIs
<1>5. s \in Ray(t, e, k)
  <2>1. File(s) = File(t) + k * e[1] /\ Rank(s) = Rank(t) + k * e[2]
    BY <1>2, <1>3, <1>4, SquareParts
  <2> QED BY <1>3, <1>4, <2>1, RayIs
<1>6. ASSUME NEW j \in 1..(k - 1), NEW u \in Ray(t, e, j)
      PROVE  board[u] = Empty
  <2>1. j \in Int /\ k - j \in 1..(k - 1) /\ k - j \in Int
    BY <1>3
  <2>2. u \in Square /\ File(u) = File(t) + j * e[1] /\ Rank(u) = Rank(t) + j * e[2]
    BY <1>3, <1>4, <1>6, <2>1, RayIs
  <2>3. File(u) = File(s) + (k - j) * d[1] /\ Rank(u) = Rank(s) + (k - j) * d[2]
    BY <1>2, <1>3, <1>4, <2>1, <2>2, SquareParts
  <2>4. u \in Ray(s, d, k - j)
    BY <1>2, <2>1, <2>2, <2>3, RayIs
  <2> QED BY <1>1, <2>1, <2>4 DEF Sees
<1>7. Sees(board, t, e, k)
  BY <1>6 DEF Sees
<1> QED BY <1>2, <1>4, <1>5, <1>7 DEF Slide

LEMMA RaysSymmetric ==
  /\ Symmetric(Straight) /\ Symmetric(Diagonal) /\ Symmetric(Straight \cup Diagonal) /\ Symmetric(Hops)
<1>1. Symmetric(Straight) /\ Symmetric(Diagonal)
  <2>1. ASSUME NEW d \in Straight PROVE d[1] \in Int /\ d[2] \in Int /\ <<-d[1], -d[2]>> \in Straight
    <3>1. d = <<1, 0>> \/ d = <<-1, 0>> \/ d = <<0, 1>> \/ d = <<0, -1>>
      BY DEF Straight
    <3> QED BY <3>1 DEF Straight
  <2>2. ASSUME NEW d \in Diagonal PROVE d[1] \in Int /\ d[2] \in Int /\ <<-d[1], -d[2]>> \in Diagonal
    <3>1. d = <<1, 1>> \/ d = <<-1, 1>> \/ d = <<1, -1>> \/ d = <<-1, -1>>
      BY DEF Diagonal
    <3> QED BY <3>1 DEF Diagonal
  <2> QED BY <2>1, <2>2 DEF Symmetric
<1>2. Symmetric(Straight \cup Diagonal)
  BY <1>1 DEF Symmetric
<1>3. Symmetric(Hops)
  <2> SUFFICES ASSUME NEW d \in Hops PROVE d[1] \in Int /\ d[2] \in Int /\ <<-d[1], -d[2]>> \in Hops
    BY DEF Symmetric
  <2>1. CASE d \in {-1, 1} \X {-2, 2}
    BY <2>1 DEF Hops
  <2>2. CASE d \in {-2, 2} \X {-1, 1}
    BY <2>2 DEF Hops
  <2> QED BY <2>1, <2>2 DEF Hops
<1> QED BY <1>1, <1>2, <1>3

LEMMA LeapsBack ==
  ASSUME NEW s \in Square, NEW rays, Symmetric(rays), NEW t \in UNION {Leap(s, d) : d \in rays}
  PROVE  t \in Square /\ s \in UNION {Leap(t, d) : d \in rays}
<1>1. PICK d \in rays : t \in Leap(s, d)
  OBVIOUS
<1> DEFINE e == <<-d[1], -d[2]>>
<1>2. d[1] \in Int /\ d[2] \in Int /\ e \in rays /\ e[1] = -d[1] /\ e[2] = -d[2]
  BY DEF Symmetric
<1> HIDE DEF e
<1>3. t \in Square /\ File(t) = File(s) + d[1] /\ Rank(t) = Rank(s) + d[2]
  BY <1>1, <1>2, LeapIs
<1>4. File(s) = File(t) + e[1] /\ Rank(s) = Rank(t) + e[2] /\ e[1] \in Int /\ e[2] \in Int
  BY <1>2, <1>3, SquareParts
<1>5. s \in Leap(t, e)
  BY <1>3, <1>4, LeapIs
<1> QED BY <1>2, <1>3, <1>5

\* square_attacked_by looks back from a square along the attacks of its attackers.
LEMMA TargetsBack ==
  ASSUME NEW board, NEW s \in Square, NEW pt \in Type \ {"pawn"}, NEW t \in Targets(board, s, pt)
  PROVE  t \in Square /\ s \in Targets(board, t, pt)
<1>1. pt \in {"knight", "king", "bishop", "rook", "queen"}
  BY GeometryAssumption
<1>2. CASE pt = "knight"
  <2>1. \A u : Targets(board, u, pt) = UNION {Leap(u, d) : d \in Hops}
    BY <1>2 DEF Targets
  <2> QED BY <2>1, LeapsBack, RaysSymmetric
<1>3. CASE pt = "king"
  <2>1. \A u : Targets(board, u, pt) = UNION {Leap(u, d) : d \in Straight \cup Diagonal}
    BY <1>3 DEF Targets
  <2> QED BY <2>1, LeapsBack, RaysSymmetric
<1>4. CASE pt = "bishop"
  <2>1. \A u : Targets(board, u, pt) = Slide(board, u, Diagonal)
    BY <1>4 DEF Targets
  <2> QED BY <2>1, SlideBack, RaysSymmetric
<1>5. CASE pt = "rook"
  <2>1. \A u : Targets(board, u, pt) = Slide(board, u, Straight)
    BY <1>5 DEF Targets
  <2> QED BY <2>1, SlideBack, RaysSymmetric
<1>6. CASE pt = "queen"
  <2>1. \A u : Targets(board, u, pt) = Slide(board, u, Straight \cup Diagonal)
    BY <1>6 DEF Targets
  <2> QED BY <2>1, SlideBack, RaysSymmetric
<1> QED BY <1>1, <1>2, <1>3, <1>4, <1>5, <1>6

LEMMA PawnHitsBack ==
  ASSUME NEW c \in Color, NEW s \in Square, NEW t \in PawnHits(c, s)
  PROVE  t \in Square /\ s \in PawnHits(Them(c), t)
<1>1. Forward(c) \in Int /\ Forward(Them(c)) = -Forward(c)
  BY DEF Forward, Them, Color
<1>2. PICK a \in {-1, 1} : t \in Leap(s, <<a, Forward(c)>>)
  BY DEF PawnHits
<1>3. t \in Square /\ s \in Leap(t, <<-a, -Forward(c)>>)
  BY <1>1, <1>2, LeapBack
<1> QED BY <1>1, <1>3 DEF PawnHits

-----------------------------------------------------------------------------
\* What the generator pushes, by kind.

IsPieceMove(g, m) ==
  /\ m.kind = "plain"
  /\ g.at.board[m.from][1] = g.at.side /\ g.at.board[m.from][2] \in Type \ {"pawn"}
  /\ m.to \in Targets(g.at.board, m.from, g.at.board[m.from][2])
  /\ g.at.board[m.to][1] # g.at.side

IsPawnMove(g, m) ==
  /\ g.at.board[m.from] = <<g.at.side, "pawn">>
  /\ \/ m.to \in Leap(m.from, <<0, Forward(g.at.side)>>) /\ g.at.board[m.to] = Empty
     \/ m.to \in PawnHits(g.at.side, m.from) /\ g.at.board[m.to][1] = Them(g.at.side)
  /\ \/ m.kind = "plain" /\ Rank(m.to) # LastRank(g.at.side)
     \/ m.kind = "promotion" /\ m.promotion \in Type \ {"pawn", "king"}

IsDouble(g, m) ==
  /\ m.kind = "double" /\ g.at.board[m.from] = <<g.at.side, "pawn">>
  /\ \E v \in Square : /\ v \in Leap(m.from, <<0, Forward(g.at.side)>>) /\ g.at.board[v] = Empty
                       /\ Rank(v) = ThirdRank(g.at.side)
                       /\ m.to \in Leap(v, <<0, Forward(g.at.side)>>) /\ g.at.board[m.to] = Empty

IsEnPassant(g, m) ==
  /\ m.kind = "en passant" /\ g.at.board[m.from] = <<g.at.side, "pawn">>
  /\ m.to = g.ep /\ m.to \in PawnHits(g.at.side, m.from)

IsCastling(g, m) ==
  LET us == g.at.side
      king == CastleKing[us][m.kind]
      rook == CastleRook[us][m.kind]
  IN  /\ m.kind \in Castles /\ m.from = king.from /\ m.to = king.to
      /\ g.at.board[king.from] = <<us, "king">> /\ g.at.board[rook.from] = <<us, "rook">>
      /\ \A s \in king.clear : g.at.board[s] = Empty

LEMMA PlainIs ==
  \A s, t : /\ Plain(s, t).from = s /\ Plain(s, t).to = t /\ Plain(s, t).kind = "plain"
            /\ Plain(s, t).promotion = "pawn"
BY DEF Plain

LEMMA OwnIs ==
  ASSUME NEW pos \in Position, NEW types \in SUBSET Type, NEW s \in Own(pos, types)
  PROVE  s \in Square /\ pos.board[s] = <<pos.side, pos.board[s][2]>> /\ pos.board[s][2] \in types
<1>1. s \in Square /\ pos.board[s][1] = pos.side /\ pos.board[s][2] \in types
  BY DEF Own
<1>2. pos.board[s] \in Piece \cup {Empty} /\ pos.side \in Color
  BY <1>1 DEF Position
<1>3. pos.board[s] \in Piece
  BY <1>1, <1>2, EmptyIsNoPiece
<1> QED BY <1>1, <1>3 DEF Piece

LEMMA ShiftIs ==
  ASSUME NEW c \in Color, NEW s \in Square, NEW t \in Leap(s, <<0, Forward(c)>>)
  PROVE  t \in Square /\ File(t) = File(s) /\ Rank(t) = Rank(s) + Forward(c)
<1>1. Forward(c) \in Int
  BY DEF Forward
<1> DEFINE d == <<0, Forward(c)>>
<1>2. d[1] = 0 /\ d[2] = Forward(c)
  OBVIOUS
<1>3. t \in Square /\ File(t) = File(s) + d[1] /\ Rank(t) = Rank(s) + d[2]
  BY <1>1, <1>2, LeapIs
<1> QED BY <1>2, <1>3, SquareParts

LEMMA PawnPseudo ==
  ASSUME NEW g \in Game, NEW m \in PawnMoves(g.at, g.ep)
  PROVE  /\ m \in Move
         /\ IsPawnMove(g, m) \/ IsDouble(g, m) \/ IsEnPassant(g, m)
<1> DEFINE us == g.at.side
           board == g.at.board
           Push(s) == {t \in Leap(s, <<0, Forward(us)>>) : board[t] = Empty}
           Takes(s) == {t \in PawnHits(us, s) : board[t][1] = Them(us)}
           arrivals(s) == UNION {Arrivals(us, s, t) : t \in Push(s) \cup Takes(s)}
           doubles(s) == {[Plain(s, t) EXCEPT !.kind = "double"] :
                            t \in UNION {Push(u) : u \in {v \in Push(s) : Rank(v) = ThirdRank(us)}}}
           passants(s) == {[Plain(s, t) EXCEPT !.kind = "en passant"] : t \in PawnHits(us, s) \cap {g.ep}}
<1>1. g.at \in Position /\ us \in Color
  BY DEF Game, Position
<1>11. PawnMoves(g.at, g.ep) =
         UNION {arrivals(s) \cup doubles(s) \cup passants(s) : s \in Own(g.at, {"pawn"})}
  BY DEF PawnMoves
<1>2. PICK s \in Own(g.at, {"pawn"}) : m \in arrivals(s) \cup doubles(s) \cup passants(s)
  BY <1>11
<1>12. {"pawn"} \in SUBSET Type
  BY BoardAssumption
<1>13. s \in Square /\ board[s] = <<us, board[s][2]>> /\ board[s][2] \in {"pawn"}
  BY <1>1, <1>12, OwnIs
<1>3. s \in Square /\ board[s] = <<us, "pawn">>
  BY <1>13
<1>4. \A t \in PawnHits(us, s) : t \in Square
  BY <1>1, <1>3, PawnHitsBack
<1>5. \A t \in Push(s) : t \in Square
  BY <1>1, <1>3, ShiftIs
<1>6. Move = [from: Square, to: Square, kind: Kind, promotion: Type] /\ "pawn" \in Type
      /\ {"plain", "double", "promotion", "en passant"} \subseteq Kind
  BY BoardAssumption DEF Move, Kind
<1>7. CASE m \in arrivals(s)
  <2>1. PICK t \in Push(s) \cup Takes(s) : m \in Arrivals(us, s, t)
    BY <1>7
  <2>2. t \in Square
    BY <1>4, <1>5, <2>1
  <2>3. CASE Rank(t) # LastRank(us) /\ m = Plain(s, t)
    <3>1. m = [from |-> s, to |-> t, kind |-> "plain", promotion |-> "pawn"]
      BY <2>3 DEF Plain
    <3>2. m \in Move
      BY <1>3, <1>6, <2>2, <3>1
    <3>3. IsPawnMove(g, m)
      BY <1>3, <2>1, <2>3, <3>1 DEF IsPawnMove
    <3> QED BY <3>2, <3>3
  <2>4. ASSUME NEW pt \in Type \ {"pawn", "king"},
               m = [Plain(s, t) EXCEPT !.kind = "promotion", !.promotion = pt]
        PROVE  m \in Move /\ IsPawnMove(g, m)
    <3>1. m = [from |-> s, to |-> t, kind |-> "promotion", promotion |-> pt]
      BY <2>4 DEF Plain
    <3>2. m \in Move
      BY <1>3, <1>6, <2>2, <3>1
    <3>3. IsPawnMove(g, m)
      BY <1>3, <2>1, <3>1 DEF IsPawnMove
    <3> QED BY <3>2, <3>3
  <2> QED BY <2>1, <2>3, <2>4 DEF Arrivals
<1>8. CASE m \in doubles(s)
  <2>1. PICK v \in Push(s) : Rank(v) = ThirdRank(us)
          /\ \E t \in Push(v) : m = [Plain(s, t) EXCEPT !.kind = "double"]
    BY <1>8
  <2>6. PICK t \in Push(v) : m = [Plain(s, t) EXCEPT !.kind = "double"]
    BY <2>1
  <2>2. v \in Square /\ t \in Square
    BY <1>1, <1>5, ShiftIs
  <2>3. m = [from |-> s, to |-> t, kind |-> "double", promotion |-> "pawn"]
    BY <2>6 DEF Plain
  <2>4. m \in Move
    BY <1>3, <1>6, <2>2, <2>3
  <2>5. IsDouble(g, m)
    BY <1>3, <2>1, <2>2, <2>3 DEF IsDouble
  <2> QED BY <2>4, <2>5
<1>9. CASE m \in passants(s)
  <2>1. PICK t \in PawnHits(us, s) \cap {g.ep} : m = [Plain(s, t) EXCEPT !.kind = "en passant"]
    BY <1>9
  <2>2. m = [from |-> s, to |-> t, kind |-> "en passant", promotion |-> "pawn"]
    BY <2>1 DEF Plain
  <2>5. t \in Square /\ t = g.ep /\ t \in PawnHits(us, s)
    BY <1>4, <2>1
  <2>3. m \in Move
    BY <1>3, <1>6, <2>2, <2>5
  <2>4. IsEnPassant(g, m)
    BY <1>3, <2>2, <2>5 DEF IsEnPassant
  <2> QED BY <2>3, <2>4
<1> QED BY <1>2, <1>7, <1>8, <1>9

LEMMA PiecePseudo ==
  ASSUME NEW g \in Game, NEW m \in PieceMoves(g.at)
  PROVE  m \in Move /\ IsPieceMove(g, m)
<1> DEFINE us == g.at.side
           board == g.at.board
<1>1. g.at \in Position /\ us \in Color
  BY DEF Game, Position
<1>8. PICK s \in Own(g.at, Type \ {"pawn"}) :
        \E t \in Targets(board, s, board[s][2]) : board[t][1] # us /\ m = Plain(s, t)
  BY DEF PieceMoves
<1>2. PICK t \in Targets(board, s, board[s][2]) : board[t][1] # us /\ m = Plain(s, t)
  BY <1>8
<1>3. s \in Square /\ board[s] = <<us, board[s][2]>> /\ board[s][2] \in Type \ {"pawn"}
  BY <1>1, <1>2, OwnIs
<1>4. t \in Square
  BY <1>2, <1>3, TargetsBack
<1>5. m = [from |-> s, to |-> t, kind |-> "plain", promotion |-> "pawn"]
  BY <1>2 DEF Plain
<1>6. m \in Move
  BY <1>3, <1>4, <1>5, BoardAssumption DEF Move, Kind
<1>7. IsPieceMove(g, m)
  BY <1>2, <1>3, <1>5 DEF IsPieceMove
<1> QED BY <1>6, <1>7

LEMMA CastlingPseudo ==
  ASSUME NEW g \in Game, NEW m \in CastlingMoves(g.at, g.rights)
  PROVE  m \in Move /\ IsCastling(g, m)
<1> DEFINE us == g.at.side
<1>1. us \in Color
  BY DEF Game, Position
<1>2. PICK k \in Castles :
        /\ m = [Plain(CastleKing[us][k].from, CastleKing[us][k].to) EXCEPT !.kind = k]
        /\ g.at.board[CastleKing[us][k].from] = <<us, "king">>
        /\ g.at.board[CastleRook[us][k].from] = <<us, "rook">>
        /\ \A s \in CastleKing[us][k].clear : g.at.board[s] = Empty
  BY DEF CastlingMoves
<1>3. m = [from |-> CastleKing[us][k].from, to |-> CastleKing[us][k].to, kind |-> k, promotion |-> "pawn"]
  BY <1>2 DEF Plain
<1>4. CastleKing[us][k].from \in Square /\ CastleKing[us][k].to \in Square
  BY <1>1, GeometryAssumption
<1>5. m \in Move
  BY <1>3, <1>4, BoardAssumption DEF Move, Kind
<1>7. m.kind = k /\ m.from = CastleKing[us][k].from /\ m.to = CastleKing[us][k].to
  BY <1>3
<1>6. IsCastling(g, m)
  BY <1>2, <1>7 DEF IsCastling
<1> QED BY <1>5, <1>6

LEMMA PseudoIs ==
  ASSUME NEW g \in Game, NEW m \in Pseudo(g)
  PROVE  /\ m \in Move
         /\ \/ IsPieceMove(g, m) \/ IsPawnMove(g, m) \/ IsDouble(g, m)
            \/ IsEnPassant(g, m) \/ IsCastling(g, m)
BY PawnPseudo, PiecePseudo, CastlingPseudo DEF Pseudo, PseudoLegal

-----------------------------------------------------------------------------

KingsHome(g) ==
  \A c \in Color : \A s \in Square : g.at.board[s] = <<c, "king">> <=> s = g.at.king[c]

PawnsBetween(g) ==
  \A s \in Square : g.at.board[s][2] = "pawn" => Rank(s) # 0 /\ Rank(s) # Height - 1

RightsHome(g) ==
  \A x \in g.rights : /\ g.at.board[CastleKing[x[1]][x[2]].from] = <<x[1], "king">>
                      /\ g.at.board[CastleRook[x[1]][x[2]].from] = <<x[1], "rook">>

EpTaken(g) ==
  g.ep # NoSquare =>
    /\ Rank(g.ep) = ThirdRank(Them(g.at.side)) /\ g.at.board[g.ep] = Empty
    /\ g.at.board[g.ep - Forward(g.at.side) * Width] = <<Them(g.at.side), "pawn">>
    /\ Capturable(g.at.board, g.ep, g.at.side)

\* What cannot be taken back. A board weighs what its men weigh: a piece one, a pawn
\* more than a piece, and the more the farther it has to go. No move adds weight, and
\* every move that resets the half-move clock removes some.
ToGo(c, s) == IF c = "white" THEN Height - 1 - Rank(s) ELSE Rank(s)
Weight(pc, s) == IF pc = Empty THEN 0 ELSE IF pc[2] = "pawn" THEN 2 + ToGo(pc[1], s) ELSE 1
Units(board) == {x \in Square \X (1..(Height + 2)) : x[2] <= Weight(board[x[1]], x[1])}
BoardWeight(board) == Cardinality(Units(board))

\* What a history remembers. No position is heavier than one before it, those from
\* before the last irreversible move are heavier than the present one, and the side to
\* move alternates; the frames are the last positions, each flagged if it was one.

Earlier(keys, i) == {j \in 1..(i - 1) : keys[j] = keys[i]}

Ordered(g) ==
  LET n == Len(g.keys)
      W(i) == BoardWeight(g.keys[i].board)
  IN  \A i \in 1..n : /\ W(n) <= W(i)
                      /\ i < n - Reversible(g) => W(n) < W(i)
                      /\ g.keys[i].side = g.keys[n].side <=> (n - i) % 2 = 0

Framed(g) ==
  LET n == Len(g.keys)
      first == n - Len(g.frames)
  IN  /\ Len(g.frames) = IF n < FrameLimit THEN n ELSE FrameLimit
      /\ \A i \in 1..Len(g.frames) :
           g.frames[i] = [board |-> g.keys[first + i].board, repeated |-> Earlier(g.keys, first + i) # {}]

Recalled(g) == Ordered(g) /\ Framed(g)

\* What PositionsHonest and HistoryExact ask of a game, and that its history ends with it.
Honest(g) ==
  /\ g \in Game
  /\ Len(g.keys) >= 1 /\ g.keys[Len(g.keys)] = KeyOf(g)
  /\ Len(g.frames) \in 1..FrameLimit /\ Recalled(g)
  /\ KingsHome(g) /\ PawnsBetween(g) /\ RightsHome(g) /\ EpTaken(g)
  /\ ~Attacked(g.at.board, g.at.king[Them(g.at.side)], g.at.side)

LEMMA GameParts ==
  ASSUME NEW g \in Game
  PROVE  /\ g.at \in Position /\ g.at.side \in Color /\ Them(g.at.side) \in Color
         /\ Them(g.at.side) # g.at.side /\ Them(Them(g.at.side)) = g.at.side
         /\ \A s \in Square : g.at.board[s] \in Piece \cup {Empty}
         /\ g.at.board \in [Square -> Piece \cup {Empty}]
         /\ g.at.king \in [Color -> Square]
         /\ g.rights \in SUBSET Right
         /\ g.ep \in Square \/ g.ep = NoSquare
<1>1. g.at \in Position /\ g.rights \in SUBSET Right /\ (g.ep \in Square \/ g.ep = NoSquare)
  BY DEF Game
<1>2. g.at.side \in Color /\ g.at.board \in [Square -> Piece \cup {Empty}] /\ g.at.king \in [Color -> Square]
  BY <1>1 DEF Position
<1>3. Them(g.at.side) \in Color /\ Them(g.at.side) # g.at.side /\ Them(Them(g.at.side)) = g.at.side
  BY <1>2 DEF Them, Color
<1> QED BY <1>1, <1>2, <1>3

\* The square behind a third rank is on the board.
LEMMA BehindIs ==
  ASSUME NEW c \in Color, NEW s \in Square, Rank(s) = ThirdRank(Them(c))
  PROVE  s - Forward(c) * Width \in Square /\ Behind[c][s] = s - Forward(c) * Width
<1> DEFINE t == IF c = "white" THEN s - Width ELSE s + Width
<1>1. Width \in Nat \ {0} /\ Height \in Nat /\ Height >= 5 /\ (t \in Square => Behind[c][s] = t)
  BY GeometryAssumption
<1>2. /\ File(s) \in 0..(Width - 1) /\ Rank(s) \in 0..(Height - 1)
      /\ s = Rank(s) * Width + File(s)
  BY SquareParts
<1>3. CASE c = "white"
  <2>1. Rank(s) = Height - 3 /\ Forward(c) = 1
    BY <1>3 DEF ThirdRank, Them, Forward
  <2>2. Rank(s) - 1 \in 0..(Height - 1)
    BY <1>1, <2>1
  <2>3. (Rank(s) - 1) * Width + File(s) \in Square
    BY <1>2, <2>2, SquareAt
  <2>4. (Rank(s) - 1) * Width + File(s) = s - Width /\ Forward(c) * Width = Width
    BY <1>1, <1>2, <2>1
  <2> QED BY <1>1, <1>3, <2>3, <2>4
<1>4. CASE c = "black"
  <2>1. Rank(s) = 2 /\ Forward(c) = -1
    BY <1>4 DEF ThirdRank, Them, Forward
  <2>2. Rank(s) + 1 \in 0..(Height - 1)
    BY <1>1, <2>1
  <2>3. (Rank(s) + 1) * Width + File(s) \in Square
    BY <1>2, <2>2, SquareAt
  <2>4. /\ (Rank(s) + 1) * Width + File(s) = s + Width
        /\ Forward(c) * Width = -Width /\ s - Forward(c) * Width = s + Width
    BY <1>1, <1>2, <2>1
  <2> QED BY <1>1, <1>4, <2>3, <2>4
<1> QED BY <1>3, <1>4 DEF Color

\* make_move is only called with what its assertions allow.
THEOREM GeneratedIsPlayable ==
  ASSUME NEW g, Honest(g), NEW m \in Pseudo(g)
  PROVE  m \in Move /\ Playable(g.at, m)
<1> DEFINE us == g.at.side
           board == g.at.board
<1>1. g \in Game
  BY DEF Honest
<1>2. /\ us \in Color /\ Them(us) \in Color /\ Them(us) # us
      /\ \A s \in Square : board[s] \in Piece \cup {Empty}
      /\ g.ep \in Square \/ g.ep = NoSquare
  BY <1>1, GameParts
<1>3. /\ m \in Move
      /\ IsPieceMove(g, m) \/ IsPawnMove(g, m) \/ IsDouble(g, m) \/ IsEnPassant(g, m) \/ IsCastling(g, m)
  BY <1>1, PseudoIs
<1>4. Empty[1] # us
  BY <1>2, EmptyIsNoPiece
<1>5. m.from \in Square /\ m.to \in Square
  BY <1>3 DEF Move
<1> HIDE DEF us, board
<1>6. CASE IsPieceMove(g, m)
  <2>1. m.kind = "plain" /\ board[m.from][1] = us /\ board[m.to][1] # us
    BY <1>6 DEF IsPieceMove, board, us
  <2> QED BY <1>3, <2>1 DEF Playable, Castles, board, us
<1>7. CASE IsPawnMove(g, m)
  <2>1. /\ board[m.from] = <<us, "pawn">> /\ board[m.to][1] # us
        /\ m.kind = "plain" \/ (m.kind = "promotion" /\ m.promotion # "king")
    <3>1. board[m.from] = <<us, "pawn">> /\ (board[m.to] = Empty \/ board[m.to][1] = Them(us))
      BY <1>7 DEF IsPawnMove, board, us
    <3>2. board[m.to][1] # us
      BY <1>2, <1>4, <3>1
    <3>3. m.kind = "plain" \/ (m.kind = "promotion" /\ m.promotion # "king")
      <4>1. /\ m.kind = "plain" \/ m.kind = "promotion"
            /\ m.kind # "plain" => m.promotion \in Type \ {"pawn", "king"}
        BY <1>7, Zenon DEF IsPawnMove
      <4> QED BY <4>1
    <3> QED BY <3>1, <3>2, <3>3
  <2>2. board[m.from][1] = us /\ board[m.from][2] = "pawn"
    BY <2>1
  <2> QED BY <1>3, <2>1, <2>2 DEF Playable, Castles, board, us
<1>8. CASE IsDouble(g, m)
  <2>1. board[m.from] = <<us, "pawn">> /\ board[m.to] = Empty /\ m.kind = "double"
    BY <1>8 DEF IsDouble, board, us
  <2>2. board[m.from][1] = us /\ board[m.to][1] # us
    BY <1>4, <2>1
  <2> QED BY <1>3, <2>1, <2>2 DEF Playable, Castles, board, us
<1>9. CASE IsEnPassant(g, m)
  <2>1. board[m.from] = <<us, "pawn">> /\ m.kind = "en passant" /\ m.to = g.ep
    BY <1>9 DEF IsEnPassant, board, us
  <2>2. /\ Rank(g.ep) = ThirdRank(Them(us)) /\ board[g.ep] = Empty /\ g.ep \in Square
        /\ board[g.ep - Forward(us) * Width] = <<Them(us), "pawn">>
    <3>1. g.ep # NoSquare
      BY <1>5, <2>1, NoSquareIsOff
    <3> QED BY <1>2, <3>1 DEF Honest, EpTaken, board, us
  <2>3. Behind[us][g.ep] = g.ep - Forward(us) * Width
    BY <1>2, <2>2, BehindIs
  <2>6. board[m.from][1] = us /\ board[m.from][2] = "pawn"
    <3>1. board[m.from] = <<us, "pawn">>
      BY <2>1
    <3> QED BY <3>1
  <2>4. board[m.to][1] # us
    BY <1>4, <2>1, <2>2
  <2>5. board[CapturedSq(g.at, m)] = <<Them(us), "pawn">>
    BY <2>1, <2>2, <2>3 DEF CapturedSq, us
  <2> QED BY <1>3, <2>1, <2>2, <2>4, <2>5, <2>6 DEF Playable, Castles, board, us
<1>10. CASE IsCastling(g, m)
  <2> DEFINE king == CastleKing[us][m.kind]
             rook == CastleRook[us][m.kind]
  <2>1. /\ m.kind \in Castles /\ m.from = king.from /\ m.to = king.to
        /\ board[m.from] = <<us, "king">> /\ board[rook.from] = <<us, "rook">>
        /\ \A s \in king.clear : board[s] = Empty
    BY <1>10 DEF IsCastling, board, us
  <2>2. king.to \in king.clear /\ rook.to \in king.clear /\ king.to # rook.to
    BY <1>2, <2>1, GeometryAssumption
  <2>3. board[m.to] = Empty /\ board[rook.to] = Empty /\ rook.to # m.to
    BY <2>1, <2>2
  <2>4. board[m.from][1] = us /\ board[m.from][2] = "king" /\ board[m.to][1] # us
    BY <1>4, <2>1, <2>3
  <2>5. m.kind # "promotion" /\ m.kind # "en passant"
    BY <2>1 DEF Castles
  <2>6. m.from # m.to
    BY <1>4, <2>3, <2>4
  <2> QED BY <1>3, <2>1, <2>3, <2>4, <2>5, <2>6 DEF Playable, board, us
<1> QED BY <1>3, <1>6, <1>7, <1>8, <1>9, <1>10

\* The squares of an honest game's move, and what stands on them afterwards.
LEMMA Arrived ==
  ASSUME NEW pos \in Position, NEW m \in Move, Playable(pos, m), m.kind \notin Castles
  PROVE  MakeMove(pos, m).board[m.to] =
           IF m.kind = "promotion" THEN <<pos.side, m.promotion>> ELSE pos.board[m.from]
<1> DEFINE cleared == [pos.board EXCEPT ![m.from] = Empty, ![CapturedSq(pos, m)] = Empty]
           arriving == IF m.kind = "promotion" THEN <<pos.side, m.promotion>> ELSE pos.board[m.from]
<1>1. pos.board \in [Square -> Piece \cup {Empty}] /\ m.to \in Square
  BY DEF Position, Move
<1>2. DOMAIN cleared = Square
  BY <1>1
<1>3. MakeMove(pos, m).board = [cleared EXCEPT ![m.to] = arriving]
  BY DEF MakeMove
<1> HIDE DEF cleared, arriving
<1> QED BY <1>1, <1>2, <1>3 DEF arriving

\* The side that has just moved is not in check, so no king is ever taken.
LEMMA NoKingTaken ==
  ASSUME NEW g, Honest(g), NEW m \in Pseudo(g)
  PROVE  g.at.board[CapturedSq(g.at, m)][2] # "king"
<1> DEFINE us == g.at.side
           them == Them(us)
           board == g.at.board
           taken == CapturedSq(g.at, m)
<1>1. g \in Game /\ KingsHome(g) /\ ~Attacked(board, g.at.king[them], us)
  BY DEF Honest
<1>2. /\ us \in Color /\ them \in Color /\ them # us /\ Them(them) = us
      /\ \A s \in Square : board[s] \in Piece \cup {Empty}
      /\ Color = {us, them}
  BY <1>1, GameParts DEF Color, Them
<1>3. m \in Move /\ Playable(g.at, m)
  BY GeneratedIsPlayable
<1>4. /\ m \in Move
      /\ IsPieceMove(g, m) \/ IsPawnMove(g, m) \/ IsDouble(g, m) \/ IsEnPassant(g, m) \/ IsCastling(g, m)
  BY <1>1, PseudoIs
<1>5. m.from \in Square /\ m.to \in Square
  BY <1>3 DEF Move
<1>6. Empty[2] # "king"
  BY DEF Empty
<1>7. CASE m.kind = "en passant"
  <2>1. board[taken] = <<them, "pawn">>
    BY <1>3, <1>7 DEF Playable
  <2> QED BY <2>1
<1>8. CASE m.kind # "en passant"
  <2>1. taken = m.to
    BY <1>8 DEF CapturedSq
  <2> SUFFICES ASSUME board[m.to][2] = "king" PROVE FALSE
    BY <2>1
  <2>2. board[m.to][1] # us
    BY <1>3 DEF Playable
  <2>3. board[m.to] \in Piece
    BY <1>2, <1>5, <1>6
  <2>4. board[m.to] = <<them, "king">>
    BY <1>2, <2>2, <2>3 DEF Piece
  <2>5. m.to = g.at.king[them]
    BY <1>1, <1>2, <1>5, <2>4 DEF KingsHome
  <2>6. board[m.to] # Empty
    BY <1>6
  <2>7. CASE IsPieceMove(g, m)
    <3> DEFINE pt == board[m.from][2]
    <3>1. /\ pt \in Type \ {"pawn"} /\ m.to \in Targets(board, m.from, pt) /\ board[m.from][1] = us
      BY <2>7 DEF IsPieceMove
    <3>2. board[m.from] \in Piece
      BY <1>2, <1>5, <3>1, EmptyIsNoPiece
    <3>3. board[m.from] = <<us, pt>>
      BY <3>1, <3>2 DEF Piece
    <3> HIDE DEF pt
    <3>4. m.from \in Targets(board, m.to, pt)
      BY <1>5, <3>1, TargetsBack
    <3> QED BY <1>1, <2>5, <3>1, <3>3, <3>4 DEF Attacked
  <2>8. CASE IsPawnMove(g, m)
    <3>1. board[m.from] = <<us, "pawn">> /\ m.to \in PawnHits(us, m.from)
      BY <2>6, <2>8 DEF IsPawnMove
    <3>2. m.from \in PawnHits(them, m.to)
      BY <1>2, <1>5, <3>1, PawnHitsBack
    <3> QED BY <1>1, <2>5, <3>1, <3>2 DEF Attacked
  <2>9. CASE IsDouble(g, m)
    BY <2>6, <2>9 DEF IsDouble
  <2>10. CASE IsEnPassant(g, m)
    BY <1>8, <2>10 DEF IsEnPassant
  <2>11. CASE IsCastling(g, m)
    BY <1>3, <2>6, <2>11 DEF IsCastling, Playable
  <2> QED BY <1>4, <2>7, <2>8, <2>9, <2>10, <2>11
<1> QED BY <1>7, <1>8

\* Each side keeps the one king it has, and its square is known.
LEMMA KingsStayHome ==
  ASSUME NEW g, Honest(g), NEW m \in Pseudo(g)
  PROVE  LET after == MakeMove(g.at, m)
         IN  \A c \in Color : \A s \in Square : after.board[s] = <<c, "king">> <=> s = after.king[c]
<1> DEFINE us == g.at.side
           them == Them(us)
           board == g.at.board
           taken == CapturedSq(g.at, m)
           after == MakeMove(g.at, m)
           kings == g.at.king
<1>1. g \in Game /\ \A c \in Color : \A s \in Square : board[s] = <<c, "king">> <=> s = kings[c]
  BY DEF Honest, KingsHome
<1>2. /\ us \in Color /\ them \in Color /\ them # us /\ g.at \in Position
      /\ kings \in [Color -> Square]
      /\ \A s \in Square : board[s] \in Piece \cup {Empty}
  BY <1>1, GameParts
<1>3. m \in Move /\ Playable(g.at, m)
  BY GeneratedIsPlayable
<1>4. m.from \in Square /\ m.to \in Square /\ m.from # m.to /\ board[m.from][1] = us
  BY <1>3 DEF Move, Playable
<1>5. \A c \in Color : kings[c] \in Square /\ board[kings[c]] = <<c, "king">>
  BY <1>1, <1>2
<1>6. \A c \in Color : kings[c] # taken
  <2>1. board[taken][2] # "king"
    BY NoKingTaken
  <2> QED BY <1>5, <2>1, SMTT(30)
<1>7. \A c \in Color : Empty # <<c, "king">>
  BY DEF Empty
<1>8. /\ board[m.from][2] = "king" => after.king = [kings EXCEPT ![us] = m.to]
      /\ board[m.from][2] # "king" => after.king = kings
  BY DEF MakeMove
<1>9. board[m.from][2] = "king" <=> m.from = kings[us]
  <2>1. board[m.from] \in Piece
    BY <1>2, <1>4, EmptyIsNoPiece
  <2>2. board[m.from] = <<us, board[m.from][2]>>
    BY <1>4, <2>1 DEF Piece
  <2> QED BY <1>1, <1>2, <1>4, <1>5, <2>2
<1>10. m.from # kings[them]
  <2>1. board[kings[them]] = <<them, "king">>
    BY <1>2, <1>5
  <2>2. board[kings[them]][1] = them
    BY <2>1
  <2> QED BY <1>2, <1>4, <2>2
<1> HIDE DEF us, them, board, taken, after, kings
<1> SUFFICES ASSUME NEW c \in Color, NEW s \in Square
             PROVE  after.board[s] = <<c, "king">> <=> s = after.king[c]
  BY DEF after
<1>11. c = us \/ c = them
  BY <1>2 DEF Color
<1>12. /\ after.king[us] = IF m.from = kings[us] THEN m.to ELSE kings[us]
       /\ after.king[them] = kings[them]
  BY <1>2, <1>8, <1>9
<1>13. CASE m.kind \notin Castles
  <2>1. /\ taken \in Square /\ taken # m.from
        /\ taken # m.to => board[m.to] = Empty
        /\ after.board[m.from] = Empty
        /\ taken # m.to => after.board[taken] = Empty
        /\ \A x \in Square \ {m.from, m.to, taken} : after.board[x] = board[x]
    BY <1>2, <1>3, <1>13, PlainBoard DEF after, taken, board
  <2>2. after.board[m.to] = IF m.kind = "promotion" THEN <<us, m.promotion>> ELSE board[m.from]
    BY <1>2, <1>3, <1>13, Arrived DEF after, board, us
  <2>3. m.kind = "promotion" => m.promotion # "king" /\ m.from # kings[us]
    BY <1>3, <1>9 DEF Playable, board
  <2>4. m.to # kings[them]
    BY <1>2, <1>5, <1>6, <1>7, <2>1
  <2>5. m.to # kings[us]
    BY <1>2, <1>5, <1>6, <1>7, <2>1, SMTT(30)
  <2>6. CASE s = m.to
    <3>1. after.board[m.to] = <<us, "king">> <=> m.from = kings[us]
      BY <1>1, <1>2, <1>4, <2>2, <2>3
    <3>2. after.board[m.to] # <<them, "king">>
      BY <1>2, <1>4, <2>2
    <3> QED BY <1>11, <1>12, <2>4, <2>5, <2>6, <3>1, <3>2
  <2>7. CASE s = m.from
    BY <1>4, <1>7, <1>10, <1>11, <1>12, <2>1, <2>7
  <2>8. CASE s = taken /\ s # m.to
    BY <1>2, <1>6, <1>7, <1>11, <1>12, <2>1, <2>8
  <2>9. CASE s \notin {m.from, m.to, taken}
    <3>1. after.board[s] = <<c, "king">> <=> s = kings[c]
      BY <1>1, <2>1, <2>9
    <3> QED BY <1>11, <1>12, <2>9, <3>1
  <2> QED BY <2>6, <2>7, <2>8, <2>9
<1>14. CASE m.kind \in Castles
  <2> DEFINE rook == CastleRook[us][m.kind]
  <2>1. /\ rook.from \in Square /\ rook.to \in Square
        /\ m.from # m.to /\ rook.from \notin {m.from, m.to} /\ rook.to \notin {m.from, m.to, rook.from}
        /\ board[m.to] = Empty /\ board[rook.to] = Empty /\ board[rook.from] = <<us, "rook">>
        /\ after.board[m.from] = Empty /\ after.board[rook.from] = Empty
        /\ after.board[m.to] = board[m.from] /\ after.board[rook.to] = <<us, "rook">>
        /\ \A x \in Square \ {m.from, m.to, rook.from, rook.to} : after.board[x] = board[x]
    BY <1>2, <1>3, <1>14, CastleBoard, ZenonT(30) DEF after, board, us
  <2>2. m.from = kings[us]
    BY <1>3, <1>9, <1>14 DEF Playable, board
  <2> HIDE DEF rook
  <2>4. \A x \in Color : <<us, "rook">> # <<x, "king">>
    OBVIOUS
  <2>3. ASSUME NEW x \in Color PROVE kings[x] \notin {m.to, rook.to, rook.from}
    <3>1. board[kings[x]] = <<x, "king">>
      BY <1>5
    <3>2. board[kings[x]] # Empty /\ board[kings[x]] # <<us, "rook">>
      BY <1>7, <2>4, <3>1
    <3>3. board[m.to] = Empty /\ board[rook.to] = Empty /\ board[rook.from] = <<us, "rook">>
      BY <2>1
    <3> QED BY <3>2, <3>3
  <2>5. CASE s = m.to
    <3>1. after.board[s] = <<us, "king">>
      BY <1>2, <1>5, <2>1, <2>2, <2>5
    <3>2. after.board[s] # <<them, "king">>
      BY <1>2, <3>1
    <3> QED BY <1>2, <1>11, <1>12, <2>2, <2>3, <2>5, <3>1, <3>2
  <2>6. CASE s \in {m.from, rook.from, rook.to}
    <3>1. after.board[s] # <<c, "king">>
      BY <1>7, <2>1, <2>4, <2>6
    <3>2. s # after.king[c]
      BY <1>2, <1>10, <1>11, <1>12, <2>1, <2>2, <2>3, <2>6
    <3> QED BY <3>1, <3>2
  <2>7. CASE s \notin {m.from, m.to, rook.from, rook.to}
    <3>1. after.board[s] = <<c, "king">> <=> s = kings[c]
      BY <1>1, <2>1, <2>7
    <3> QED BY <1>11, <1>12, <2>2, <2>7, <3>1
  <2> QED BY <2>5, <2>6, <2>7
<1> QED BY <1>13, <1>14

-----------------------------------------------------------------------------

LEMMA HitsRank ==
  ASSUME NEW c \in Color, NEW s \in Square, NEW t \in PawnHits(c, s)
  PROVE  t \in Square /\ Rank(t) = Rank(s) + Forward(c)
<1>1. Forward(c) \in Int
  BY DEF Forward
<1>2. PICK a \in {-1, 1} : t \in Leap(s, <<a, Forward(c)>>)
  BY DEF PawnHits
<1> DEFINE d == <<a, Forward(c)>>
<1>3. d[1] \in Int /\ d[2] \in Int /\ d[2] = Forward(c)
  BY <1>1
<1> HIDE DEF d
<1>4. t \in Square /\ Rank(t) = Rank(s) + d[2]
  BY <1>2, <1>3, LeapIs DEF d
<1> QED BY <1>3, <1>4

LEMMA ShiftBy ==
  ASSUME NEW c \in Color, NEW s \in Square, NEW t \in Leap(s, <<0, Forward(c)>>)
  PROVE  t = s + Forward(c) * Width /\ t # s
<1>1. t \in Square /\ File(t) = File(s) /\ Rank(t) = Rank(s) + Forward(c)
  BY ShiftIs
<1>2. /\ s = Rank(s) * Width + File(s) /\ t = Rank(t) * Width + File(t)
      /\ File(s) \in Int /\ Rank(s) \in Int
  BY <1>1, SquareParts
<1>3. Width \in Nat \ {0} /\ Forward(c) \in {-1, 1}
  BY GeometryAssumption DEF Forward
<1>4. (Rank(s) + Forward(c)) * Width = Rank(s) * Width + Forward(c) * Width
  BY <1>2, <1>3
<1> QED BY <1>1, <1>2, <1>3, <1>4

\* A pawn that does not promote stays off the last ranks.
LEMMA PawnArrives ==
  ASSUME NEW g, Honest(g), NEW m \in Move, m.kind # "promotion",
         IsPawnMove(g, m) \/ IsDouble(g, m) \/ IsEnPassant(g, m)
  PROVE  Rank(m.to) # 0 /\ Rank(m.to) # Height - 1
<1> DEFINE us == g.at.side
           board == g.at.board
<1>1. g \in Game /\ PawnsBetween(g) /\ EpTaken(g)
  BY DEF Honest
<1>2. us \in Color /\ Them(us) \in Color
  BY <1>1, GameParts
<1>3. Height \in Nat /\ Height >= 5 /\ m.from \in Square /\ m.to \in Square
  BY GeometryAssumption DEF Move
<1>4. Rank(m.from) \in 0..(Height - 1)
  BY <1>3, SquareParts
<1>5. CASE IsPawnMove(g, m)
  <2>1. board[m.from] = <<us, "pawn">> /\ Rank(m.to) # LastRank(us)
    BY <1>5 DEF IsPawnMove
  <2>2. Rank(m.from) # 0 /\ Rank(m.from) # Height - 1
    BY <1>1, <1>3, <2>1 DEF PawnsBetween
  <2>3. m.to \in Leap(m.from, <<0, Forward(us)>>) \/ m.to \in PawnHits(us, m.from)
    BY <1>5 DEF IsPawnMove
  <2>4. Rank(m.to) = Rank(m.from) + Forward(us)
    BY <1>2, <1>3, <2>3, HitsRank, ShiftIs
  <2> QED BY <1>2, <1>3, <1>4, <2>1, <2>2, <2>4 DEF Forward, LastRank
<1>6. CASE IsDouble(g, m)
  <2>1. PICK v \in Square : Rank(v) = ThirdRank(us) /\ m.to \in Leap(v, <<0, Forward(us)>>)
    BY <1>6 DEF IsDouble
  <2>2. Rank(m.to) = ThirdRank(us) + Forward(us)
    BY <1>2, <2>1, ShiftIs
  <2> QED BY <1>2, <1>3, <2>2 DEF Forward, ThirdRank
<1>7. CASE IsEnPassant(g, m)
  <2>1. m.to = g.ep /\ g.ep # NoSquare
    BY <1>3, <1>7, NoSquareIsOff DEF IsEnPassant
  <2>2. Rank(m.to) = ThirdRank(Them(us))
    BY <1>1, <2>1 DEF EpTaken
  <2> QED BY <1>2, <1>3, <2>2 DEF ThirdRank
<1> QED BY <1>5, <1>6, <1>7

LEMMA PawnsStayBetween ==
  ASSUME NEW g, Honest(g), NEW m \in Pseudo(g), NEW s \in Square,
         MakeMove(g.at, m).board[s][2] = "pawn"
  PROVE  Rank(s) # 0 /\ Rank(s) # Height - 1
<1> DEFINE us == g.at.side
           board == g.at.board
           after == MakeMove(g.at, m)
           taken == CapturedSq(g.at, m)
           rook == CastleRook[us][m.kind]
<1>1. g \in Game /\ PawnsBetween(g)
  BY DEF Honest
<1>2. us \in Color /\ g.at \in Position
  BY <1>1, GameParts
<1>3. m \in Move /\ Playable(g.at, m)
  BY GeneratedIsPlayable
<1>4. /\ IsPieceMove(g, m) \/ IsPawnMove(g, m) \/ IsDouble(g, m) \/ IsEnPassant(g, m) \/ IsCastling(g, m)
  BY <1>1, PseudoIs
<1>5. Empty[2] # "pawn"
  BY DEF Empty
<1>6. CASE board[s][2] = "pawn"
  BY <1>1, <1>6 DEF PawnsBetween
<1>7. CASE board[s][2] # "pawn" /\ m.kind \notin Castles
  <2>1. /\ after.board[m.from] = Empty
        /\ taken # m.to => after.board[taken] = Empty
        /\ \A x \in Square \ {m.from, m.to, taken} : after.board[x] = board[x]
    BY <1>2, <1>3, <1>7, PlainBoard
  <2>2. s = m.to
    BY <1>5, <1>7, <2>1
  <2>3. after.board[m.to] = IF m.kind = "promotion" THEN <<us, m.promotion>> ELSE board[m.from]
    BY <1>2, <1>3, <1>7, Arrived
  <2> HIDE DEF after, board, us
  <2>4. ~IsPieceMove(g, m)
    <3> SUFFICES ASSUME IsPieceMove(g, m) PROVE FALSE
      OBVIOUS
    <3>1. m.kind = "plain" /\ board[m.from][2] # "pawn"
      BY DEF IsPieceMove, board
    <3> QED BY <2>2, <2>3, <3>1 DEF after
  <2>5. ~IsCastling(g, m)
    BY <1>7 DEF IsCastling
  <2>6. m.kind # "promotion"
    <3> SUFFICES ASSUME m.kind = "promotion" PROVE FALSE
      OBVIOUS
    <3>1. IsPawnMove(g, m)
      BY <1>4, <2>4, <2>5 DEF IsDouble, IsEnPassant
    <3>2. m.promotion # "pawn"
      <4>1. m.kind # "plain" => m.promotion \in Type \ {"pawn", "king"}
        BY <3>1, Zenon DEF IsPawnMove
      <4> QED BY <4>1
    <3>3. after.board[m.to] = <<us, m.promotion>>
      BY <2>3
    <3>4. after.board[m.to][2] = m.promotion
      BY <3>3
    <3> QED BY <2>2, <3>2, <3>4 DEF after
  <2> QED BY <1>3, <1>4, <2>2, <2>4, <2>5, <2>6, PawnArrives
<1>8. CASE board[s][2] # "pawn" /\ m.kind \in Castles
  <2>1. /\ after.board[m.from] = Empty /\ after.board[rook.from] = Empty
        /\ after.board[m.to] = board[m.from] /\ after.board[rook.to] = <<us, "rook">>
        /\ \A x \in Square \ {m.from, m.to, rook.from, rook.to} : after.board[x] = board[x]
    BY <1>2, <1>3, <1>8, CastleBoard
  <2>2. board[m.from][2] = "king"
    BY <1>3, <1>8 DEF Playable
  <2>3. <<us, "rook">>[2] = "rook"
    OBVIOUS
  <2>4. s \in {m.from, rook.from} \/ s = m.to \/ s = rook.to
    BY <1>8, <2>1
  <2> HIDE DEF after, board, us, rook
  <2>5. after.board[s][2] # "pawn"
    BY <1>5, <2>1, <2>2, <2>3, <2>4
  <2> QED BY <2>5 DEF after
<1> QED BY <1>6, <1>7, <1>8

\* A right that a move leaves still has its king and its rook at home.
LEMMA RightsStayHome ==
  ASSUME NEW g, Honest(g), NEW m \in Pseudo(g), NEW x \in Moved(g, m).rights
  PROVE  /\ MakeMove(g.at, m).board[CastleKing[x[1]][x[2]].from] = <<x[1], "king">>
         /\ MakeMove(g.at, m).board[CastleRook[x[1]][x[2]].from] = <<x[1], "rook">>
<1> DEFINE us == g.at.side
           board == g.at.board
           after == MakeMove(g.at, m)
           taken == CapturedSq(g.at, m)
           rook == CastleRook[us][m.kind]
           ks == CastleKing[x[1]][x[2]].from
           rs == CastleRook[x[1]][x[2]].from
           lost == IF board[taken] # Empty THEN RightsOf(taken) ELSE {}
<1>1. g \in Game /\ RightsHome(g) /\ KingsHome(g)
  BY DEF Honest
<1>2. us \in Color /\ g.at \in Position /\ g.rights \in SUBSET Right
  BY <1>1, GameParts
<1>3. m \in Move /\ Playable(g.at, m)
  BY GeneratedIsPlayable
<1>4. x \in g.rights /\ x \notin RightsOf(m.from) /\ x \notin lost
  <2>1. Moved(g, m).rights = g.rights \ (RightsOf(m.from) \cup lost)
    <3>1. Info(g, m).captured = board[taken] /\ Info(g, m).capturedSq = taken
      BY DEF Info
    <3> QED BY <1>1, <3>1 DEF Moved, Game
  <2> QED BY <2>1
<1>5. x \in Right /\ x[1] \in Color /\ x[2] \in Castles
  BY <1>2, <1>4 DEF Right
<1>6. ks \in Square /\ rs \in Square
  <2>1. \A c \in Color : \A k \in Castles :
          CastleKing[c][k].from \in Square /\ CastleRook[c][k].from \in Square
    <3> SUFFICES ASSUME NEW c \in Color, NEW k \in Castles
                 PROVE  CastleKing[c][k].from \in Square /\ CastleRook[c][k].from \in Square
      OBVIOUS
    <3>1. CastleKing[c][k] \in [from: Square, to: Square, clear: SUBSET Square]
      BY GeometryAssumption
    <3>2. CastleRook[c][k] \in [from: Square, to: Square]
      BY BoardAssumption
    <3>3. CastleKing[c][k].from \in Square
      BY <3>1
    <3>4. CastleRook[c][k].from \in Square
      BY <3>2
    <3> QED BY <3>3, <3>4
  <2> QED BY <1>5, <2>1
<1>7. board[ks] = <<x[1], "king">> /\ board[rs] = <<x[1], "rook">>
  BY <1>1, <1>4 DEF RightsHome
<1>8. board[ks] # Empty /\ board[rs] # Empty
  <2>1. \A c : <<c, "king">> # Empty /\ <<c, "rook">> # Empty
    BY DEF Empty
  <2> QED BY <1>7, <2>1
<1>9. ks # m.from /\ rs # m.from
  BY <1>4, <1>5 DEF RightsOf
<1>10. ks # taken /\ rs # taken
  <2>1. CASE board[taken] = Empty
    BY <1>8, <2>1
  <2>2. CASE board[taken] # Empty
    BY <1>4, <1>5, <2>2 DEF RightsOf
  <2> QED BY <2>1, <2>2
<1>11. CASE m.kind \notin Castles
  <2>1. /\ taken # m.to => board[m.to] = Empty
        /\ \A s \in Square \ {m.from, m.to, taken} : after.board[s] = board[s]
    BY <1>2, <1>3, <1>11, PlainBoard
  <2> HIDE DEF after, board, taken, ks, rs
  <2>2. ks # m.to /\ rs # m.to
    BY <1>8, <1>10, <2>1
  <2>3. after.board[ks] = board[ks] /\ after.board[rs] = board[rs]
    BY <1>6, <1>9, <1>10, <2>1, <2>2
  <2> QED BY <1>7, <2>3 DEF after, ks, rs
<1>12. CASE m.kind \in Castles
  <2>1. /\ taken = m.to /\ board[rook.to] = Empty
        /\ board[rook.from] = <<us, "rook">>
        /\ \A s \in Square \ {m.from, m.to, rook.from, rook.to} : after.board[s] = board[s]
    BY <1>2, <1>3, <1>12, CastleBoard
  <2>2. board[m.from] = <<us, "king">>
    <3>1. board[m.from][2] = "king" /\ board[m.from][1] = us
      BY <1>3, <1>12 DEF Playable
    <3>2. board[m.from] \in Piece
      BY <1>2, <1>3, <3>1, EmptyIsNoPiece DEF Position, Move
    <3> QED BY <3>1, <3>2 DEF Piece
  <2>3. m.from \in Square /\ m.from = g.at.king[us]
    BY <1>1, <1>2, <1>3, <2>2 DEF KingsHome, Move
  <2>4. ks = g.at.king[x[1]]
    BY <1>1, <1>5, <1>6, <1>7 DEF KingsHome
  <2> HIDE DEF after, board, taken, ks, rs, rook, us
  <2>5. rs # rook.from
    <3>1. SUFFICES ASSUME rs = rook.from PROVE FALSE
      OBVIOUS
    <3>2. <<x[1], "rook">> = <<us, "rook">>
      BY <1>7, <2>1, <3>1
    <3>3. x[1] = us
      BY <3>2
    <3> QED BY <1>9, <2>3, <2>4, <3>3
  <2>6. ks # rook.from
    <3>1. <<x[1], "king">> # <<us, "rook">>
      OBVIOUS
    <3> QED BY <1>7, <2>1, <3>1
  <2>7. ks # rook.to /\ rs # rook.to
    BY <1>8, <2>1
  <2>8. after.board[ks] = board[ks] /\ after.board[rs] = board[rs]
    BY <1>6, <1>9, <1>10, <2>1, <2>5, <2>6, <2>7
  <2> QED BY <1>7, <2>8 DEF after, ks, rs
<1> QED BY <1>11, <1>12

\* An en passant square that a double step leaves can be taken on.
LEMMA EpStaysTaken ==
  ASSUME NEW g, Honest(g), NEW m \in Pseudo(g), DoubleEp(g, m) # NoSquare
  PROVE  LET after == MakeMove(g.at, m)
             ep == DoubleEp(g, m)
         IN  /\ ep \in Square /\ Rank(ep) = ThirdRank(Them(after.side)) /\ after.board[ep] = Empty
             /\ ep - Forward(after.side) * Width \in Square
             /\ after.board[ep - Forward(after.side) * Width] = <<Them(after.side), "pawn">>
             /\ Capturable(after.board, ep, after.side)
<1> DEFINE us == g.at.side
           them == Them(us)
           board == g.at.board
           after == MakeMove(g.at, m)
           ep == DoubleEp(g, m)
<1>1. g \in Game
  BY DEF Honest
<1>2. us \in Color /\ g.at \in Position /\ them \in Color /\ Them(them) = us
  BY <1>1, GameParts
<1>3. m \in Move /\ Playable(g.at, m)
  BY GeneratedIsPlayable
<1>4. m.kind = "double" /\ ep = m.from + Forward(us) * Width /\ Capturable(after.board, ep, them)
  BY DEF DoubleEp
<1>5. IsDouble(g, m)
  BY <1>1, <1>4, PseudoIs DEF IsPieceMove, IsPawnMove, IsEnPassant, IsCastling, Castles
<1>6. PICK v \in Square : /\ v \in Leap(m.from, <<0, Forward(us)>>) /\ board[v] = Empty
                          /\ Rank(v) = ThirdRank(us)
                          /\ m.to \in Leap(v, <<0, Forward(us)>>) /\ board[m.to] = Empty
  BY <1>5 DEF IsDouble
<1>7. board[m.from] = <<us, "pawn">> /\ m.from \in Square /\ m.to \in Square
  BY <1>3, <1>5 DEF IsDouble, Move
<1>8. ep = v /\ m.to = v + Forward(us) * Width /\ m.to # v /\ v # m.from
  BY <1>2, <1>4, <1>6, <1>7, ShiftBy
<1>9. after.side = them
  BY DEF MakeMove
<1>10. Forward(us) \in Int /\ Forward(them) = -Forward(us) /\ Width \in Int /\ v \in Int
  BY <1>2, <1>6, GeometryAssumption DEF Forward, Them, Color
<1>11. ep - Forward(them) * Width = m.to
  BY <1>8, <1>10
<1>12. m.kind \notin Castles /\ CapturedSq(g.at, m) = m.to
  BY <1>4 DEF Castles, CapturedSq
<1>13. after.board[v] = board[v]
  BY <1>2, <1>3, <1>6, <1>8, <1>12, PlainBoard
<1>14. after.board[m.to] = board[m.from]
  BY <1>2, <1>3, <1>4, <1>12, Arrived
<1> HIDE DEF us, them, board, after, ep
<1> QED BY <1>2, <1>4, <1>6, <1>7, <1>8, <1>9, <1>11, <1>13, <1>14 DEF ep, after

LEMMA IdentityOf == ASSUME NEW g \in Game PROVE KeyOf(g) \in Identity
<1>1. g.at \in Position /\ g.rights \in SUBSET Right /\ g.ep \in Square \cup {NoSquare}
  BY DEF Game
<1>2. g.at.board \in [Square -> Piece \cup {Empty}] /\ g.at.side \in Color
  BY <1>1 DEF Position
<1> QED BY <1>1, <1>2 DEF KeyOf, Identity

LEMMA MovedIs ==
  ASSUME NEW g, Honest(g), NEW m \in Pseudo(g)
  PROVE  /\ Moved(g, m) \in Game
         /\ Moved(g, m).at = MakeMove(g.at, m) /\ Moved(g, m).ep = DoubleEp(g, m)
         /\ Moved(g, m).keys = g.keys /\ Moved(g, m).frames = g.frames
<1> DEFINE st == Info(g, m)
           taken == IF st.captured # Empty THEN RightsOf(st.capturedSq) ELSE {}
           rights == g.rights \ (RightsOf(m.from) \cup taken)
           clock == IF st.moved[2] = "pawn" \/ st.captured # Empty THEN 0 ELSE g.clock + 1
<1>1. g \in Game
  BY DEF Honest
<1>2. g.rights \in SUBSET Right /\ g.clock \in Nat /\ g.keys \in Seq(Identity) /\ g.frames \in Seq(Frame)
  BY <1>1 DEF Game
<1>3. m \in Move /\ Playable(g.at, m) /\ g.at \in Position
  BY <1>1, GeneratedIsPlayable, GameParts
<1>4. MakeMove(g.at, m) \in Position
  BY <1>3, MovedType
<1>5. DoubleEp(g, m) \in Square \cup {NoSquare}
  BY EpStaysTaken
<1>6. Moved(g, m) = [g EXCEPT !.at = MakeMove(g.at, m), !.rights = rights, !.ep = DoubleEp(g, m),
                              !.clock = clock]
  BY <1>1 DEF Moved, Game
<1>7. rights \in SUBSET Right /\ clock \in Nat
  BY <1>2
<1> HIDE DEF rights, clock
<1>8. Moved(g, m) = [at |-> MakeMove(g.at, m), rights |-> rights, ep |-> DoubleEp(g, m),
                     clock |-> clock, keys |-> g.keys, frames |-> g.frames]
  BY <1>1, <1>6 DEF Game
<1> QED BY <1>2, <1>4, <1>5, <1>7, <1>8 DEF Game

LEMMA RepetitionIsNat == ASSUME NEW g \in Game PROVE Reversible(g) \in Int /\ RepetitionCount(g) \in Nat
<1>1. g.clock \in Nat /\ g.keys \in Seq(Identity)
  BY DEF Game
<1>2. Reversible(g) \in Int
  BY <1>1 DEF Reversible
<1>3. IsFiniteSet(2..Reversible(g))
  BY <1>2, FS_Interval
<1> DEFINE S == {back \in 2..Reversible(g) : back % 2 = 0 /\ g.keys[Len(g.keys) - back] = KeyOf(g)}
<1>4. S \subseteq 2..Reversible(g)
  OBVIOUS
<1> HIDE DEF S
<1>5. Cardinality(S) \in Nat
  BY <1>3, <1>4, FS_Subset, FS_CardinalityType
<1> QED BY <1>2, <1>5 DEF RepetitionCount, S

LEMMA RecordedIs ==
  ASSUME NEW g \in Game, Len(g.frames) \in 1..FrameLimit
  PROVE  /\ Recorded(g) \in Game
         /\ Recorded(g).at = g.at /\ Recorded(g).ep = g.ep /\ Recorded(g).rights = g.rights
         /\ Recorded(g).clock = g.clock
         /\ Recorded(g).keys = Append(g.keys, KeyOf(g))
         /\ \E f \in Frame : Recorded(g).frames =
              Append(IF Len(g.frames) = FrameLimit THEN Tail(g.frames) ELSE g.frames, f)
         /\ Len(Recorded(g).frames) \in 1..FrameLimit
<1> DEFINE next == [g EXCEPT !.keys = Append(g.keys, KeyOf(g))]
           frame == [board |-> g.at.board, repeated |-> RepetitionCount(next) > 0]
           kept == IF Len(g.frames) = FrameLimit THEN Tail(g.frames) ELSE g.frames
<1>1. /\ g.at \in Position /\ g.rights \in SUBSET Right /\ g.clock \in Nat
      /\ g.ep \in Square \cup {NoSquare} /\ g.keys \in Seq(Identity) /\ g.frames \in Seq(Frame)
  BY DEF Game
<1>2. KeyOf(g) \in Identity
  BY IdentityOf
<1>4. next = [at |-> g.at, rights |-> g.rights, ep |-> g.ep, clock |-> g.clock,
              keys |-> Append(g.keys, KeyOf(g)), frames |-> g.frames]
  <2> DEFINE keys == Append(g.keys, KeyOf(g))
  <2>1. \A k : [g EXCEPT !.keys = k] = [at |-> g.at, rights |-> g.rights, ep |-> g.ep,
                                         clock |-> g.clock, keys |-> k, frames |-> g.frames]
    BY DEF Game
  <2> QED BY <2>1
<1>13. next \in Game
  <2>1. Append(g.keys, KeyOf(g)) \in Seq(Identity)
    BY <1>1, <1>2
  <2> QED BY <1>1, <1>4, <2>1 DEF Game
<1>3. frame \in Frame
  <2>1. g.at.board \in [Square -> Piece \cup {Empty}]
    BY <1>1 DEF Position
  <2> HIDE DEF next
  <2>3. RepetitionCount(next) \in Nat
    BY <1>13, RepetitionIsNat
  <2>2. (RepetitionCount(next) > 0) \in BOOLEAN
    BY <2>3
  <2> QED BY <2>1, <2>2, Zenon DEF Frame
<1>5. Recorded(g) = [next EXCEPT !.frames = Append(IF Len(next.frames) = FrameLimit
                                                  THEN Tail(next.frames) ELSE next.frames, frame)]
  BY Zenon DEF Recorded
<1> HIDE DEF next, frame
<1>6. next.frames = g.frames
  BY <1>4
<1>7. Recorded(g) = [at |-> g.at, rights |-> g.rights, ep |-> g.ep, clock |-> g.clock,
                     keys |-> Append(g.keys, KeyOf(g)), frames |-> Append(kept, frame)]
  BY <1>4, <1>5, <1>6
<1>8. kept \in Seq(Frame) /\ Len(kept) \in 0..(FrameLimit - 1)
  BY <1>1, HistoryAssumption
<1> HIDE DEF kept
<1>9. Append(kept, frame) \in Seq(Frame) /\ Len(Append(kept, frame)) = Len(kept) + 1
  BY <1>3, <1>8
<1>10. Append(g.keys, KeyOf(g)) \in Seq(Identity)
  BY <1>1, <1>2
<1>11. Recorded(g) \in Game
  BY <1>1, <1>7, <1>9, <1>10 DEF Game
<1>12. Len(Append(kept, frame)) \in 1..FrameLimit
  BY <1>8, <1>9, HistoryAssumption
<1> QED BY <1>3, <1>7, <1>11, <1>12 DEF kept

LEMMA MakeIs ==
  ASSUME NEW g, NEW m \in Legal(g)
  PROVE  m \in Pseudo(g) /\ Make(g, m) = Recorded(Moved(g, m)) /\ ~Exposed(g, m)
<1>1. m \in Pseudo(g) /\ ~Barred(g, m) /\ ~Exposed(g, m)
  BY DEF Legal, Succeeds
<1> QED BY <1>1 DEF Make

-----------------------------------------------------------------------------
\* The weight of a board, and what a move takes from it.

LEMMA WeightIs ==
  ASSUME NEW pc \in Piece \cup {Empty}, NEW s \in Square
  PROVE  /\ Weight(pc, s) \in 0..(Height + 2)
         /\ pc = Empty => Weight(pc, s) = 0
         /\ pc # Empty /\ pc[2] # "pawn" => Weight(pc, s) = 1
         /\ pc[2] = "pawn" => Weight(pc, s) = 2 + ToGo(pc[1], s) /\ Weight(pc, s) >= 2
<1>1. Height \in Nat /\ Height >= 5 /\ Rank(s) \in 0..(Height - 1)
  BY GeometryAssumption, SquareParts
<1>2. ToGo(pc[1], s) \in 0..(Height - 1)
  BY <1>1 DEF ToGo
<1>3. Empty[2] # "pawn"
  BY DEF Empty
<1> QED BY <1>1, <1>2, <1>3 DEF Weight

LEMMA UnitsAreFinite ==
  ASSUME NEW board \in [Square -> Piece \cup {Empty}]
  PROVE  IsFiniteSet(Units(board)) /\ BoardWeight(board) \in Nat
<1>1. Width * Height - 1 \in Int /\ Height + 2 \in Int /\ Square = 0..(Width * Height - 1)
  BY GeometryAssumption
<1>2. IsFiniteSet(Square) /\ IsFiniteSet(1..(Height + 2))
  BY <1>1, FS_Interval
<1>3. IsFiniteSet(Square \X (1..(Height + 2)))
  BY <1>2, FS_Product
<1>4. IsFiniteSet(Units(board))
  BY <1>3, FS_Subset DEF Units
<1> QED BY <1>4, FS_CardinalityType DEF BoardWeight

\* Every man of the board after has one of at least its weight on the board before;
\* if some of that weight is left over, the board has become lighter.
LEMMA WeightFalls ==
  ASSUME NEW before \in [Square -> Piece \cup {Empty}], NEW after \in [Square -> Piece \cup {Empty}],
         NEW f \in [Square -> Square],
         \A s \in Square : after[s] # Empty => Weight(after[s], s) <= Weight(before[f[s]], f[s]),
         \A s, t \in Square : after[s] # Empty /\ after[t] # Empty /\ f[s] = f[t] => s = t
  PROVE  /\ BoardWeight(after) <= BoardWeight(before)
         /\ (\E t \in Square, k \in 1..(Height + 2) :
               /\ k <= Weight(before[t], t)
               /\ \A s \in Square : after[s] # Empty /\ f[s] = t => ~(k <= Weight(after[s], s)))
            => BoardWeight(after) < BoardWeight(before)
<1> DEFINE F == [x \in Units(after) |-> <<f[x[1]], x[2]>>]
<1>1. \A x \in Units(after) : /\ x[1] \in Square /\ x[2] \in 1..(Height + 2)
                              /\ x = <<x[1], x[2]>> /\ after[x[1]] # Empty
                              /\ x[2] <= Weight(after[x[1]], x[1])
  <2> SUFFICES ASSUME NEW x \in Units(after) PROVE after[x[1]] # Empty
    BY DEF Units
  <2>1. x[1] \in Square /\ x[2] >= 1 /\ x[2] <= Weight(after[x[1]], x[1]) /\ x[2] \in Int
    BY GeometryAssumption DEF Units
  <2>2. after[x[1]] \in Piece \cup {Empty}
    BY <2>1
  <2>3. after[x[1]] = Empty => Weight(after[x[1]], x[1]) = 0
    BY <2>1, <2>2, WeightIs
  <2> QED BY <2>1, <2>3
<1>2. \A x \in Units(after) : F[x] \in Units(before)
  <2> SUFFICES ASSUME NEW x \in Units(after) PROVE <<f[x[1]], x[2]>> \in Units(before)
    OBVIOUS
  <2>1. /\ x[1] \in Square /\ x[2] \in 1..(Height + 2) /\ f[x[1]] \in Square
        /\ Weight(after[x[1]], x[1]) <= Weight(before[f[x[1]]], f[x[1]])
        /\ x[2] <= Weight(after[x[1]], x[1])
    BY <1>1
  <2>2. /\ Weight(after[x[1]], x[1]) \in Int /\ Weight(before[f[x[1]]], f[x[1]]) \in Int /\ x[2] \in Int
    <3>1. after[x[1]] \in Piece \cup {Empty} /\ before[f[x[1]]] \in Piece \cup {Empty}
      BY <2>1
    <3>2. \A n \in 0..(Height + 2) : n \in Int
      BY GeometryAssumption
    <3> QED BY <2>1, <3>1, <3>2, WeightIs, SMTT(30)
  <2>3. x[2] <= Weight(before[f[x[1]]], f[x[1]])
    BY <2>1, <2>2
  <2> QED BY <2>1, <2>3 DEF Units
<1>3. ASSUME NEW x \in Units(after), NEW y \in Units(after), F[x] = F[y] PROVE x = y
  <2>1. f[x[1]] = f[y[1]] /\ x[2] = y[2]
    BY <1>3
  <2>2. x[1] = y[1]
    BY <1>1, <2>1
  <2> QED BY <1>1, <2>1, <2>2
<1>4. F \in [Units(after) -> Units(before)]
  BY <1>2
<1>5. F \in Injection(Units(after), Units(before))
  <2>1. DOMAIN F = Units(after)
    OBVIOUS
  <2> HIDE DEF F
  <2> QED BY <1>3, <1>4, <2>1 DEF Injection, IsInjective
<1> HIDE DEF F
<1>6. IsFiniteSet(Units(before)) /\ BoardWeight(before) \in Nat /\ BoardWeight(after) \in Nat
  BY UnitsAreFinite
<1>7. /\ BoardWeight(after) <= BoardWeight(before)
      /\ BoardWeight(after) = BoardWeight(before) <=> F \in Surjection(Units(after), Units(before))
  BY <1>5, <1>6, FS_Injection DEF BoardWeight
<1>8. ASSUME NEW t \in Square, NEW k \in 1..(Height + 2), k <= Weight(before[t], t),
             \A s \in Square : after[s] # Empty /\ f[s] = t => ~(k <= Weight(after[s], s))
      PROVE  BoardWeight(after) < BoardWeight(before)
  <2>1. <<t, k>> \in Units(before)
    BY <1>8 DEF Units
  <2>2. ASSUME NEW x \in Units(after), F[x] = <<t, k>> PROVE FALSE
    <3>1. f[x[1]] = t /\ x[2] = k
      BY <2>2 DEF F
    <3> QED BY <1>1, <1>8, <3>1
  <2>3. F \notin Surjection(Units(after), Units(before))
    BY <2>1, <2>2 DEF Surjection
  <2> QED BY <1>6, <1>7, <2>3
<1> QED BY <1>7, <1>8

\* A pawn move, and a capture, cannot be taken back.
Irreversible(g, m) == g.at.board[m.from][2] = "pawn" \/ g.at.board[CapturedSq(g.at, m)] # Empty

\* A pawn that moves has less far to go, or is a piece.
LEMMA PawnLightens ==
  ASSUME NEW g, Honest(g), NEW m \in Pseudo(g), g.at.board[m.from][2] = "pawn"
  PROVE  /\ m.kind \notin Castles
         /\ Weight(MakeMove(g.at, m).board[m.to], m.to) < Weight(g.at.board[m.from], m.from)
<1> DEFINE us == g.at.side
           board == g.at.board
           after == MakeMove(g.at, m).board
<1>1. g \in Game /\ m \in Move /\ Playable(g.at, m) /\ PawnsBetween(g)
  BY GeneratedIsPlayable DEF Honest
<1>2. us \in Color /\ g.at \in Position /\ \A s \in Square : board[s] \in Piece \cup {Empty}
  BY <1>1, GameParts
<1>3. Height \in Nat /\ Height >= 5 /\ m.from \in Square /\ m.to \in Square
  BY <1>1, GeometryAssumption DEF Move
<1>4. m.kind \notin Castles
  BY <1>1 DEF Playable
<1>5. IsPawnMove(g, m) \/ IsDouble(g, m) \/ IsEnPassant(g, m)
  <2>1. ~IsPieceMove(g, m)
    <3> SUFFICES ASSUME IsPieceMove(g, m) PROVE FALSE
      OBVIOUS
    <3>1. board[m.from][2] \in Type \ {"pawn"}
      BY DEF IsPieceMove
    <3> QED BY <3>1
  <2>2. ~IsCastling(g, m)
    BY <1>4 DEF IsCastling
  <2> QED BY <1>1, <2>1, <2>2, PseudoIs
<1>6. board[m.from] = <<us, "pawn">>
  BY <1>5 DEF IsPawnMove, IsDouble, IsEnPassant
<1>7. after[m.to] = IF m.kind = "promotion" THEN <<us, m.promotion>> ELSE board[m.from]
  BY <1>1, <1>2, <1>4, Arrived
<1>8. Rank(m.from) \in 0..(Height - 1) /\ Rank(m.to) \in 0..(Height - 1)
  BY <1>3, SquareParts
<1>9. Weight(<<us, "pawn">>, m.from) = 2 + ToGo(us, m.from) /\ Weight(<<us, "pawn">>, m.from) >= 2
  BY <1>2, <1>3, <1>6, WeightIs
<1> HIDE DEF after, board, us
<1>10. CASE m.kind = "promotion"
  <2>1. m.promotion # "pawn"
    <3>1. IsPawnMove(g, m)
      BY <1>5, <1>10 DEF IsDouble, IsEnPassant
    <3>2. m.kind # "plain" => m.promotion \in Type \ {"pawn", "king"}
      BY <3>1, Zenon DEF IsPawnMove
    <3> QED BY <1>10, <3>2
  <2>2. <<us, m.promotion>> \in Piece
    BY <1>1, <1>2 DEF Piece, Move
  <2>3. <<us, m.promotion>> # Empty /\ <<us, m.promotion>>[2] # "pawn"
    BY <2>1, <2>2, EmptyIsNoPiece
  <2>4. Weight(<<us, m.promotion>>, m.to) = 1
    BY <1>3, <2>2, <2>3, WeightIs
  <2>5. after[m.to] = <<us, m.promotion>>
    BY <1>7, <1>10
  <2>6. 1 < Weight(<<us, "pawn">>, m.from)
    BY <1>3, <1>8, <1>9 DEF ToGo
  <2> QED BY <1>4, <1>6, <2>4, <2>5, <2>6 DEF after, board
<1>11. CASE m.kind # "promotion"
  <2>1. after[m.to] = <<us, "pawn">>
    BY <1>6, <1>7, <1>11
  <2>2. Weight(<<us, "pawn">>, m.to) = 2 + ToGo(us, m.to)
    <3>1. <<us, "pawn">> \in Piece \cup {Empty}
      BY <1>2, BoardAssumption DEF Piece
    <3>2. <<us, "pawn">>[1] = us /\ <<us, "pawn">>[2] = "pawn"
      OBVIOUS
    <3> QED BY <1>3, <3>1, <3>2, WeightIs
  <2>3. Rank(m.to) = Rank(m.from) + Forward(us) \/ Rank(m.to) = Rank(m.from) + 2 * Forward(us)
    <3>1. CASE IsPawnMove(g, m)
      <4>1. m.to \in Leap(m.from, <<0, Forward(us)>>) \/ m.to \in PawnHits(us, m.from)
        BY <3>1 DEF IsPawnMove, us
      <4> QED BY <1>2, <1>3, <4>1, HitsRank, ShiftIs DEF us
    <3>2. CASE IsDouble(g, m)
      <4>1. PICK v \in Square : v \in Leap(m.from, <<0, Forward(us)>>) /\ m.to \in Leap(v, <<0, Forward(us)>>)
        BY <3>2 DEF IsDouble, us
      <4>2. us \in Color
        BY <1>2 DEF us
      <4>3. Rank(v) = Rank(m.from) + Forward(us) /\ Rank(m.to) = Rank(v) + Forward(us)
        BY <1>3, <4>1, <4>2, ShiftIs
      <4>4. Forward(us) \in Int /\ Rank(m.from) \in Int
        BY <1>8 DEF Forward
      <4> QED BY <4>3, <4>4
    <3>3. CASE IsEnPassant(g, m)
      <4>1. m.to \in PawnHits(us, m.from)
        BY <3>3 DEF IsEnPassant, us
      <4> QED BY <1>2, <1>3, <4>1, HitsRank DEF us
    <3> QED BY <1>5, <3>1, <3>2, <3>3
  <2>4. us \in Color
    BY <1>2 DEF us
  <2>5. ToGo(us, m.to) < ToGo(us, m.from) /\ ToGo(us, m.to) \in Int /\ ToGo(us, m.from) \in Int
    BY <1>3, <1>8, <2>3, <2>4 DEF ToGo, Forward, Color
  <2>6. 2 + ToGo(us, m.to) < 2 + ToGo(us, m.from)
    BY <2>5
  <2> QED BY <1>4, <1>6, <1>9, <2>1, <2>2, <2>6 DEF after, board
<1> QED BY <1>10, <1>11

LEMMA MoveLightens ==
  ASSUME NEW g, Honest(g), NEW m \in Pseudo(g)
  PROVE  LET before == BoardWeight(g.at.board)
             after == BoardWeight(MakeMove(g.at, m).board)
         IN  /\ before \in Nat /\ after \in Nat
             /\ after <= before
             /\ Irreversible(g, m) => after < before
<1> DEFINE us == g.at.side
           board == g.at.board
           after == MakeMove(g.at, m).board
           taken == CapturedSq(g.at, m)
           rook == CastleRook[us][m.kind]
<1>1. g \in Game /\ m \in Move /\ Playable(g.at, m) /\ PawnsBetween(g)
  BY GeneratedIsPlayable DEF Honest
<1>2. us \in Color /\ g.at \in Position /\ board \in [Square -> Piece \cup {Empty}]
  BY <1>1, GameParts
<1>3. Height \in Nat /\ Height >= 5 /\ m.from \in Square /\ m.to \in Square
  BY <1>1, GeometryAssumption DEF Move
<1>4. after \in [Square -> Piece \cup {Empty}]
  BY <1>1, <1>2, MovedType DEF Position
<1>5. BoardWeight(board) \in Nat /\ BoardWeight(after) \in Nat
  BY <1>2, <1>4, UnitsAreFinite
<1>6. CASE m.kind \notin Castles
  <2> DEFINE f == [s \in Square |-> IF s = m.to THEN m.from ELSE s]
  <2>1. /\ taken \in Square /\ taken # m.from /\ m.from # m.to
        /\ after[m.from] = Empty
        /\ taken # m.to => after[taken] = Empty
        /\ \A x \in Square \ {m.from, m.to, taken} : after[x] = board[x]
    BY <1>1, <1>2, <1>6, PlainBoard DEF Playable
  <2>2. after[m.to] = IF m.kind = "promotion" THEN <<us, m.promotion>> ELSE board[m.from]
    BY <1>1, <1>2, <1>6, Arrived
  <2>3. board[m.from][2] = "pawn" => Weight(after[m.to], m.to) < Weight(board[m.from], m.from)
    BY PawnLightens
  <2>4. board[m.from][2] # "pawn" => Weight(after[m.to], m.to) <= Weight(board[m.from], m.from)
    <3> SUFFICES ASSUME board[m.from][2] # "pawn"
                 PROVE  Weight(after[m.to], m.to) <= Weight(board[m.from], m.from)
      OBVIOUS
    <3>1. m.kind # "promotion"
      BY <1>1 DEF Playable
    <3>2. after[m.to] = board[m.from] /\ board[m.from] \in Piece \cup {Empty} /\ board[m.from] # Empty
      <4>1. board[m.from][1] = us
        BY <1>1 DEF Playable
      <4> QED BY <1>2, <1>3, <2>2, <3>1, <4>1, EmptyIsNoPiece
    <3>3. Weight(after[m.to], m.to) = 1 /\ Weight(board[m.from], m.from) = 1
      BY <1>3, <3>2, WeightIs
    <3> QED BY <3>3
  <2>5. Weight(after[m.to], m.to) \in 0..(Height + 2) /\ Weight(board[m.from], m.from) \in 0..(Height + 2)
    <3>1. after[m.to] \in Piece \cup {Empty} /\ board[m.from] \in Piece \cup {Empty}
      BY <1>2, <1>3, <1>4
    <3> QED BY <1>3, <3>1, WeightIs
  <2> DEFINE wa == Weight(after[m.to], m.to)
             wb == Weight(board[m.from], m.from)
  <2>6. wa \in Int /\ wb \in Int /\ wa <= wb /\ wa >= 0 /\ wb <= Height + 2
    BY <1>3, <2>3, <2>4, <2>5
  <2> HIDE DEF wa, wb, taken, after, board
  <2>7. f \in [Square -> Square] /\ f[m.to] = m.from /\ \A s \in Square : s # m.to => f[s] = s
    BY <1>3
  <2> HIDE DEF f
  <2>8. \A s \in Square : after[s] # Empty => s = m.to \/ (s \notin {m.from, m.to, taken} /\ after[s] = board[s])
    BY <2>1
  <2>9. \A s \in Square : after[s] # Empty => Weight(after[s], s) <= Weight(board[f[s]], f[s])
    <3> SUFFICES ASSUME NEW s \in Square, after[s] # Empty
                 PROVE  Weight(after[s], s) <= Weight(board[f[s]], f[s])
      OBVIOUS
    <3>1. CASE s = m.to
      BY <2>6, <2>7, <3>1 DEF wa, wb
    <3>2. CASE s # m.to
      <4>1. after[s] = board[s] /\ f[s] = s
        BY <2>7, <2>8, <3>2
      <4>2. Weight(board[s], s) \in 0..(Height + 2)
        BY <1>2, WeightIs DEF board
      <4>3. Weight(board[s], s) \in Int
        BY <1>3, <4>2
      <4> QED BY <4>1, <4>3
    <3> QED BY <3>1, <3>2
  <2>10. \A s, t \in Square : after[s] # Empty /\ after[t] # Empty /\ f[s] = f[t] => s = t
    BY <2>7, <2>8
  <2>11. /\ BoardWeight(after) <= BoardWeight(board)
         /\ (\E t \in Square, k \in 1..(Height + 2) :
               /\ k <= Weight(board[t], t)
               /\ \A s \in Square : after[s] # Empty /\ f[s] = t => ~(k <= Weight(after[s], s)))
            => BoardWeight(after) < BoardWeight(board)
    BY <1>2, <1>4, <2>7, <2>9, <2>10, WeightFalls DEF board, after
  <2>12. ASSUME board[m.from][2] = "pawn" PROVE BoardWeight(after) < BoardWeight(board)
    <3>1. wa < wb
      BY <2>3, <2>12 DEF wa, wb, board, after
    <3>2. wb \in 1..(Height + 2) /\ wb <= wb /\ ~(wb <= wa)
      BY <1>3, <2>6, <3>1
    <3>3. \A s \in Square : after[s] # Empty /\ f[s] = m.from => s = m.to
      BY <2>1, <2>7
    <3>4. \A s \in Square : after[s] # Empty /\ f[s] = m.from => ~(wb <= Weight(after[s], s))
      BY <3>2, <3>3 DEF wa
    <3>5. wb <= Weight(board[m.from], m.from)
      BY <3>2 DEF wb
    <3> QED BY <1>3, <2>11, <3>2, <3>4, <3>5
  <2>13. ASSUME board[taken] # Empty PROVE BoardWeight(after) < BoardWeight(board)
    <3>1. Weight(board[taken], taken) >= 1
      <4>1. board[taken] \in Piece \cup {Empty}
        BY <1>2, <2>1 DEF board
      <4>2. Weight(board[taken], taken) = 1 \/ Weight(board[taken], taken) >= 2
        BY <2>1, <2>13, <4>1, WeightIs
      <4>3. Weight(board[taken], taken) \in Int
        <5>1. Weight(board[taken], taken) \in 0..(Height + 2)
          BY <2>1, <4>1, WeightIs
        <5> QED BY <1>3, <5>1
      <4> QED BY <4>2, <4>3
    <3>2. 1 \in 1..(Height + 2) /\ 1 <= Weight(board[taken], taken)
      BY <1>3, <3>1
    <3>3. \A s \in Square : ~(after[s] # Empty /\ f[s] = taken)
      BY <2>1, <2>7, <2>8
    <3> QED BY <2>1, <2>11, <3>2, <3>3
  <2> QED BY <1>5, <2>11, <2>12, <2>13 DEF Irreversible, after, board, taken
<1>7. CASE m.kind \in Castles
  <2> DEFINE f == [s \in Square |-> IF s = m.to THEN m.from ELSE IF s = rook.to THEN rook.from ELSE s]
  <2>1. /\ rook.from \in Square /\ rook.to \in Square
        /\ m.from # m.to /\ rook.from \notin {m.from, m.to} /\ rook.to \notin {m.from, m.to, rook.from}
        /\ taken = m.to /\ board[m.to] = Empty
        /\ board[rook.from] = <<us, "rook">>
        /\ after[m.from] = Empty /\ after[rook.from] = Empty
        /\ after[m.to] = board[m.from] /\ after[rook.to] = <<us, "rook">>
        /\ \A s \in Square \ {m.from, m.to, rook.from, rook.to} : after[s] = board[s]
    BY <1>1, <1>2, <1>7, CastleBoard, ZenonT(30)
  <2>2. board[m.from][2] = "king"
    BY <1>1, <1>7 DEF Playable
  <2> HIDE DEF rook, taken, after, board
  <2>3. f \in [Square -> Square] /\ f[m.to] = m.from /\ f[rook.to] = rook.from
        /\ \A s \in Square : s # m.to /\ s # rook.to => f[s] = s
    BY <1>3, <2>1
  <2> HIDE DEF f
  <2>4. \A s \in Square : after[s] # Empty => s \in {m.to, rook.to} \/ (s \notin {m.from, rook.from} /\ after[s] = board[s])
    BY <2>1
  <2>5. \A s \in Square : after[s] = board[f[s]] \/ after[s] = Empty
    BY <2>1, <2>3, ZenonT(30)
  <2>6. \A s, t \in Square : after[s] # Empty /\ after[t] # Empty /\ f[s] = f[t] => s = t
    BY <2>1, <2>3, <2>4
  <2>7. \A s \in Square : after[s] # Empty => Weight(after[s], s) <= Weight(board[f[s]], f[s])
    <3> SUFFICES ASSUME NEW s \in Square, after[s] # Empty
                 PROVE  Weight(after[s], s) <= Weight(board[f[s]], f[s])
      OBVIOUS
    <3>1. after[s] = board[f[s]] /\ f[s] \in Square /\ after[s] \in Piece \cup {Empty}
      BY <1>4, <2>3, <2>5 DEF after
    <3>2. CASE s \in {m.to, rook.to}
      <4>1. after[s][2] \in {"king", "rook"}
        BY <2>1, <2>2, <3>2
      <4>2. Weight(after[s], s) = 1 /\ Weight(board[f[s]], f[s]) = 1
        BY <3>1, <4>1, WeightIs
      <4> QED BY <4>2
    <3>3. CASE s \notin {m.to, rook.to}
      <4>1. f[s] = s
        BY <2>3, <3>3
      <4>2. Weight(after[s], s) \in 0..(Height + 2)
        BY <3>1, WeightIs
      <4>3. Weight(after[s], s) \in Int
        BY <1>3, <4>2
      <4> QED BY <3>1, <4>1, <4>3
    <3> QED BY <3>2, <3>3
  <2>8. BoardWeight(after) <= BoardWeight(board)
    BY <1>2, <1>4, <2>3, <2>6, <2>7, WeightFalls DEF board, after
  <2>9. ~Irreversible(g, m)
    <3>1. board[m.from][2] # "pawn" /\ board[taken] = Empty
      BY <2>1, <2>2
    <3> QED BY <3>1 DEF Irreversible, board, taken
  <2> QED BY <1>5, <2>8, <2>9 DEF board, after
<1> QED BY <1>6, <1>7

-----------------------------------------------------------------------------
\* The history before and after a move.

LEMMA KeyIs ==
  ASSUME NEW keys \in Seq(Identity), NEW i \in 1..Len(keys)
  PROVE  /\ keys[i] \in Identity /\ keys[i].side \in Color
         /\ keys[i].board \in [Square -> Piece \cup {Empty}]
         /\ BoardWeight(keys[i].board) \in Nat
<1>1. keys[i] \in Identity
  OBVIOUS
<1>2. keys[i].side \in Color /\ keys[i].board \in [Square -> Piece \cup {Empty}]
  BY <1>1 DEF Identity
<1> QED BY <1>1, <1>2, UnitsAreFinite

LEMMA ReversibleIs ==
  ASSUME NEW g \in Game, Len(g.keys) >= 1
  PROVE  /\ g.keys \in Seq(Identity) /\ g.clock \in Nat
         /\ Reversible(g) \in 0..(Len(g.keys) - 1) /\ Reversible(g) <= g.clock
         /\ ReversibleKeys(g) \in Seq(Identity) /\ Len(ReversibleKeys(g)) = Reversible(g) + 1
         /\ \A i \in 0..Reversible(g) :
              ReversibleKeys(g)[Reversible(g) - i + 1] = g.keys[Len(g.keys) - i]
<1> DEFINE r == Reversible(g)
           n == Len(g.keys)
           s == ReversibleKeys(g)
<1>1. g.keys \in Seq(Identity) /\ g.clock \in Nat /\ n \in Nat /\ n >= 1
  BY DEF Game
<1>2. r \in 0..(n - 1) /\ r <= g.clock
  BY <1>1 DEF Reversible
<1>3. s = SubSeq(g.keys, n - r, n)
  BY DEF ReversibleKeys
<1> HIDE DEF r, s
<1>4. s \in Seq(Identity) /\ Len(s) = r + 1
  BY <1>1, <1>2, <1>3
<1>5. \A j \in 1..(r + 1) : s[j] = g.keys[n - r + j - 1]
  BY <1>1, <1>2, <1>3
<1>6. ASSUME NEW i \in 0..r PROVE s[r - i + 1] = g.keys[n - i]
  <2>2. r \in Int /\ n \in Int /\ i \in Int /\ i >= 0 /\ i <= r
    BY <1>1, <1>2
  <2>1. r - i + 1 \in 1..(r + 1) /\ n - r + (r - i + 1) - 1 = n - i
    <3> HIDE DEF n
    <3> QED BY <2>2
  <2> QED BY <1>5, <2>1
<1> QED BY <1>1, <1>2, <1>4, <1>6 DEF r, s

\* The look back, bounded by the clock and in steps of two, misses no repetition.
LEMMA LookBackIsExact ==
  ASSUME NEW g \in Game, Len(g.keys) >= 1, g.keys[Len(g.keys)] = KeyOf(g), Ordered(g)
  PROVE  /\ RepetitionCount(g) = Cardinality(Earlier(g.keys, Len(g.keys)))
         /\ RepetitionCount(g) > 0 <=> Earlier(g.keys, Len(g.keys)) # {}
<1> DEFINE n == Len(g.keys)
           r == Reversible(g)
           keys == g.keys
           E == Earlier(keys, n)
           B == {back \in 2..r : back % 2 = 0 /\ keys[n - back] = KeyOf(g)}
           F == [back \in B |-> n - back]
<1>1. keys \in Seq(Identity) /\ n \in Nat /\ n >= 1 /\ r \in 0..(n - 1)
  BY ReversibleIs
<1>2. RepetitionCount(g) = Cardinality(B)
  BY DEF RepetitionCount
<1>3. keys[n] = KeyOf(g)
  OBVIOUS
<1>4. \A j \in 1..n : /\ BoardWeight(keys[n].board) <= BoardWeight(keys[j].board)
                      /\ j < n - r => BoardWeight(keys[n].board) < BoardWeight(keys[j].board)
                      /\ keys[j].side = keys[n].side <=> (n - j) % 2 = 0
  BY DEF Ordered
<1> HIDE DEF n, r, keys
<1>5. BoardWeight(keys[n].board) \in Nat
  <2>1. n \in 1..Len(keys)
    BY <1>1 DEF n, keys
  <2> HIDE DEF n
  <2> QED BY <1>1, <2>1, KeyIs
<1>6. ASSUME NEW j \in E PROVE n - j \in B /\ n - (n - j) = j
  <2>1. j \in Int /\ j >= 1 /\ j <= n - 1 /\ keys[j] = keys[n]
    BY <1>1 DEF Earlier
  <2>2. j \in 1..n
    BY <1>1, <2>1
  <2>3. ~(j < n - r)
    <3>1. ~(BoardWeight(keys[n].board) < BoardWeight(keys[j].board))
      BY <1>5, <2>1
    <3> QED BY <1>4, <2>2, <3>1
  <2>4. (n - j) % 2 = 0
    BY <1>4, <2>1, <2>2
  <2>5. n - j # 1
    <3>1. n - j = 1 => (n - j) % 2 = 1
      OBVIOUS
    <3> QED BY <2>4, <3>1
  <2>6. n - j \in 2..r /\ n - (n - j) = j
    BY <1>1, <2>1, <2>3, <2>5
  <2> QED BY <1>3, <2>1, <2>4, <2>6
<1>7. ASSUME NEW back \in B PROVE n - back \in E
  <2>1. back \in 2..r /\ keys[n - back] = keys[n]
    BY <1>3
  <2>2. n - back \in 1..(n - 1)
    BY <1>1, <2>1
  <2> QED BY <2>1, <2>2 DEF Earlier
<1>8. IsFiniteSet(E) /\ Cardinality(E) \in Nat
  <2>1. 1 \in Int /\ n - 1 \in Int /\ E \subseteq 1..(n - 1)
    BY <1>1 DEF Earlier
  <2>2. IsFiniteSet(1..(n - 1))
    BY <2>1, FS_Interval
  <2> QED BY <2>2, <2>1, FS_Subset, FS_CardinalityType
<1>9. \A back \in B : back \in Int
  BY <1>1
<1> HIDE DEF B, E
<1>10. F \in [B -> E] /\ DOMAIN F = B
  BY <1>7
<1>11. F \in Injection(B, E)
  <2>1. \A x, y \in B : F[x] = F[y] => x = y
    BY <1>1, <1>9
  <2> HIDE DEF F
  <2> QED BY <1>10, <2>1 DEF Injection, IsInjective
<1>12. F \in Surjection(B, E)
  <2>1. \A j \in E : F[n - j] = j /\ n - j \in B
    BY <1>6
  <2> HIDE DEF F
  <2> QED BY <1>10, <2>1 DEF Surjection
<1> HIDE DEF F
<1>13. Cardinality(B) = Cardinality(E)
  BY <1>8, <1>11, <1>12, FS_Injection
<1>14. Cardinality(E) = 0 <=> E = {}
  BY <1>8, FS_EmptySet
<1> QED BY <1>2, <1>8, <1>13, <1>14 DEF E, n, keys

\* Whether the repetition is counted before or after the frame is kept.
LEMMA NewFrame ==
  ASSUME NEW g \in Game, Len(g.frames) \in 1..FrameLimit
  PROVE  Recorded(g).frames =
           Append(IF Len(g.frames) = FrameLimit THEN Tail(g.frames) ELSE g.frames,
                  [board |-> g.at.board, repeated |-> RepetitionCount(Recorded(g)) > 0])
<1> DEFINE next == [g EXCEPT !.keys = Append(g.keys, KeyOf(g))]
           frame == [board |-> g.at.board, repeated |-> RepetitionCount(next) > 0]
           kept == IF Len(g.frames) = FrameLimit THEN Tail(g.frames) ELSE g.frames
           r == Recorded(g)
<1>1. next = [at |-> g.at, rights |-> g.rights, ep |-> g.ep, clock |-> g.clock,
              keys |-> Append(g.keys, KeyOf(g)), frames |-> g.frames]
  <2>1. \A k : [g EXCEPT !.keys = k] = [at |-> g.at, rights |-> g.rights, ep |-> g.ep,
                                         clock |-> g.clock, keys |-> k, frames |-> g.frames]
    BY DEF Game
  <2> QED BY <2>1
<1>2. r = [next EXCEPT !.frames = Append(IF Len(next.frames) = FrameLimit
                                         THEN Tail(next.frames) ELSE next.frames, frame)]
  BY Zenon DEF Recorded
<1>3. /\ r.at = g.at /\ r.rights = g.rights /\ r.ep = g.ep /\ r.clock = g.clock
      /\ r.keys = Append(g.keys, KeyOf(g))
  BY RecordedIs
<1> HIDE DEF r, frame, next
<1>4. /\ next.frames = g.frames /\ next.at = g.at /\ next.rights = g.rights /\ next.ep = g.ep
      /\ next.clock = g.clock /\ next.keys = r.keys
  BY <1>1, <1>3
<1>5. Reversible(next) = Reversible(r) /\ KeyOf(next) = KeyOf(r)
  BY <1>3, <1>4 DEF Reversible, KeyOf
<1>6. RepetitionCount(next) = RepetitionCount(r)
  BY <1>4, <1>5 DEF RepetitionCount
<1>7. r.frames = Append(kept, frame)
  BY <1>1, <1>2, <1>4
<1> QED BY <1>6, <1>7 DEF frame, r

LEMMA MovedClock ==
  ASSUME NEW g \in Game, NEW m
  PROVE  Moved(g, m).clock = IF Irreversible(g, m) THEN 0 ELSE g.clock + 1
BY DEF Moved, Info, Irreversible, Game

LEMMA StaysOrdered ==
  ASSUME NEW g, Honest(g), NEW m \in Legal(g)
  PROVE  Ordered(Make(g, m))
<1> DEFINE h == Moved(g, m)
           r == Recorded(h)
           n == Len(g.keys)
           W(i) == BoardWeight(g.keys[i].board)
           w == BoardWeight(h.at.board)
           N == Len(r.keys)
<1>1. m \in Pseudo(g) /\ Make(g, m) = r
  BY MakeIs
<1>2. /\ g \in Game /\ Len(g.frames) \in 1..FrameLimit /\ g.keys \in Seq(Identity)
      /\ n >= 1 /\ g.keys[n] = KeyOf(g) /\ n \in Nat /\ g.clock \in Nat
  BY DEF Honest, Game
<1>3. /\ h \in Game /\ h.at = MakeMove(g.at, m) /\ h.keys = g.keys /\ h.frames = g.frames
  BY <1>1, MovedIs
<1>4. h.clock = IF Irreversible(g, m) THEN 0 ELSE g.clock + 1
  BY <1>2, MovedClock
<1>5. r.keys = Append(g.keys, KeyOf(h)) /\ r.clock = h.clock
  BY <1>2, <1>3, RecordedIs
<1>6. w \in Nat /\ W(n) \in Nat /\ w <= W(n) /\ (Irreversible(g, m) => w < W(n))
  <2>1. g.keys[n].board = g.at.board
    BY <1>2 DEF KeyOf
  <2> QED BY <1>1, <1>3, <2>1, MoveLightens
<1>7. \A i \in 1..n : /\ W(n) <= W(i) /\ W(i) \in Nat
                      /\ i < n - Reversible(g) => W(n) < W(i)
                      /\ g.keys[i].side = g.keys[n].side <=> (n - i) % 2 = 0
                      /\ g.keys[i].side \in Color
  BY <1>2, KeyIs DEF Honest, Recalled, Ordered
<1>8. N = n + 1 /\ r.keys[N] = KeyOf(h) /\ \A i \in 1..n : r.keys[i] = g.keys[i]
  <2>1. KeyOf(h) \in Identity
    BY <1>3, IdentityOf
  <2> HIDE DEF h, r
  <2> QED BY <1>2, <1>5, <2>1
<1>9. /\ KeyOf(h).board = h.at.board /\ KeyOf(h).side = Them(g.at.side) /\ g.keys[n].side = g.at.side
      /\ g.at.side \in Color
  <2>1. g.at.side \in Color /\ g.keys[n].side = g.at.side
    BY <1>2, GameParts DEF KeyOf
  <2>2. h.at.side = Them(g.at.side)
    <3>1. MakeMove(g.at, m).side = Them(g.at.side)
      BY Zenon DEF MakeMove
    <3> QED BY <1>3, <3>1
  <2> HIDE DEF h, n
  <2> QED BY <2>1, <2>2 DEF KeyOf
<1> HIDE DEF h, r, n, W, w, N
<1>10. Reversible(r) \in Nat /\ Reversible(g) \in Nat
       /\ (Irreversible(g, m) => Reversible(r) = 0)
       /\ (~Irreversible(g, m) => Reversible(r) = Reversible(g) + 1)
  <2>1. Reversible(g) = IF g.clock <= n - 1 THEN g.clock ELSE n - 1
    BY DEF Reversible, n
  <2>2. Reversible(r) = IF r.clock <= n THEN r.clock ELSE n
    <3>1. N - 1 = n
      BY <1>2, <1>8
    <3> QED BY <3>1 DEF Reversible, N
  <2>3. CASE Irreversible(g, m)
    BY <1>2, <1>4, <1>5, <2>1, <2>2, <2>3
  <2>4. CASE ~Irreversible(g, m)
    BY <1>2, <1>4, <1>5, <2>1, <2>2, <2>4
  <2> QED BY <2>3, <2>4
<1>11. ASSUME NEW i \in 1..N
       PROVE  /\ BoardWeight(r.keys[N].board) <= BoardWeight(r.keys[i].board)
              /\ i < N - Reversible(r) =>
                   BoardWeight(r.keys[N].board) < BoardWeight(r.keys[i].board)
              /\ r.keys[i].side = r.keys[N].side <=> (N - i) % 2 = 0
  <2>1. BoardWeight(r.keys[N].board) = w
    BY <1>8, <1>9 DEF w
  <2>2. CASE i = N
    <3>1. (N - i) % 2 = 0
      BY <1>2, <1>8, <2>2
    <3>2. ~(i < N - Reversible(r))
      BY <1>2, <1>8, <1>10, <2>2
    <3> QED BY <1>6, <2>1, <2>2, <3>1, <3>2
  <2>3. CASE i # N
    <3>1. i \in 1..n
      BY <1>2, <1>8, <2>3
    <3>2. r.keys[i] = g.keys[i] /\ BoardWeight(r.keys[i].board) = W(i) /\ W(i) \in Nat /\ W(n) <= W(i)
      BY <1>7, <1>8, <3>1 DEF W
    <3>3. w <= W(i)
      BY <1>6, <3>2
    <3>4. i < N - Reversible(r) => w < W(i)
      <4>1. CASE Irreversible(g, m)
        BY <1>6, <3>2, <4>1
      <4>2. CASE ~Irreversible(g, m)
        <5>1. i < N - Reversible(r) => i < n - Reversible(g)
          BY <1>2, <1>8, <1>10, <3>1, <4>2
        <5> QED BY <1>6, <1>7, <3>1, <3>2, <5>1
      <4> QED BY <4>1, <4>2
    <3>5. r.keys[i].side = r.keys[N].side <=> (N - i) % 2 = 0
      <4>1. r.keys[i].side = r.keys[N].side <=> g.keys[i].side # g.keys[n].side
        BY <1>7, <1>8, <1>9, <3>1, <3>2 DEF Them, Color
      <4>2. n \in Int /\ i \in Int /\ N = n + 1
        BY <1>2, <1>8, <3>1
      <4>3. (n - i) % 2 # 0 <=> (N - i) % 2 = 0
        BY <4>2
      <4> QED BY <1>7, <3>1, <4>1, <4>3
    <3> QED BY <2>1, <3>2, <3>3, <3>4, <3>5
  <2> QED BY <2>2, <2>3
<1>12. Ordered(r)
  BY <1>11, Zenon DEF Ordered, N
<1> QED BY <1>1, <1>12 DEF r, h

LEMMA StaysFramed ==
  ASSUME NEW g, Honest(g), NEW m \in Legal(g)
  PROVE  Framed(Make(g, m))
<1> DEFINE h == Moved(g, m)
           r == Recorded(h)
           n == Len(g.keys)
           k == Len(g.frames)
           kept == IF k = FrameLimit THEN Tail(g.frames) ELSE g.frames
           frame == [board |-> h.at.board, repeated |-> RepetitionCount(r) > 0]
           N == Len(r.keys)
           K == Len(r.frames)
<1>1. m \in Pseudo(g) /\ Make(g, m) = r
  BY MakeIs
<1>2. /\ g \in Game /\ k \in 1..FrameLimit /\ g.keys \in Seq(Identity) /\ g.frames \in Seq(Frame)
      /\ n >= 1 /\ n \in Nat /\ FrameLimit \in Nat \ {0}
  BY HistoryAssumption DEF Honest, Game
<1>3. /\ h \in Game /\ h.keys = g.keys /\ h.frames = g.frames /\ KeyOf(h) \in Identity
  BY <1>1, MovedIs, IdentityOf
<1>4. /\ r \in Game /\ r.keys = Append(g.keys, KeyOf(h)) /\ KeyOf(r) = KeyOf(h)
  BY <1>2, <1>3, RecordedIs DEF KeyOf
<1>5. r.frames = Append(kept, frame)
  BY <1>2, <1>3, NewFrame
<1>6. Ordered(r)
  BY <1>1, StaysOrdered
<1>7. /\ k = IF n < FrameLimit THEN n ELSE FrameLimit
      /\ \A i \in 1..k : g.frames[i] = [board |-> g.keys[n - k + i].board,
                                        repeated |-> Earlier(g.keys, n - k + i) # {}]
  BY DEF Honest, Recalled, Framed
<1>8. KeyOf(h).board = h.at.board
  BY DEF KeyOf
<1> HIDE DEF h, r, n, k, kept, N, K
<1>9. N = n + 1 /\ r.keys[N] = KeyOf(h) /\ \A i \in 1..n : r.keys[i] = g.keys[i]
  BY <1>2, <1>3, <1>4 DEF n, N
<1>10. \A i \in 1..n : Earlier(r.keys, i) = Earlier(g.keys, i)
  <2> SUFFICES ASSUME NEW i \in 1..n PROVE Earlier(r.keys, i) = Earlier(g.keys, i)
    OBVIOUS
  <2>1. \A j \in 1..(i - 1) : j \in 1..n
    BY <1>2
  <2> QED BY <1>9, <2>1 DEF Earlier
<1>11. frame = [board |-> r.keys[N].board, repeated |-> Earlier(r.keys, N) # {}]
  <2>1. RepetitionCount(r) > 0 <=> Earlier(r.keys, N) # {}
    <3>1. Len(r.keys) >= 1 /\ r.keys[Len(r.keys)] = KeyOf(r)
      BY <1>2, <1>4, <1>9 DEF N
    <3> QED BY <1>4, <1>6, <3>1, LookBackIsExact DEF N
  <2>2. (RepetitionCount(r) > 0) = (Earlier(r.keys, N) # {})
    BY <2>1
  <2>3. r.keys[N].board = h.at.board
    BY <1>8, <1>9
  <2> QED BY <2>2, <2>3
<1> HIDE DEF frame
<1>12. CASE k = FrameLimit
  <2>1. /\ kept \in Seq(Frame) /\ Len(kept) = k - 1
        /\ \A i \in 1..(k - 1) : kept[i] = g.frames[i + 1]
    BY <1>2, <1>12 DEF k, kept
  <2>2. /\ K = k /\ r.frames[k] = frame
        /\ \A i \in 1..(k - 1) : r.frames[i] = g.frames[i + 1]
    BY <1>2, <1>5, <2>1 DEF K
  <2>3. K = IF N < FrameLimit THEN N ELSE FrameLimit
    <3>1. K = FrameLimit /\ N = n + 1 /\ n \in Nat /\ FrameLimit \in Nat
      BY <1>2, <1>9, <1>12, <2>2
    <3>2. FrameLimit <= n
      BY <1>7, <1>12, <3>1
    <3> QED BY <3>1, <3>2
  <2>4. ASSUME NEW i \in 1..K
        PROVE  r.frames[i] = [board |-> r.keys[N - K + i].board, repeated |-> Earlier(r.keys, N - K + i) # {}]
    <3>1. CASE i = K
      <4>1. N - K + i = N
        BY <1>2, <1>9, <2>2, <3>1
      <4> QED BY <1>11, <2>2, <3>1, <4>1
    <3>2. CASE i # K
      <4>1. k <= n /\ k \in Nat
        BY <1>2, <1>7
      <4>2. i \in 1..(k - 1) /\ i + 1 \in 1..k /\ n - k + (i + 1) = N - K + i /\ N - K + i \in 1..n
        BY <1>2, <1>9, <2>2, <3>2, <4>1, SMTT(30)
      <4>3. r.frames[i] = g.frames[i + 1]
        BY <2>2, <4>2
      <4>4. g.frames[i + 1] = [board |-> g.keys[N - K + i].board,
                               repeated |-> Earlier(g.keys, N - K + i) # {}]
        BY <1>7, <4>2
      <4> QED BY <1>9, <1>10, <4>2, <4>3, <4>4
    <3> QED BY <3>1, <3>2
  <2>5. Framed(r)
    BY <2>3, <2>4, Zenon DEF Framed, N, K
  <2> QED BY <1>1, <2>5 DEF r, h
<1>13. CASE k # FrameLimit
  <2>1. k = n /\ n < FrameLimit
    BY <1>2, <1>7, <1>13
  <2>2. kept = g.frames
    BY <1>13 DEF kept
  <2>3. K = n + 1 /\ r.frames[n + 1] = frame /\ \A i \in 1..n : r.frames[i] = g.frames[i]
    BY <1>2, <1>5, <2>1, <2>2 DEF k, K
  <2>4. K = IF N < FrameLimit THEN N ELSE FrameLimit
    <3>1. K = n + 1 /\ N = n + 1 /\ n \in Nat /\ FrameLimit \in Nat /\ n < FrameLimit
      BY <1>2, <1>9, <2>1, <2>3
    <3>2. n + 1 < FrameLimit \/ n + 1 = FrameLimit
      BY <3>1
    <3> QED BY <3>1, <3>2
  <2>5. ASSUME NEW i \in 1..K
        PROVE  r.frames[i] = [board |-> r.keys[N - K + i].board, repeated |-> Earlier(r.keys, N - K + i) # {}]
    <3>1. N - K + i = i /\ n - k + i = i
      <4>1. N = K /\ n = k /\ K \in Int /\ n \in Int
        BY <1>2, <1>9, <2>1, <2>3
      <4>2. i \in Int /\ \A x, y \in Int : x - x + y = y
        BY <4>1
      <4> QED BY <4>1, <4>2
    <3>2. CASE i = K
      <4>1. i = N /\ i = n + 1
        BY <1>9, <2>3, <3>2
      <4> QED BY <1>11, <2>3, <3>1, <4>1
    <3>3. CASE i # K
      <4>1. i \in 1..n
        BY <1>2, <2>3, <3>3
      <4>2. g.frames[i] = [board |-> g.keys[i].board, repeated |-> Earlier(g.keys, i) # {}]
        BY <1>7, <2>1, <3>1, <4>1
      <4> QED BY <1>9, <1>10, <2>3, <3>1, <4>1, <4>2
    <3> QED BY <3>2, <3>3
  <2>6. Framed(r)
    BY <2>4, <2>5, Zenon DEF Framed, N, K
  <2> QED BY <1>1, <2>6 DEF r, h
<1> QED BY <1>12, <1>13

\* What is recalled stays so, whatever move is made.
LEMMA StaysRecalled ==
  ASSUME NEW g, Honest(g), NEW m \in Legal(g)
  PROVE  Recalled(Make(g, m))
BY StaysOrdered, StaysFramed DEF Recalled

-----------------------------------------------------------------------------
\* Every position a game reaches by legal moves is one that could have been set up.
THEOREM LegalKeepsHonest ==
  ASSUME NEW g, Honest(g), NEW m \in Legal(g)
  PROVE  Honest(Make(g, m)) /\ Make(g, m).at = MakeMove(g.at, m)
<1> DEFINE h == Moved(g, m)
           r == Recorded(h)
           after == MakeMove(g.at, m)
<1>1. m \in Pseudo(g) /\ Make(g, m) = r /\ ~Exposed(g, m)
  BY MakeIs
<1>2. /\ h \in Game /\ h.at = after /\ h.ep = DoubleEp(g, m) /\ h.keys = g.keys
      /\ h.frames = g.frames
  BY <1>1, MovedIs
<1>3. g \in Game /\ Len(g.frames) \in 1..FrameLimit /\ g.keys \in Seq(Identity)
  BY DEF Honest, Game
<1>4. /\ r \in Game /\ r.at = h.at /\ r.ep = h.ep /\ r.rights = h.rights /\ r.clock = h.clock
      /\ r.keys = Append(h.keys, KeyOf(h)) /\ Len(r.frames) \in 1..FrameLimit
  BY <1>2, <1>3, RecordedIs
<1>5. KeyOf(r) = KeyOf(h) /\ KeyOf(h) \in Identity
  BY <1>2, <1>4, IdentityOf DEF KeyOf
<1>6. Len(r.keys) >= 1 /\ r.keys[Len(r.keys)] = KeyOf(r)
  BY <1>2, <1>3, <1>4, <1>5
<1>7. KingsHome(r)
  <2>1. \A c \in Color : \A s \in Square : after.board[s] = <<c, "king">> <=> s = after.king[c]
    BY <1>1, KingsStayHome
  <2>2. r.at = after
    BY <1>2, <1>4
  <2> HIDE DEF r, after
  <2> QED BY <2>1, <2>2 DEF KingsHome
<1>8. PawnsBetween(r)
  BY <1>1, <1>2, <1>4, PawnsStayBetween DEF PawnsBetween
<1>9. RightsHome(r)
  <2>1. \A x \in h.rights : /\ after.board[CastleKing[x[1]][x[2]].from] = <<x[1], "king">>
                            /\ after.board[CastleRook[x[1]][x[2]].from] = <<x[1], "rook">>
    BY <1>1, RightsStayHome
  <2>2. r.at = after /\ r.rights = h.rights
    BY <1>2, <1>4
  <2> HIDE DEF r, after, h
  <2> QED BY <2>1, <2>2 DEF RightsHome
<1>10. EpTaken(r)
  BY <1>1, <1>2, <1>4, EpStaysTaken DEF EpTaken
<1>11. ~Attacked(after.board, after.king[Them(after.side)], after.side)
  <2>1. ~Attacked(after.board, after.king[g.at.side], after.side)
    BY <1>1 DEF Exposed
  <2>2. after.side = Them(g.at.side) /\ Them(Them(g.at.side)) = g.at.side
    BY <1>3, GameParts DEF MakeMove
  <2> QED BY <2>1, <2>2
<1>12. Recalled(r)
  BY <1>1, StaysRecalled
<1> HIDE DEF r, h, after
<1> QED BY <1>1, <1>2, <1>4, <1>6, <1>7, <1>8, <1>9, <1>10, <1>11, <1>12 DEF Honest, after

-----------------------------------------------------------------------------
\* Taking a move back.

LEMMA SamePosition ==
  ASSUME NEW pos \in Position, NEW board, NEW king, NEW side,
         board = pos.board, king = pos.king, side = pos.side
  PROVE  [board |-> board, king |-> king, side |-> side] = pos
BY DEF Position

LEMMA UndoneBoard ==
  ASSUME NEW g, Honest(g), NEW m \in Pseudo(g), NEW st,
         st.moved = g.at.board[m.from], st.captured = g.at.board[CapturedSq(g.at, m)],
         st.capturedSq = CapturedSq(g.at, m)
  PROVE  UndoBoard(MakeMove(g.at, m), m, st) = g.at
<1> DEFINE us == g.at.side
           board == g.at.board
           after == MakeMove(g.at, m)
           taken == CapturedSq(g.at, m)
           rook == CastleRook[us][m.kind]
           undone == UndoBoard(after, m, st)
           Holding == Piece \cup {Empty}
           uncastled == IF m.kind \in Castles
                        THEN [after.board EXCEPT ![rook.to] = Empty, ![rook.from] = after.board[rook.to]]
                        ELSE after.board
           back == [uncastled EXCEPT ![m.to] = Empty, ![m.from] = st.moved]
           restored == IF st.captured # Empty THEN [back EXCEPT ![st.capturedSq] = st.captured] ELSE back
<1>1. g \in Game /\ KingsHome(g)
  BY DEF Honest
<1>2. /\ us \in Color /\ Them(Them(us)) = us /\ g.at \in Position /\ board \in [Square -> Holding]
      /\ g.at.king \in [Color -> Square]
  BY <1>1, GameParts
<1>3. m \in Move /\ Playable(g.at, m)
  BY GeneratedIsPlayable
<1>4. m.from \in Square /\ m.to \in Square /\ m.from # m.to
  BY <1>3 DEF Move, Playable
<1>5. after.side = Them(us) /\ after.board \in [Square -> Holding]
  <2>1. after.board \in [Square -> Holding]
    BY <1>2, <1>3, MovedType DEF Position
  <2> QED BY <2>1 DEF MakeMove
<1>6. /\ undone.board = restored /\ undone.side = us
      /\ undone = [board |-> undone.board, king |-> undone.king, side |-> undone.side]
      /\ undone.king = IF st.moved[2] = "king" THEN [after.king EXCEPT ![us] = m.from] ELSE after.king
  BY <1>2, <1>5 DEF UndoBoard
<1>7. undone.king = g.at.king
  <2>1. CASE board[m.from][2] = "king"
    <3>1. board[m.from] \in Holding /\ board[m.from][1] = us
      BY <1>2, <1>3, <1>4 DEF Playable
    <3>6. board[m.from] \in Piece
      BY <1>2, <3>1, EmptyIsNoPiece
    <3>2. board[m.from] = <<us, "king">>
      BY <2>1, <3>1, <3>6 DEF Piece
    <3>3. g.at.king[us] = m.from
      BY <1>1, <1>2, <1>4, <3>2 DEF KingsHome
    <3>4. after.king = [g.at.king EXCEPT ![us] = m.to]
      BY <2>1 DEF MakeMove
    <3> HIDE DEF undone, after, us, board
    <3>5. undone.king = [after.king EXCEPT ![us] = m.from]
      BY <1>6, <2>1 DEF board
    <3> QED BY <1>2, <3>3, <3>4, <3>5
  <2>2. CASE board[m.from][2] # "king"
    BY <1>6, <2>2 DEF MakeMove
  <2> QED BY <2>1, <2>2
<1>8. CASE m.kind \notin Castles
  <2>1. /\ taken \in Square /\ taken # m.from
        /\ taken # m.to => board[m.to] = Empty
        /\ taken # m.to => after.board[taken] = Empty
        /\ \A x \in Square \ {m.from, m.to, taken} : after.board[x] = board[x]
    BY <1>2, <1>3, <1>8, PlainBoard
  <2> HIDE DEF after, board, taken, Holding
  <2>2. back = [[after.board EXCEPT ![m.to] = Empty] EXCEPT ![m.from] = board[m.from]]
    BY <1>8 DEF board
  <2> HIDE DEF back
  <2>3. /\ back[m.from] = board[m.from] /\ back[m.to] = Empty
        /\ \A x \in Square \ {m.from, m.to} : back[x] = after.board[x]
    BY <1>4, <1>5, <2>2
  <2>4. DOMAIN back = Square /\ back = [x \in Square |-> back[x]]
    BY <1>5, <2>2
  <2>5. CASE board[taken] = Empty
    <3>1. restored = back
      BY <2>5 DEF board, taken
    <3>2. \A x \in Square : back[x] = board[x]
      BY <2>1, <2>3, <2>5
    <3> HIDE DEF undone, restored
    <3>3. restored = board
      BY <1>2, <2>4, <3>1, <3>2
    <3>4. undone = g.at
      BY <1>2, <1>6, <1>7, <3>3, SamePosition DEF board
    <3> QED BY <3>4 DEF after, undone
  <2>6. CASE board[taken] # Empty
    <3>1. restored = [back EXCEPT ![taken] = board[taken]]
      BY <2>6 DEF board, taken
    <3> HIDE DEF restored
    <3>2. \A x \in Square : restored[x] = board[x]
      BY <2>1, <2>3, <2>4, <3>1
    <3>3. restored = [x \in Square |-> restored[x]]
      BY <2>4, <3>1
    <3>4. board = restored
      BY <1>2, <3>2, <3>3
    <3> HIDE DEF undone
    <3>5. undone = g.at
      BY <1>2, <1>6, <1>7, <3>4, SamePosition DEF board
    <3> QED BY <3>5 DEF after, undone
  <2> QED BY <2>5, <2>6
<1>9. CASE m.kind \in Castles
  <2>1. /\ rook.from \in Square /\ rook.to \in Square
        /\ rook.from \notin {m.from, m.to} /\ rook.to \notin {m.from, m.to, rook.from}
        /\ taken = m.to /\ board[m.to] = Empty /\ board[rook.to] = Empty
        /\ board[rook.from] = <<us, "rook">>
        /\ after.board[rook.to] = <<us, "rook">>
        /\ \A x \in Square \ {m.from, m.to, rook.from, rook.to} : after.board[x] = board[x]
    BY <1>2, <1>3, <1>9, CastleBoard, ZenonT(30)
  <2>2. restored = back /\ st.moved = board[m.from]
    BY <2>1
  <2> HIDE DEF restored, after, board, taken, Holding, rook
  <2>3. uncastled = [[after.board EXCEPT ![rook.to] = Empty] EXCEPT ![rook.from] = after.board[rook.to]]
    BY <1>9
  <2> HIDE DEF uncastled
  <2>4. /\ uncastled = [x \in Square |-> uncastled[x]]
        /\ uncastled[rook.to] = Empty /\ uncastled[rook.from] = after.board[rook.to]
        /\ \A x \in Square \ {rook.from, rook.to} : uncastled[x] = after.board[x]
    BY <1>5, <2>1, <2>3
  <2>5. back = [[uncastled EXCEPT ![m.to] = Empty] EXCEPT ![m.from] = board[m.from]]
    BY <2>2
  <2> HIDE DEF back
  <2>6. /\ back = [x \in Square |-> back[x]]
        /\ back[m.to] = Empty /\ back[m.from] = board[m.from]
        /\ \A x \in Square \ {m.from, m.to} : back[x] = uncastled[x]
    BY <1>4, <2>4, <2>5
  <2>7. \A x \in Square : back[x] = board[x]
    BY <1>4, <2>1, <2>4, <2>6, ZenonT(30)
  <2>8. back = board
    BY <1>2, <2>6, <2>7
  <2> HIDE DEF undone, us
  <2>9. undone = g.at
    BY <1>2, <1>6, <1>7, <2>2, <2>8, SamePosition DEF board, us
  <2> QED BY <2>9 DEF after, undone
<1> QED BY <1>8, <1>9

LEMMA SameGame ==
  ASSUME NEW a \in Game, NEW at, NEW rights, NEW ep, NEW clock, NEW keys, NEW frames,
         at = a.at, rights = a.rights, ep = a.ep, clock = a.clock, keys = a.keys, frames = a.frames
  PROVE  [at |-> at, rights |-> rights, ep |-> ep, clock |-> clock, keys |-> keys, frames |-> frames] = a
BY DEF Game

\* Trying a move and taking it back leaves the game as it was, to the last frame.
THEOREM TrialIsIntact ==
  ASSUME NEW g, Honest(g), NEW m \in Pseudo(g)
  PROVE  IF Succeeds(g, m) THEN Undo(Make(g, m), m, Dropped(g, Info(g, m))) = g ELSE Make(g, m) = g
<1> DEFINE st == Info(g, m)
           dst == Dropped(g, st)
           h == Moved(g, m)
           r == Recorded(h)
<1>1. g \in Game /\ g.keys \in Seq(Identity) /\ g.frames \in Seq(Frame) /\ Len(g.frames) \in 1..FrameLimit
  BY DEF Honest, Game
<1>2. /\ st.moved = g.at.board[m.from] /\ st.captured = g.at.board[CapturedSq(g.at, m)]
      /\ st.capturedSq = CapturedSq(g.at, m)
      /\ st.rights = g.rights /\ st.ep = g.ep /\ st.clock = g.clock /\ st.history = Len(g.keys)
      /\ st.frames = Len(g.frames) /\ st.dropped = NoFrame
  BY DEF Info
<1>3. h \in Game /\ h.at = MakeMove(g.at, m) /\ h.keys = g.keys /\ h.frames = g.frames
  BY MovedIs
<1>4. CASE Succeeds(g, m)
  <2>1. m \in Legal(g)
    BY <1>4 DEF Legal
  <2>2. Make(g, m) = r
    BY <2>1, MakeIs
  <2> DEFINE kept == IF Len(g.frames) = FrameLimit THEN Tail(g.frames) ELSE g.frames
  <2>3. PICK f \in Frame : /\ r.frames = Append(kept, f) /\ r.at = h.at
                           /\ r.keys = Append(g.keys, KeyOf(h))
    BY <1>1, <1>3, RecordedIs
  <2>4. /\ dst.moved = st.moved /\ dst.captured = st.captured /\ dst.capturedSq = st.capturedSq
        /\ dst.rights = st.rights /\ dst.ep = st.ep /\ dst.clock = st.clock /\ dst.history = st.history
        /\ dst.frames = st.frames
        /\ dst.dropped = IF Len(g.frames) = FrameLimit THEN Head(g.frames) ELSE NoFrame
    BY DEF Dropped, Info
  <2> HIDE DEF st, dst, h, r
  <2>5. UndoBoard(r.at, m, dst) = g.at
    BY <1>2, <1>3, <2>3, <2>4, UndoneBoard
  <2>6. SubSeq(r.keys, 1, dst.history) = g.keys
    <3>1. KeyOf(h) \in Identity
      BY <1>3, IdentityOf
    <3> QED BY <1>1, <1>2, <2>3, <2>4, <3>1
  <2> DEFINE whole == IF dst.dropped # NoFrame THEN <<dst.dropped>> \o r.frames ELSE r.frames
  <2>7. SubSeq(whole, 1, dst.frames) = g.frames
    <3>1. CASE Len(g.frames) = FrameLimit
      <4>1. Head(g.frames) \in Frame /\ Head(g.frames) # NoFrame
        BY <1>1, HistoryAssumption
      <4>2. whole = <<Head(g.frames)>> \o Append(Tail(g.frames), f)
        BY <2>3, <2>4, <3>1, <4>1
      <4> HIDE DEF whole
      <4>3. SubSeq(whole, 1, Len(g.frames)) = g.frames
        BY <1>1, <2>3, <4>1, <4>2
      <4> QED BY <1>2, <2>4, <4>3
    <3>2. CASE Len(g.frames) # FrameLimit
      <4>1. whole = Append(g.frames, f)
        BY <2>3, <2>4, <3>2
      <4> HIDE DEF whole
      <4> QED BY <1>1, <1>2, <2>3, <2>4, <4>1
    <3> QED BY <3>1, <3>2
  <2>8. Undo(r, m, dst) = [at |-> UndoBoard(r.at, m, dst), rights |-> dst.rights, ep |-> dst.ep,
                           clock |-> dst.clock, keys |-> SubSeq(r.keys, 1, dst.history),
                           frames |-> SubSeq(whole, 1, dst.frames)]
    BY DEF Undo
  <2> HIDE DEF whole
  <2>9. Undo(r, m, dst) = g
    BY <1>1, <1>2, <2>4, <2>5, <2>6, <2>7, <2>8, SameGame
  <2> QED BY <1>4, <2>2, <2>9 DEF dst, st
<1>5. CASE ~Succeeds(g, m)
  <2>1. CASE Barred(g, m)
    BY <1>5, <2>1 DEF Make
  <2>2. CASE ~Barred(g, m)
    <3>1. Exposed(g, m)
      BY <1>5, <2>2 DEF Succeeds
    <3>2. Make(g, m) = Undo(h, m, st)
      BY <2>2, <3>1 DEF Make
    <3> HIDE DEF st, h
    <3>3. UndoBoard(h.at, m, st) = g.at
      BY <1>2, <1>3, UndoneBoard
    <3>4. SubSeq(h.keys, 1, st.history) = g.keys /\ SubSeq(h.frames, 1, st.frames) = g.frames
      BY <1>1, <1>2, <1>3
    <3>5. Undo(h, m, st) = [at |-> UndoBoard(h.at, m, st), rights |-> st.rights, ep |-> st.ep,
                            clock |-> st.clock, keys |-> SubSeq(h.keys, 1, st.history),
                            frames |-> SubSeq(h.frames, 1, st.frames)]
      BY <1>2 DEF Undo
    <3>6. Undo(h, m, st) = g
      BY <1>1, <1>2, <3>3, <3>4, <3>5, SameGame
    <3> QED BY <1>5, <3>2, <3>6
  <2> QED BY <2>1, <2>2
<1> QED BY <1>4, <1>5

LEMMA SixAreFinite ==
  ASSUME NEW a, NEW b, NEW c, NEW d, NEW e, NEW f
  PROVE  IsFiniteSet({a, b, c, d, e, f})
<1> DEFINE ab == {a} \cup {b}
           abc == ab \cup {c}
           abcd == abc \cup {d}
           abcde == abcd \cup {e}
<1>1. IsFiniteSet({a})
  BY FS_Singleton
<1>2. IsFiniteSet(ab)
  BY <1>1, FS_AddElement
<1>3. IsFiniteSet(abc)
  <2> HIDE DEF ab
  <2> QED BY <1>2, FS_AddElement
<1>4. IsFiniteSet(abcd)
  <2> HIDE DEF abc
  <2> QED BY <1>3, FS_AddElement
<1>5. IsFiniteSet(abcde)
  <2> HIDE DEF abcd
  <2> QED BY <1>4, FS_AddElement
<1>6. IsFiniteSet(abcde \cup {f})
  <2> HIDE DEF abcde
  <2> QED BY <1>5, FS_AddElement
<1>7. {a, b, c, d, e, f} = abcde \cup {f}
  OBVIOUS
<1> QED BY <1>6, <1>7

LEMMA MovesAreFinite == IsFiniteSet(Move)
<1>1. IsFiniteSet(Square)
  <2>1. Width * Height - 1 \in Int /\ Square = 0..(Width * Height - 1)
    BY GeometryAssumption
  <2> QED BY <2>1, FS_Interval
<1>2. IsFiniteSet(Type)
  <2>1. Type \subseteq {"pawn", "knight", "bishop", "rook", "queen", "king"}
    BY GeometryAssumption
  <2> QED BY <2>1, SixAreFinite, FS_Subset
<1>3. IsFiniteSet(Kind)
  <2>1. Kind \subseteq {"plain", "double", "promotion", "en passant", "king castle", "queen castle"}
    BY DEF Kind, Castles
  <2> QED BY <2>1, SixAreFinite, FS_Subset
<1> DEFINE Parts == (Square \X Square) \X (Kind \X Type)
           f == [m \in Move |-> <<<<m.from, m.to>>, <<m.kind, m.promotion>>>>]
<1>4. IsFiniteSet(Parts)
  BY <1>1, <1>2, <1>3, FS_Product
<1>5. f \in Injection(Move, Parts)
  <2>1. f \in [Move -> Parts]
    BY DEF Move
  <2>2. ASSUME NEW a \in Move, NEW b \in Move, f[a] = f[b] PROVE a = b
    <3>1. <<<<a.from, a.to>>, <<a.kind, a.promotion>>>> = <<<<b.from, b.to>>, <<b.kind, b.promotion>>>>
      BY <2>2
    <3>2. a.from = b.from /\ a.to = b.to /\ a.kind = b.kind /\ a.promotion = b.promotion
      BY <3>1
    <3> QED BY <3>2 DEF Move
  <2> HIDE DEF f
  <2>3. IsInjective(f)
    BY <2>1, <2>2 DEF IsInjective
  <2> QED BY <2>1, <2>3 DEF Injection
<1> HIDE DEF f, Parts
<1> QED BY <1>4, <1>5, FS_Injection

\* Trying every generated move, in whatever order, leaves the game as it was:
\* generate_legal works on the position itself.
THEOREM ProbingIsIntact ==
  ASSUME NEW g, Honest(g)
  PROVE  Probed(g) = g
<1> DEFINE Try(m, h) == IF Succeeds(h, m) THEN Undo(Make(h, m), m, Dropped(h, Info(h, m))) ELSE Make(h, m)
           S == Pseudo(g)
           Def(f) == [s \in SUBSET S |-> IF s = {} THEN g
                                         ELSE LET x == CHOOSE x \in s : TRUE
                                              IN  Try(x, f[s \ {x}])]
           iter == CHOOSE f : f = Def(f)
           same == [s \in SUBSET S |-> g]
<1>1. \A m \in S : Try(m, g) = g
  BY TrialIsIntact
<1>2. Probed(g) = iter[S]
  BY DEF Probed, FoldSet, MapThenFoldSet
<1> HIDE DEF Try, S
<1>3. \A s \in SUBSET S : s # {} => (CHOOSE x \in s : TRUE) \in s
  OBVIOUS
<1>4. same = Def(same)
  BY <1>1, <1>3
<1>5. iter = Def(iter)
  BY <1>4
<1> HIDE DEF iter
<1>6. IsFiniteSet(S)
  <2>1. S \subseteq Move
    BY GeneratedIsPlayable DEF S
  <2> QED BY <2>1, MovesAreFinite, FS_Subset
<1>7. IsWellFoundedOn(StrictSubsetOrdering(S), SUBSET S)
  BY <1>6, FS_FiniteSubsetsOfFinite, FS_StrictSubsetOrderingWellFounded
<1> DEFINE T == {s \in SUBSET S : iter[s] # g}
<1>8. T = {}
  <2> SUFFICES ASSUME T # {} PROVE FALSE
    OBVIOUS
  <2>1. PICK s \in T : \A u \in T : <<u, s>> \notin StrictSubsetOrdering(S)
    BY <1>7, WFMin
  <2> DEFINE x == CHOOSE x \in s : TRUE
  <2>2. s \in SUBSET S /\ iter[s] # g
    OBVIOUS
  <2>3. iter[s] = IF s = {} THEN g ELSE Try(x, iter[s \ {x}])
    BY <1>5, <2>2
  <2>4. s # {} /\ x \in s /\ x \in S
    BY <1>3, <2>2, <2>3
  <2>5. <<s \ {x}, s>> \in StrictSubsetOrdering(S)
    BY <2>2, <2>4 DEF StrictSubsetOrdering
  <2>6. iter[s \ {x}] = g
    BY <2>1, <2>2, <2>5
  <2> QED BY <1>1, <2>2, <2>3, <2>4, <2>6
<1>9. iter[S] = g
  BY <1>8
<1> QED BY <1>2, <1>9

-----------------------------------------------------------------------------
\* The position command.

\* What set_fen accepts of proper FENs is an honest game.
LEMMA SetFenIsHonest ==
  ASSUME NEW f, Proper(f), SetFen(f) # NoGame
  PROVE  Honest(SetFen(f))
<1> DEFINE kings == [c \in Color |-> CHOOSE s \in Square : f.board[s] = <<c, "king">>]
           at == [board |-> f.board, side |-> f.side, king |-> kings]
           ep == IF f.ep # NoSquare /\ Capturable(f.board, f.ep, f.side) THEN f.ep ELSE NoSquare
           frame == [board |-> f.board, repeated |-> FALSE]
           g == [at |-> at, rights |-> f.rights, ep |-> ep, clock |-> f.clock, keys |-> << >>,
                 frames |-> <<frame>>]
           r == SetFen(f)
<1>1. WellFormed(f) /\ r = [g EXCEPT !.keys = <<KeyOf(g)>>]
  BY DEF SetFen
<1>2. /\ f.board \in [Square -> Piece \cup {Empty}] /\ f.side \in Color /\ f.rights \in SUBSET Right
      /\ f.ep \in Square \cup {NoSquare} /\ f.clock \in Nat
  BY DEF Proper
<1>3. \A c \in Color : \A s \in Square : f.board[s] = <<c, "king">> <=> s = kings[c]
  <2> SUFFICES ASSUME NEW c \in Color
               PROVE  \A s \in Square : f.board[s] = <<c, "king">> <=> s = kings[c]
    OBVIOUS
  <2> DEFINE K == {s \in Square : f.board[s] = <<c, "king">>}
  <2>1. Cardinality(K) = 1
    BY <1>1 DEF WellFormed
  <2>2. IsFiniteSet(K)
    <3>1. Width * Height - 1 \in Int /\ Square = 0..(Width * Height - 1)
      BY GeometryAssumption
    <3>2. IsFiniteSet(Square) /\ K \in SUBSET Square
      BY <3>1, FS_Interval
    <3> QED BY <3>2, FS_Subset
  <2>3. PICK k : K = {k}
    BY <2>1, <2>2, FS_Singleton
  <2>4. kings[c] = CHOOSE s \in Square : f.board[s] = <<c, "king">>
    OBVIOUS
  <2>5. kings[c] \in Square /\ f.board[kings[c]] = <<c, "king">>
    BY <2>3, <2>4
  <2> HIDE DEF kings
  <2> QED BY <2>3, <2>5
<1>4. kings \in [Color -> Square]
  <2>1. \A c \in Color : \E s \in Square : f.board[s] = <<c, "king">>
    <3> SUFFICES ASSUME NEW c \in Color, \A s \in Square : f.board[s] # <<c, "king">> PROVE FALSE
      OBVIOUS
    <3> DEFINE K == {s \in Square : f.board[s] = <<c, "king">>}
    <3>1. K = {}
      OBVIOUS
    <3>2. Cardinality(K) = 1
      BY <1>1 DEF WellFormed
    <3> HIDE DEF K
    <3>3. Cardinality({}) = 1
      BY <3>1, <3>2, Zenon
    <3>4. Cardinality({}) = 0
      BY FS_EmptySet, Zenon
    <3> QED BY <3>3, <3>4
  <2>2. \A c \in Color : (CHOOSE s \in Square : f.board[s] = <<c, "king">>) \in Square
    BY <2>1
  <2> QED BY <2>2
<1>5. at \in Position
  <2> HIDE DEF kings
  <2> QED BY <1>2, <1>4 DEF Position
<1>6. ep \in Square \cup {NoSquare} /\ frame \in Frame
  BY <1>2 DEF Frame
<1> HIDE DEF ep, frame, kings
<1>7. KeyOf(g) \in Identity
  BY <1>2, <1>5, <1>6 DEF KeyOf, Identity
<1> DEFINE key == KeyOf(g)
<1>8. r = [at |-> at, rights |-> f.rights, ep |-> ep, clock |-> f.clock, keys |-> <<key>>,
           frames |-> <<frame>>]
  BY <1>1
<1>9. KeyOf(r) = key
  BY <1>8 DEF KeyOf
<1> HIDE DEF key
<1>10. <<key>> \in Seq(Identity) /\ <<frame>> \in Seq(Frame) /\ Len(<<frame>>) = 1 /\ Len(<<key>>) = 1
       /\ <<key>>[1] = key
  BY <1>6, <1>7 DEF key
<1> HIDE DEF g, r
<1>11. r \in Game
  BY <1>2, <1>5, <1>6, <1>8, <1>10 DEF Game
<1>12. Len(r.keys) >= 1 /\ r.keys[Len(r.keys)] = KeyOf(r) /\ Len(r.frames) \in 1..FrameLimit
  BY <1>8, <1>9, <1>10, HistoryAssumption
<1>13. /\ r.at.board = f.board /\ r.at.king = kings /\ r.at.side = f.side
       /\ r.rights = f.rights /\ r.ep = ep
  BY <1>8
<1>14. KingsHome(r)
  BY <1>3, <1>13 DEF KingsHome
<1>15. PawnsBetween(r)
  <2>1. 0 # Height - 1
    BY GeometryAssumption
  <2> QED BY <1>1, <1>13, <2>1 DEF PawnsBetween, WellFormed
<1>16. RightsHome(r)
  BY <1>1, <1>13 DEF RightsHome, WellFormed
<1>17. EpTaken(r)
  <2> SUFFICES ASSUME ep # NoSquare PROVE EpTaken(r)
    BY <1>13 DEF EpTaken
  <2>1. ep = f.ep /\ f.ep # NoSquare /\ Capturable(f.board, f.ep, f.side)
    BY DEF ep
  <2>2. /\ Rank(f.ep) = ThirdRank(Them(f.side)) /\ f.board[f.ep] = Empty
        /\ f.board[f.ep - Forward(f.side) * Width] = <<Them(f.side), "pawn">>
    BY <1>1, <2>1 DEF WellFormed
  <2> QED BY <1>13, <2>1, <2>2 DEF EpTaken
<1>18. ~Attacked(r.at.board, r.at.king[Them(r.at.side)], r.at.side)
  <2>1. Them(f.side) \in Color
    BY <1>2 DEF Them, Color
  <2>2. kings[Them(f.side)] \in Square /\ f.board[kings[Them(f.side)]] = <<Them(f.side), "king">>
    BY <1>3, <1>4, <2>1
  <2> QED BY <1>13, <2>2 DEF Proper
<1>19. Recalled(r)
  <2> DEFINE n == Len(r.keys)
             k == Len(r.frames)
  <2>1. n = 1 /\ k = 1 /\ r.keys[1] = key /\ r.frames[1] = frame
    BY <1>8, <1>10
  <2>2. key.board = f.board
    BY DEF key, KeyOf, g
  <2>3. Reversible(r) = 0 /\ BoardWeight(key.board) \in Nat
    <3>1. f.clock \in Nat /\ r.clock = f.clock
      BY <1>2, <1>8
    <3>2. Reversible(r) = 0
      BY <2>1, <3>1 DEF Reversible
    <3> QED BY <1>2, <2>2, <3>2, UnitsAreFinite
  <2> HIDE DEF n, k
  <2>4. ASSUME NEW i \in 1..n
        PROVE  /\ BoardWeight(r.keys[n].board) <= BoardWeight(r.keys[i].board)
               /\ i < n - Reversible(r) => BoardWeight(r.keys[n].board) < BoardWeight(r.keys[i].board)
               /\ r.keys[i].side = r.keys[n].side <=> (n - i) % 2 = 0
    <3>1. i = n /\ n \in Int
      BY <2>1
    <3>2. (n - i) % 2 = 0 /\ ~(i < n - Reversible(r))
      BY <2>3, <3>1
    <3>3. BoardWeight(r.keys[n].board) <= BoardWeight(r.keys[n].board)
      BY <2>1, <2>3
    <3> QED BY <3>1, <3>2, <3>3
  <2>5. Ordered(r)
    BY <2>4, Zenon DEF Ordered, n
  <2>6. ASSUME NEW i \in 1..k
        PROVE  r.frames[i] = [board |-> r.keys[n - k + i].board, repeated |-> Earlier(r.keys, n - k + i) # {}]
    <3>1. i = 1 /\ n - k + i = 1 /\ i - 1 = 0
      BY <2>1
    <3>2. Earlier(r.keys, 1) = {}
      <4>1. 1..(1 - 1) = {}
        OBVIOUS
      <4> QED BY <4>1 DEF Earlier
    <3> QED BY <2>1, <2>2, <3>1, <3>2 DEF frame
  <2>7. k = IF n < FrameLimit THEN n ELSE FrameLimit
    BY <2>1, HistoryAssumption
  <2>8. Framed(r)
    BY <2>6, <2>7, Zenon DEF Framed, n, k
  <2> QED BY <2>5, <2>8 DEF Recalled
<1> QED BY <1>11, <1>12, <1>14, <1>15, <1>16, <1>17, <1>18, <1>19 DEF Honest, r

LEMMA LeastMember == \A T \in SUBSET Nat : T # {} => \E n \in T : \A k \in T : n <= k
<1> SUFFICES ASSUME NEW A \in SUBSET Nat, A # {} PROVE \E n \in A : \A k \in A : n <= k
  OBVIOUS
<1> DEFINE R == {ss \in Nat \X Nat : ss[1] < ss[2]}
<1>1. IsWellFoundedOn(R, Nat)
  BY NatLessThanWellFounded DEF OpToRel
<1> HIDE DEF R
<1>2. \E n \in A : \A k \in A : ~(<<k, n>> \in R)
  BY <1>1, WFMin
<1>3. ASSUME NEW n \in A, NEW k \in A, <<k, n>> \notin R PROVE n <= k
  <2>1. <<k, n>> \in Nat \X Nat
    OBVIOUS
  <2>2. ~(k < n)
    BY <1>3, <2>1 DEF R
  <2> QED BY <2>2
<1> QED BY <1>2, <1>3

LEMMA LargestIsChosen ==
  ASSUME NEW n \in Nat, NEW s, s \subseteq 1..n, s # {}
  PROVE  Max(s) \in s
<1> DEFINE T == {k \in Nat : \A x \in s : x <= k}
<1>1. n \in T /\ T \subseteq Nat
  OBVIOUS
<1>2. PICK k \in T : \A j \in T : k <= j
  BY <1>1, LeastMember
<1>3. k \in s
  <2> SUFFICES ASSUME k \notin s PROVE FALSE
    OBVIOUS
  <2>3. PICK x : x \in s
    OBVIOUS
  <2>1. k >= 1
    BY <2>3
  <2>2. k - 1 \in T
    BY <2>1
  <2> QED BY <1>2, <2>2
<1>4. \A y \in s : k >= y
  OBVIOUS
<1> QED BY <1>3, <1>4 DEF Max

\* Every nonempty subset has a chosen member, every member of V a successor in V, and
\* there is a function that a fold with those could be.
Picks(S, pick) == \A s \in SUBSET S : s # {} => pick[s] \in s
Steps(S, V, next) == \A s \in SUBSET S : \A v \in V : s # {} => next[s][v] \in V
FoldSolved(S, V, base, pick, next) ==
  \E f \in [SUBSET S -> V] :
    \A s \in SUBSET S : f[s] = IF s = {} THEN base ELSE next[s][f[s \ {pick[s]}]]

\* The recursion of a fold over the subsets of a finite set has a solution.
LEMMA FoldExists ==
  ASSUME NEW S, IsFiniteSet(S), NEW pick, Picks(S, pick), NEW V, NEW base, base \in V,
         NEW next, Steps(S, V, next)
  PROVE  FoldSolved(S, V, base, pick, next)
<1> USE DEF Picks, Steps, FoldSolved
<1> DEFINE Solves(f, n) ==
             \A s \in SUBSET S : Cardinality(s) <= n =>
               f[s] = IF s = {} THEN base ELSE next[s][f[s \ {pick[s]}]]
           Solved(n) == \E f \in [SUBSET S -> V] : Solves(f, n)
           T == {n \in Nat : ~Solved(n)}
<1>1. /\ \A s \in SUBSET S : IsFiniteSet(s) /\ Cardinality(s) \in Nat /\ Cardinality(s) <= Cardinality(S)
      /\ \A s \in SUBSET S : s # {} =>
           s \ {pick[s]} \in SUBSET S /\ Cardinality(s \ {pick[s]}) = Cardinality(s) - 1
      /\ Cardinality(S) \in Nat
  <2>1. \A s \in SUBSET S : IsFiniteSet(s) /\ Cardinality(s) <= Cardinality(S)
    BY FS_Subset
  <2>2. \A s \in SUBSET S : Cardinality(s) \in Nat
    BY <2>1, FS_CardinalityType
  <2>3. \A s \in SUBSET S : s # {} => Cardinality(s \ {pick[s]}) = Cardinality(s) - 1
    BY <2>1, FS_RemoveElement
  <2> QED BY <2>1, <2>2, <2>3, FS_CardinalityType
<1>2. Solved(0)
  <2> DEFINE f == [s \in SUBSET S |-> base]
  <2>1. f \in [SUBSET S -> V]
    OBVIOUS
  <2>2. \A s \in SUBSET S : Cardinality(s) <= 0 => s = {}
    BY <1>1, FS_EmptySet
  <2>3. Solves(f, 0)
    BY <2>2
  <2> HIDE DEF f
  <2> QED BY <2>1, <2>3
<1>3. ASSUME NEW n \in Nat, Solved(n) PROVE Solved(n + 1)
  <2>1. PICK f \in [SUBSET S -> V] : Solves(f, n)
    BY <1>3
  <2> DEFINE h == [s \in SUBSET S |-> IF Cardinality(s) = n + 1 THEN next[s][f[s \ {pick[s]}]] ELSE f[s]]
  <2>2. ASSUME NEW s \in SUBSET S, Cardinality(s) = n + 1 PROVE s # {}
    <3>1. s = {} => Cardinality(s) = 0
      BY FS_EmptySet
    <3>2. n + 1 # 0
      OBVIOUS
    <3> QED BY <2>2, <3>1, <3>2
  <2>3. h \in [SUBSET S -> V]
    BY <1>1, <2>2
  <2>4. \A s \in SUBSET S : Cardinality(s) <= n => h[s] = f[s]
    BY <1>1
  <2>5. ASSUME NEW s \in SUBSET S, Cardinality(s) <= n + 1
        PROVE  h[s] = IF s = {} THEN base ELSE next[s][h[s \ {pick[s]}]]
    <3>1. CASE s = {}
      <4>1. Cardinality(s) = 0
        BY <3>1, FS_EmptySet
      <4>5. Cardinality(s) <= n
        BY <4>1
      <4>2. f[s] = base
        BY <2>1, <3>1, <4>5
      <4> HIDE DEF h
      <4>3. h[s] = f[s]
        BY <2>4, <4>1
      <4> QED BY <3>1, <4>2, <4>3
    <3>2. CASE s # {}
      <4>1. h[s \ {pick[s]}] = f[s \ {pick[s]}]
        <5>1. Cardinality(s \ {pick[s]}) <= n /\ s \ {pick[s]} \in SUBSET S
          BY <1>1, <2>5, <3>2
        <5> QED BY <2>4, <5>1
      <4>2. h[s] = next[s][f[s \ {pick[s]}]]
        <5>1. CASE Cardinality(s) = n + 1
          BY <5>1
        <5>2. CASE Cardinality(s) # n + 1
          <6>1. Cardinality(s) <= n
            BY <1>1, <2>5, <5>2
          <6>2. f[s] = next[s][f[s \ {pick[s]}]]
            BY <2>1, <3>2, <6>1
          <6> HIDE DEF h
          <6> QED BY <2>4, <6>1, <6>2
        <5> QED BY <5>1, <5>2
      <4> QED BY <3>2, <4>1, <4>2
    <3> QED BY <3>1, <3>2
  <2> HIDE DEF h
  <2>6. Solves(h, n + 1)
    BY <2>5
  <2> QED BY <2>3, <2>6
<1>4. T = {}
  <2> SUFFICES ASSUME T # {} PROVE FALSE
    OBVIOUS
  <2>1. PICK n \in T : \A k \in T : n <= k
    <3>1. T \in SUBSET Nat
      OBVIOUS
    <3> HIDE DEF T
    <3> QED BY <3>1, LeastMember
  <2> HIDE DEF Solved
  <2>2. n \in Nat /\ ~Solved(n) /\ n # 0
    BY <1>2, <2>1
  <2>3. n - 1 \in Nat /\ n - 1 \notin T
    BY <2>1, <2>2
  <2>4. Solved(n - 1)
    BY <2>3
  <2>5. Solved((n - 1) + 1)
    BY <1>3, <2>3, <2>4
  <2> QED BY <2>2, <2>5
<1>5. Solved(Cardinality(S))
  BY <1>1, <1>4
<1>6. PICK f \in [SUBSET S -> V] : Solves(f, Cardinality(S))
  BY <1>5
<1> QED BY <1>1, <1>6

\* A move of a position command, made if it is legal where it is made; and the games a
\* command passes through.
Played(g, m) == IF g = NoGame \/ m \notin Legal(g) THEN NoGame ELSE Make(Probed(g), m)
PassesThrough(c, f) ==
  f[0] = SetFen(c.fen) /\ \A k \in 1..Len(c.moves) : f[k] = Played(f[k - 1], c.moves[k])

LEMMA PlayedIsHonest ==
  ASSUME NEW g, g = NoGame \/ Honest(g), NEW m
  PROVE  /\ Played(g, m) = NoGame \/ Honest(Played(g, m))
         /\ g # NoGame /\ m \in Legal(g) => Honest(Played(g, m))
<1>1. ASSUME g # NoGame, m \in Legal(g) PROVE Honest(Played(g, m))
  <2>1. Honest(Make(g, m)) /\ Probed(g) = g
    BY <1>1, LegalKeepsHonest, ProbingIsIntact
  <2> QED BY <1>1, <2>1 DEF Played
<1>2. g = NoGame \/ m \notin Legal(g) => Played(g, m) = NoGame
  BY DEF Played
<1> QED BY <1>1, <1>2

\* What set_position computes with a loop, each move parsed among the legal ones of the
\* game the moves before it lead to, is the position the whole command asks for.
THEOREM PositionedInSteps ==
  ASSUME NEW c, c.moves \in Seq(Move), SetFen(c.fen) = NoGame \/ Honest(SetFen(c.fen))
  PROVE  \E f : PassesThrough(c, f) /\ f[Len(c.moves)] = Positioned(c)
<1> DEFINE Play(g, m) == IF g = NoGame \/ m \notin Legal(g) THEN NoGame ELSE Make(Probed(g), m)
           S == DOMAIN c.moves
           base == SetFen(c.fen)
           V == {g \in Game : Honest(g)} \cup {NoGame}
           Def(f) == [s \in SUBSET S |-> IF s = {} THEN base
                                         ELSE LET x == Max(s) IN Play(f[s \ {x}], c.moves[x])]
           iter == CHOOSE f : f = Def(f)
           pick == [s \in SUBSET S |-> Max(s)]
           next == [s \in SUBSET S |-> [v \in V |-> Play(v, c.moves[Max(s)])]]
<1>1. Positioned(c) = iter[S]
  BY DEF Positioned, FoldLeft, MapThenFoldSet
<1>2. \A v \in V : \A m : Play(v, m) \in V
  <2> SUFFICES ASSUME NEW v \in V, NEW m PROVE Played(v, m) \in V
    BY DEF Played
  <2>1. v = NoGame \/ Honest(v)
    OBVIOUS
  <2>2. Played(v, m) = NoGame \/ Honest(Played(v, m))
    BY <2>1, PlayedIsHonest
  <2> QED BY <2>2 DEF Honest
<1>3. base \in V
  BY DEF Honest
<1>4. S = 1..Len(c.moves) /\ Len(c.moves) \in Nat
  OBVIOUS
<1>5. IsFiniteSet(S)
  BY <1>4, FS_Interval
<1>6. \A s \in SUBSET S : s # {} => Max(s) \in s
  BY <1>4, LargestIsChosen
<1> HIDE DEF Play, S, base, V
<1>7. Picks(S, pick)
  BY <1>6 DEF Picks
<1>8. Steps(S, V, next)
  BY <1>2 DEF Steps
<1>9. FoldSolved(S, V, base, pick, next)
  <2> HIDE DEF pick, next
  <2> QED BY <1>3, <1>5, <1>7, <1>8, FoldExists
<1>10. PICK k \in [SUBSET S -> V] :
         \A s \in SUBSET S : k[s] = IF s = {} THEN base ELSE next[s][k[s \ {pick[s]}]]
  BY <1>9 DEF FoldSolved
<1>11. k = Def(k)
  <2>1. ASSUME NEW s \in SUBSET S
        PROVE  k[s] = IF s = {} THEN base ELSE Play(k[s \ {Max(s)}], c.moves[Max(s)])
    <3>1. pick[s] = Max(s) /\ s \ {Max(s)} \in SUBSET S
      OBVIOUS
    <3>2. k[s \ {Max(s)}] \in V
      BY <3>1
    <3>3. next[s][k[s \ {Max(s)}]] = Play(k[s \ {Max(s)}], c.moves[Max(s)])
      BY <3>2
    <3> HIDE DEF pick, next
    <3> QED BY <1>10, <3>1, <3>3
  <2> HIDE DEF pick, next
  <2>2. k = [s \in SUBSET S |-> k[s]]
    OBVIOUS
  <2> QED BY <2>1, <2>2
<1>12. iter = Def(iter)
  BY <1>11
<1> HIDE DEF iter
<1> DEFINE f == [i \in 0..Len(c.moves) |-> iter[1..i]]
<1>13. f[0] = SetFen(c.fen)
  <2>1. 1..0 = {} /\ {} \in SUBSET S /\ 0 \in 0..Len(c.moves)
    <3>1. 1..0 = {} /\ \A n \in Nat : 0 \in 0..n
      OBVIOUS
    <3> QED BY <1>4, <3>1, Zenon
  <2>2. iter[{}] = base
    BY <1>12, <2>1
  <2> QED BY <2>1, <2>2 DEF base
<1>14. ASSUME NEW i \in 1..Len(c.moves) PROVE f[i] = Played(f[i - 1], c.moves[i])
  <2>1. 1..i \in SUBSET S /\ 1..i # {} /\ i \in 0..Len(c.moves) /\ i - 1 \in 0..Len(c.moves)
    <3>1. \A n \in Nat : \A j \in 1..n :
            1..j \subseteq 1..n /\ j \in 1..j /\ j \in 0..n /\ j - 1 \in 0..n
      OBVIOUS
    <3>2. 1..i \subseteq 1..Len(c.moves) /\ i \in 1..i /\ i \in 0..Len(c.moves) /\ i - 1 \in 0..Len(c.moves)
      BY <1>4, <3>1, Zenon
    <3> HIDE DEF f
    <3> QED BY <1>4, <3>2, Zenon
  <2>2. Max(1..i) = i
    <3>1. i \in 1..i /\ \A y \in 1..i : i >= y
      OBVIOUS
    <3>2. \A x \in 1..i : (\A y \in 1..i : x >= y) => x = i
      OBVIOUS
    <3> QED BY <3>1, <3>2, Zenon DEF Max
  <2>3. (1..i) \ {i} = 1..(i - 1)
    OBVIOUS
  <2>4. iter[1..i] = Play(iter[(1..i) \ {Max(1..i)}], c.moves[Max(1..i)])
    BY <1>12, <2>1
  <2>5. iter[1..i] = Play(iter[1..(i - 1)], c.moves[i])
    BY <2>2, <2>3, <2>4, Zenon
  <2> QED BY <2>1, <2>5, Zenon DEF Played, Play
<1>15. f[Len(c.moves)] = iter[S]
  <2>1. Len(c.moves) \in 0..Len(c.moves)
    <3>1. \A n \in Nat : n \in 0..n
      OBVIOUS
    <3> QED BY <1>4, <3>1, Zenon
  <2>2. f[Len(c.moves)] = iter[1..Len(c.moves)]
    BY <2>1, Zenon
  <2> QED BY <1>4, <2>2, Zenon
<1> HIDE DEF f
<1> QED BY <1>1, <1>13, <1>14, <1>15 DEF PassesThrough

-----------------------------------------------------------------------------
\* Proof contexts.

\* The keys that can be looked back on decide how often a position was repeated.
LEMMA RepetitionsAgree ==
  ASSUME NEW a \in Game, NEW b \in Game, Len(a.keys) >= 1, Len(b.keys) >= 1,
         KeyOf(a) = KeyOf(b), ReversibleKeys(a) = ReversibleKeys(b)
  PROVE  Reversible(a) = Reversible(b) /\ RepetitionCount(a) = RepetitionCount(b)
<1> DEFINE r == Reversible(a)
<1>1. Reversible(b) = r /\ r \in Nat
  BY ReversibleIs
<1>2. ASSUME NEW i \in 2..r PROVE a.keys[Len(a.keys) - i] = b.keys[Len(b.keys) - i]
  <2>1. i \in 0..Reversible(a) /\ i \in 0..Reversible(b)
    BY <1>1
  <2>2. /\ ReversibleKeys(a)[Reversible(a) - i + 1] = a.keys[Len(a.keys) - i]
        /\ ReversibleKeys(b)[Reversible(b) - i + 1] = b.keys[Len(b.keys) - i]
    BY <2>1, ReversibleIs
  <2> QED BY <1>1, <2>2
<1> HIDE DEF r
<1>3. {i \in 2..r : i % 2 = 0 /\ a.keys[Len(a.keys) - i] = KeyOf(a)}
        = {i \in 2..r : i % 2 = 0 /\ b.keys[Len(b.keys) - i] = KeyOf(b)}
  BY <1>2
<1> QED BY <1>1, <1>3 DEF RepetitionCount, r

LEMMA SameParts ==
  ASSUME NEW a, NEW b, Honest(a), Honest(b), KeyOf(a) = KeyOf(b)
  PROVE  a.at = b.at /\ a.rights = b.rights /\ a.ep = b.ep
<1>1. a \in Game /\ b \in Game /\ KingsHome(a) /\ KingsHome(b)
  BY DEF Honest
<1>2. a.at.board = b.at.board /\ a.at.side = b.at.side /\ a.rights = b.rights /\ a.ep = b.ep
  BY DEF KeyOf
<1>3. a.at \in Position /\ b.at \in Position /\ a.at.king \in [Color -> Square] /\ b.at.king \in [Color -> Square]
  BY <1>1, GameParts
<1>4. \A c \in Color : a.at.king[c] = b.at.king[c]
  BY <1>1, <1>2, <1>3 DEF KingsHome
<1>5. a.at.king = b.at.king
  BY <1>3, <1>4
<1>6. a.at = b.at
  BY <1>2, <1>3, <1>5 DEF Position
<1> QED BY <1>2, <1>6

\* Positions of one proof context cannot be told apart by what a search asks of them:
\* their draws, their repetitions, LD2's frames and their legal moves, after each of
\* which they are of one context again.
THEOREM ContextsAgree ==
  ASSUME NEW a, NEW b, Honest(a), Honest(b), SameContext(a, b)
  PROVE  /\ Legal(a) = Legal(b) /\ RepetitionCount(a) = RepetitionCount(b) /\ a.frames = b.frames
         /\ \A r \in BOOLEAN : DrawByRule(a, r) = DrawByRule(b, r)
         /\ \A m \in Legal(a) : SameContext(Make(a, m), Make(b, m))
<1>1. a \in Game /\ b \in Game /\ Len(a.keys) >= 1 /\ Len(b.keys) >= 1
  BY DEF Honest
<1>2. /\ KeyOf(a) = KeyOf(b) /\ a.clock = b.clock /\ ReversibleKeys(a) = ReversibleKeys(b)
      /\ a.frames = b.frames
  BY DEF SameContext
<1>3. a.at = b.at /\ a.rights = b.rights /\ a.ep = b.ep
  BY <1>2, SameParts
<1>4. Reversible(a) = Reversible(b) /\ RepetitionCount(a) = RepetitionCount(b)
  BY <1>1, <1>2, RepetitionsAgree
<1>5. Pseudo(a) = Pseudo(b)
  BY <1>3 DEF Pseudo
<1>6. \A m : Succeeds(a, m) <=> Succeeds(b, m)
  BY <1>3 DEF Succeeds, Barred, Exposed
<1>7. Legal(a) = Legal(b)
  BY <1>5, <1>6 DEF Legal
<1>8. \A r \in BOOLEAN : DrawByRule(a, r) = DrawByRule(b, r)
  BY <1>2, <1>3, <1>4 DEF DrawByRule
<1>9. ASSUME NEW m \in Legal(a) PROVE SameContext(Make(a, m), Make(b, m))
  <2> DEFINE x == Moved(a, m)
             y == Moved(b, m)
             p == Recorded(x)
             q == Recorded(y)
             key == KeyOf(x)
  <2>1. /\ m \in Pseudo(a) /\ m \in Pseudo(b) /\ Make(a, m) = p /\ Make(b, m) = q
    BY <1>7, <1>9, MakeIs
  <2>2. /\ x \in Game /\ x.at = MakeMove(a.at, m) /\ x.ep = DoubleEp(a, m) /\ x.keys = a.keys
        /\ x.frames = a.frames
        /\ y \in Game /\ y.at = MakeMove(b.at, m) /\ y.ep = DoubleEp(b, m) /\ y.keys = b.keys
        /\ y.frames = b.frames
    BY <2>1, MovedIs
  <2>3. x.at = y.at /\ x.ep = y.ep
    BY <1>3, <2>2 DEF DoubleEp
  <2>4. x.rights = y.rights /\ x.clock = y.clock /\ x.clock \in {0, a.clock + 1}
    <3> DEFINE cap == a.at.board[CapturedSq(a.at, m)]
               taken == IF cap # Empty THEN RightsOf(CapturedSq(a.at, m)) ELSE {}
               clock == IF a.at.board[m.from][2] = "pawn" \/ cap # Empty THEN 0 ELSE a.clock + 1
    <3>1. x.rights = a.rights \ (RightsOf(m.from) \cup taken) /\ x.clock = clock
      BY <1>1 DEF Moved, Info, Game
    <3>2. y.rights = a.rights \ (RightsOf(m.from) \cup taken) /\ y.clock = clock
      <4>1. b = [at |-> a.at, rights |-> a.rights, ep |-> a.ep, clock |-> a.clock,
                 keys |-> b.keys, frames |-> a.frames]
        BY <1>1, <1>2, <1>3 DEF Game
      <4> QED BY <1>1, <1>2, <1>3, <4>1 DEF Moved, Info
    <3> QED BY <3>1, <3>2
  <2>5. KeyOf(y) = key /\ key \in Identity
    BY <2>2, <2>3, <2>4, IdentityOf DEF KeyOf
  <2>6. Len(a.frames) \in 1..FrameLimit /\ Len(b.frames) \in 1..FrameLimit
    BY DEF Honest
  <2> DEFINE nx == [x EXCEPT !.keys = Append(@, key)]
             ny == [y EXCEPT !.keys = Append(@, key)]
  <2>7. /\ nx.at = x.at /\ nx.rights = x.rights /\ nx.ep = x.ep /\ nx.clock = x.clock
        /\ nx.keys = Append(a.keys, key) /\ nx.frames = a.frames /\ nx \in Game
        /\ ny.at = x.at /\ ny.rights = x.rights /\ ny.ep = x.ep /\ ny.clock = x.clock
        /\ ny.keys = Append(b.keys, key) /\ ny.frames = a.frames /\ ny \in Game
    <3> HIDE DEF x, y, key
    <3>1. ASSUME NEW g \in Game PROVE
            LET n == [g EXCEPT !.keys = Append(@, key)]
            IN  /\ n.at = g.at /\ n.rights = g.rights /\ n.ep = g.ep /\ n.clock = g.clock
                /\ n.keys = Append(g.keys, key) /\ n.frames = g.frames /\ n \in Game
      <4>1. Append(g.keys, key) \in Seq(Identity)
        BY <2>5 DEF Game
      <4> DEFINE k == Append(g.keys, key)
      <4> HIDE DEF k
      <4>2. LET n == [g EXCEPT !.keys = k]
            IN  /\ n.at = g.at /\ n.rights = g.rights /\ n.ep = g.ep /\ n.clock = g.clock
                /\ n.keys = k /\ n.frames = g.frames /\ n \in Game
        BY <4>1 DEF Game, k
      <4> QED BY <4>2 DEF k
    <3> QED BY <1>2, <2>2, <2>3, <2>4, <3>1
  <2> HIDE DEF nx, ny
  <2>8. KeyOf(nx) = key /\ KeyOf(ny) = key
    BY <2>3, <2>7 DEF KeyOf
  <2> HIDE DEF x, y, key
  <2>9. Len(nx.keys) = Len(a.keys) + 1 /\ Len(ny.keys) = Len(b.keys) + 1
    BY <1>1, <2>5, <2>7 DEF Game
  <2>10. ReversibleKeys(nx) = ReversibleKeys(ny)
    <3>1. /\ a.keys \in Seq(Identity) /\ b.keys \in Seq(Identity) /\ a.clock \in Nat
          /\ Reversible(a) \in 0..(Len(a.keys) - 1) /\ Reversible(b) \in 0..(Len(b.keys) - 1)
      BY <1>1, ReversibleIs
    <3>2. /\ Reversible(a) = IF a.clock <= Len(a.keys) - 1 THEN a.clock ELSE Len(a.keys) - 1
          /\ Reversible(b) = IF a.clock <= Len(b.keys) - 1 THEN a.clock ELSE Len(b.keys) - 1
      BY <1>2 DEF Reversible
    <3>3. /\ Reversible(nx) = IF x.clock <= Len(a.keys) THEN x.clock ELSE Len(a.keys)
          /\ Reversible(ny) = IF x.clock <= Len(b.keys) THEN x.clock ELSE Len(b.keys)
      BY <1>1, <2>7, <2>9, <3>1 DEF Reversible
    <3>9. Len(a.keys) \in Nat /\ Len(b.keys) \in Nat /\ (x.clock = 0 \/ x.clock = a.clock + 1)
      BY <2>4, <3>1
    <3>4. Reversible(nx) = Reversible(ny) /\ Reversible(nx) \in 0..(Reversible(a) + 1)
      <4> DEFINE h == a.clock
                 k == Len(a.keys)
                 l == Len(b.keys)
                 c == x.clock
                 r == Reversible(a)
                 u == Reversible(nx)
                 v == Reversible(ny)
      <4>1. /\ h \in Nat /\ k \in Nat /\ l \in Nat /\ (c = 0 \/ c = h + 1) /\ k >= 1
            /\ r = IF h <= k - 1 THEN h ELSE k - 1
            /\ r = IF h <= l - 1 THEN h ELSE l - 1
            /\ u = IF c <= k THEN c ELSE k
            /\ v = IF c <= l THEN c ELSE l
        BY <1>1, <1>4, <3>1, <3>2, <3>3, <3>9
      <4> HIDE DEF h, k, l, c, r, u, v
      <4>2. u = v /\ u \in 0..(r + 1)
        BY <4>1
      <4> QED BY <4>2 DEF u, v, r
    <3> DEFINE r == Reversible(nx)
               s == ReversibleKeys(nx)
               t == ReversibleKeys(ny)
    <3>5. /\ s \in Seq(Identity) /\ t \in Seq(Identity) /\ Len(s) = r + 1 /\ Len(t) = r + 1
          /\ \A i \in 0..r : s[r - i + 1] = nx.keys[Len(nx.keys) - i]
          /\ \A i \in 0..r : t[r - i + 1] = ny.keys[Len(ny.keys) - i]
      <4>1. Len(nx.keys) >= 1 /\ Len(ny.keys) >= 1
        BY <1>1, <2>9
      <4> QED BY <2>7, <3>4, <4>1, ReversibleIs
    <3>6. ASSUME NEW i \in 0..r PROVE nx.keys[Len(nx.keys) - i] = ny.keys[Len(ny.keys) - i]
      <4>1. CASE i = 0
        BY <2>5, <2>7, <2>9, <3>1, <4>1
      <4>2. CASE i # 0
        <5>1. i - 1 \in 0..Reversible(a) /\ i - 1 \in 0..Reversible(b)
          BY <1>4, <3>1, <3>4, <4>2
        <5>2. a.keys[Len(a.keys) - (i - 1)] = b.keys[Len(b.keys) - (i - 1)]
          <6>1. /\ ReversibleKeys(a)[Reversible(a) - (i - 1) + 1] = a.keys[Len(a.keys) - (i - 1)]
                /\ ReversibleKeys(b)[Reversible(b) - (i - 1) + 1] = b.keys[Len(b.keys) - (i - 1)]
            BY <1>1, <5>1, ReversibleIs
          <6> QED BY <1>2, <1>4, <6>1
        <5>3. /\ nx.keys[Len(nx.keys) - i] = a.keys[Len(a.keys) - (i - 1)]
              /\ ny.keys[Len(ny.keys) - i] = b.keys[Len(b.keys) - (i - 1)]
          <6>1. Len(a.keys) + 1 - i \in 1..Len(a.keys) /\ Len(b.keys) + 1 - i \in 1..Len(b.keys)
            BY <3>1, <5>1, <4>2
          <6> QED BY <2>5, <2>7, <2>9, <3>1, <6>1
        <5> QED BY <5>2, <5>3
      <4> QED BY <4>1, <4>2
    <3> HIDE DEF s, t, r
    <3>7. ASSUME NEW j \in 1..(r + 1) PROVE s[j] = t[j]
      <4>1. r + 1 - j \in 0..r /\ r - (r + 1 - j) + 1 = j
        BY <3>1, <3>4, SMTT(30) DEF r
      <4> QED BY <3>5, <3>6, <4>1
    <3> QED BY <3>1, <3>4, <3>5, <3>7 DEF s, t, r
  <2>11. RepetitionCount(nx) = RepetitionCount(ny)
    <3>1. Len(nx.keys) >= 1 /\ Len(ny.keys) >= 1
      BY <1>1, <2>9 
    <3> QED BY <2>7, <2>8, <2>10, <3>1, RepetitionsAgree
  <2>12. /\ p.at = nx.at /\ p.rights = nx.rights /\ p.ep = nx.ep /\ p.clock = nx.clock
         /\ p.keys = nx.keys
         /\ q.at = ny.at /\ q.rights = ny.rights /\ q.ep = ny.ep /\ q.clock = ny.clock
         /\ q.keys = ny.keys
    BY <1>2, <2>2, <2>3, <2>4, <2>5, <2>6, <2>7, RecordedIs, SMTT(30) DEF key
  <2>13. p.frames = q.frames
    <3> DEFINE f(n, g) == [board |-> g.at.board, repeated |-> RepetitionCount(n) > 0]
               kept(n) == IF Len(n.frames) = FrameLimit THEN Tail(n.frames) ELSE n.frames
    <3>1. p = [nx EXCEPT !.frames = Append(kept(nx), f(nx, x))]
      BY DEF Recorded, nx, key
    <3>2. q = [ny EXCEPT !.frames = Append(kept(ny), f(ny, y))]
      BY <2>5 DEF Recorded, ny
    <3>3. kept(nx) = kept(ny) /\ f(nx, x) = f(ny, y)
      BY <2>3, <2>7, <2>11
    <3> HIDE DEF kept, f
    <3> QED BY <2>7, <3>1, <3>2, <3>3 DEF Game
  <2>14. ReversibleKeys(p) = ReversibleKeys(nx) /\ ReversibleKeys(q) = ReversibleKeys(ny)
    BY <2>12 DEF ReversibleKeys, Reversible
  <2>15. KeyOf(p) = KeyOf(q) /\ p.clock = q.clock
    BY <2>7, <2>12 DEF KeyOf
  <2> HIDE DEF p, q
  <2> QED BY <2>1, <2>10, <2>13, <2>14, <2>15 DEF SameContext
<1> QED BY <1>2, <1>4, <1>7, <1>8, <1>9

=============================================================================
