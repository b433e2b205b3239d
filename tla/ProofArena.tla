----------------------------- MODULE ProofArena -----------------------------
(***************************************************************************)
(* The positions of the Modern B* proof driver (src/src/search.cpp): the   *)
(* root, set by the position command one move at a time (src/src/uci.cpp), *)
(* the arena of positions the nodes of the proof tree stand for, nodes     *)
(* shared by paths that lead to one proof context, and the NNUE            *)
(* accumulators: a bounded cache by node, and a missing one rebuilt from   *)
(* the nearest cached ancestor. Nodes are numbered in the order of their   *)
(* creation; the root is 0.                                                *)
(***************************************************************************)
EXTENDS GameHistory

CONSTANTS
  Command,        \* position commands: a FEN and moves
  NoCommand,      \* none is being obeyed
  Searchmoves(_), \* the moves a search of a root is restricted to, {} for all
  Prior(_),       \* the prior of a move, by which candidates are ordered
  Budget(_),      \* the nodes a search of a root may make, more than it has moves
  Widening,       \* moves materialised by an expansion, all of them at the root
  Capacity        \* accumulatorCacheCapacity

ASSUME CapacityAssumption == Capacity \in Nat \ {0} /\ Widening \in Nat \ {0}
ASSUME CommandAssumption == \A c \in Command : Proper(c.fen) /\ c.moves \in Seq(Move)

VARIABLES
  pos_,         \* the Engine's position
  asked,        \* the position command being obeyed, or NoCommand
  next,         \* the position it builds aside, or NoGame
  made,         \* how many of its moves have been made on it
  tree,         \* the nodes of a search, none before it starts
  cache, lru,   \* accumulatorCache and accumulatorLru
  at,           \* the node being expanded, or None
  step,         \* of the expansion: "climb" to an accumulator, "walk" down, "expand"
  current,      \* the node climbed or walked to
  path,         \* the nodes below it on the way to at, the lowest first
  held,         \* nodeAccumulator, a copy
  quota         \* how many more candidates this expansion materialises

command == <<asked, next, made>>
expansion == <<at, step, current, path, held, quota>>
vars == <<pos_, command, tree, cache, lru, expansion>>
None == -1
Nodes == DOMAIN tree
NoAccumulator == [view \in Color |-> << >>]

-----------------------------------------------------------------------------

Without(s, n) == IF n \in ToSet(s) THEN RemoveAt(s, CHOOSE i \in DOMAIN s : s[i] = n) ELSE s
MovedLast(s, n) == Append(Without(s, n), n)

\* Fault: the victim leaves the list and not the map.
StoredLeaky(c, l, n, acc) ==
  LET rest == IF n \notin DOMAIN c /\ Cardinality(DOMAIN c) >= Capacity THEN Tail(l) ELSE l
  IN  [lru |-> MovedLast(rest, n),
       cache |-> [k \in DOMAIN c \cup {n} |-> IF k = n THEN acc ELSE c[k]]]

\* cache_accumulator on a cache c with the list l.
Stored(c, l, n, acc) ==
  LET rest == IF n \notin DOMAIN c /\ Cardinality(DOMAIN c) >= Capacity THEN Tail(l) ELSE l
  IN  [lru |-> MovedLast(rest, n),
       cache |-> [k \in ToSet(rest) \cup {n} |-> IF k = n THEN acc ELSE c[k]]]

Rested == at' = None /\ step' = "none" /\ current' = None /\ path' = << >> /\ held' = NoAccumulator
          /\ quota' = 0

\* A node without its children. Its canonical parent is the one it was first met from.
NodeOf(g, ply, parent, move) ==
  [game |-> g, ply |-> ply, parent |-> parent, move |-> move,
   listed |-> FALSE, todo |-> {}, edges |-> {}]

Init ==
  /\ \E c \in Command : pos_ = SetFen(c.fen) /\ pos_ # NoGame
  /\ asked = NoCommand /\ next = NoGame /\ made = 0
  /\ tree = << >> /\ cache = << >> /\ lru = << >>
  /\ at = None /\ step = "none" /\ current = None /\ path = << >> /\ held = NoAccumulator
  /\ quota = 0

-----------------------------------------------------------------------------
\* set_position: the FEN is set up and the moves are made on a position aside. What
\* ends it early returns and drops that position.

Obeyed == asked' = NoCommand /\ next' = NoGame /\ made' = 0

\* The FEN, when it is well formed.
SetPosition(c) ==
  /\ tree = << >> /\ next = NoGame
  /\ SetFen(c.fen) # NoGame
  /\ asked' = c /\ next' = SetFen(c.fen) /\ made' = 0
  /\ UNCHANGED <<pos_, tree, cache, lru, expansion>>

\* The next move, parsed among the legal moves of the position so far.
MoveAsked == asked.moves[made + 1]
MoveLeft == next # NoGame /\ made < Len(asked.moves)

PlayMove ==
  /\ MoveLeft /\ MoveAsked \in Legal(next)
  /\ next' = Make(Probed(next), MoveAsked) /\ made' = made + 1
  /\ UNCHANGED <<pos_, asked, tree, cache, lru, expansion>>

\* Fault: a bad move ends the loop and not the command.
RefuseTheRest ==
  /\ MoveLeft /\ MoveAsked \notin Legal(next)
  /\ Obeyed /\ pos_' = next
  /\ UNCHANGED <<tree, cache, lru, expansion>>

\* A move that is not legal ends the command.
Refuse ==
  /\ MoveLeft /\ MoveAsked \notin Legal(next)
  /\ Obeyed
  /\ UNCHANGED <<pos_, tree, cache, lru, expansion>>

\* All the moves are made: the position is moved in.
MoveIn ==
  /\ next # NoGame /\ made = Len(asked.moves)
  /\ pos_' = next
  /\ Obeyed
  /\ UNCHANGED <<tree, cache, lru, expansion>>

-----------------------------------------------------------------------------

Restricted(moves, n) ==
  IF n = 0 /\ Searchmoves(pos_) # {} THEN moves \cap Searchmoves(pos_) ELSE moves

\* think_modern_bstar on a root with a choice: its accumulator is built and cached.
Start ==
  /\ tree = << >> /\ next = NoGame
  /\ Cardinality(Restricted(Legal(pos_), 0)) >= 2 /\ ~DrawByRule(pos_, TRUE)
  /\ tree' = [n \in {0} |-> NodeOf(Probed(pos_), 0, None, None)]
  /\ cache' = [n \in {0} |-> Refresh(pos_.at)] /\ lru' = <<0>>
  /\ UNCHANGED <<pos_, command, expansion>>

-----------------------------------------------------------------------------
\* expand_node, and build_accumulator_for_node that it begins with.

\* The root comes first, then any node that is neither drawn nor full.
Begin(n) ==
  /\ at = None /\ Cardinality(Nodes) < Budget(pos_)
  /\ n = 0 \/ tree[0].listed
  /\ ~DrawByRule(tree[n].game, n = 0) /\ (tree[n].listed => tree[n].todo # {})
  /\ at' = n /\ step' = "climb" /\ current' = n /\ path' = << >>
  /\ quota' = IF n = 0 THEN Cardinality(Legal(tree[0].game)) ELSE Widening
  /\ UNCHANGED <<pos_, command, tree, cache, lru, held>>

Climb ==
  /\ step = "climb" /\ current # 0 /\ current \notin DOMAIN cache
  /\ path' = Append(path, current) /\ current' = tree[current].parent
  /\ UNCHANGED <<pos_, command, tree, cache, lru, at, step, held, quota>>

\* A checkpoint other than the root becomes the most recently used node.
Land ==
  /\ step = "climb" /\ (current = 0 \/ current \in DOMAIN cache)
  /\ step' = "walk"
  /\ held' = IF current \in DOMAIN cache THEN cache[current] ELSE Refresh(tree[0].game.at)
  /\ lru' = IF current # 0 THEN MovedLast(lru, current) ELSE lru
  /\ UNCHANGED <<pos_, command, tree, cache, at, current, path, quota>>

\* Fault: the update is computed on the position after the move.
WalkAfter ==
  /\ step = "walk" /\ path # << >>
  /\ LET n == Last(path)
     IN  /\ held' = ApplyMove(held, tree[n].game.at, tree[n].move)
         /\ current' = n
  /\ path' = Front(path)
  /\ UNCHANGED <<pos_, command, tree, cache, lru, at, step, quota>>

Walk ==
  /\ step = "walk" /\ path # << >>
  /\ LET n == Last(path)
     IN  /\ held' = ApplyMove(held, tree[current].game.at, tree[n].move)
         /\ current' = n
  /\ path' = Front(path)
  /\ UNCHANGED <<pos_, command, tree, cache, lru, at, step, quota>>

Keep ==
  /\ step = "walk" /\ path = << >>
  /\ LET s == Stored(cache, lru, at, held)
     IN  cache' = s.cache /\ lru' = s.lru
  /\ step' = "expand"
  /\ UNCHANGED <<pos_, command, tree, at, current, path, held, quota>>

\* The candidates of a node, tried on its position in the arena.
List ==
  /\ step = "expand" /\ ~tree[at].listed
  /\ tree' = [tree EXCEPT ![at].listed = TRUE,
                          ![at].todo = Restricted(Legal(tree[at].game), at),
                          ![at].game = Probed(tree[at].game)]
  /\ UNCHANGED <<pos_, command, cache, lru, expansion>>

\* The next candidate, of those not materialised the one of the highest prior.
Candidate(m) ==
  /\ step = "expand" /\ tree[at].listed /\ quota > 0 /\ m \in tree[at].todo
  /\ \A x \in tree[at].todo : Prior(x) <= Prior(m)

Linked(m, n) ==
  [tree EXCEPT ![at].todo = @ \ {m}, ![at].edges = @ \cup {[move |-> m, to |-> n]}]

Materialised ==
  quota' = quota - 1 /\ UNCHANGED <<pos_, command, at, step, current, path, held>>

\* intern_node: the nodes of the same context at the same ply.
Alike(g, ply) == {n \in Nodes : tree[n].ply = ply /\ SameContext(tree[n].game, g)}

\* The move leads to a node that another path has met.
Share(m) ==
  /\ Candidate(m)
  /\ \E n \in Alike(Make(tree[at].game, m), tree[at].ply + 1) : tree' = Linked(m, n)
  /\ Materialised
  /\ UNCHANGED <<cache, lru>>

\* It leads to a new one.
Insert(m) ==
  LET g == Make(tree[at].game, m)
      n == Cardinality(Nodes)
  IN  /\ Candidate(m)
      /\ Alike(g, tree[at].ply + 1) = {} /\ n < Budget(pos_)
      /\ tree' = [k \in Nodes \cup {n} |-> IF k = n THEN NodeOf(g, tree[at].ply + 1, at, m)
                                          ELSE Linked(m, n)[k]]
      /\ LET s == Stored(cache, lru, n, ApplyMove(held, tree[at].game.at, m))
         IN  cache' = s.cache /\ lru' = s.lru
      /\ Materialised

\* Enough moves are materialised, none is left, or the budget is spent.
Leave ==
  /\ step = "expand" /\ tree[at].listed
  /\ quota = 0 \/ tree[at].todo = {} \/ Cardinality(Nodes) = Budget(pos_)
  /\ Rested
  /\ UNCHANGED <<pos_, command, tree, cache, lru>>

\* think_modern_bstar returns: the tree and the cache are its own.
Finish ==
  /\ at = None /\ tree # << >>
  /\ tree' = << >> /\ cache' = << >> /\ lru' = << >>
  /\ UNCHANGED <<pos_, command, expansion>>

Next ==
  \/ \E c \in Command : SetPosition(c)
  \/ PlayMove \/ Refuse \/ MoveIn
  \/ Start
  \/ \E n \in Nodes : Begin(n)
  \/ Climb \/ Land \/ Walk \/ Keep \/ List
  \/ \E m \in IF at = None THEN {} ELSE tree[at].todo : Share(m) \/ Insert(m)
  \/ Leave \/ Finish

Spec == Init /\ [][Next]_vars

-----------------------------------------------------------------------------

\* The engine's game, the one being built and that of the newest node: by ArenaIntact
\* no other changes.
Games == {pos_} \cup ({next} \ {NoGame})
         \cup {tree[n].game : n \in {k \in Nodes : k = Cardinality(Nodes) - 1}}

TypeOK ==
  /\ Games \subseteq Game
  /\ IF next = NoGame THEN asked = NoCommand /\ made = 0
     ELSE asked \in Command /\ made \in 0..Len(asked.moves)
  /\ \A n \in Nodes : /\ tree[n].ply \in Nat /\ tree[n].listed \in BOOLEAN
                      /\ tree[n].todo \subseteq Move /\ tree[n].edges \subseteq [move: Move, to: Nodes]
                      /\ n # 0 => tree[n].parent \in Nodes /\ tree[n].move \in Move
  /\ at \in Nodes \cup {None} /\ current \in Nodes \cup {None} /\ path \in Seq(Nodes)
  /\ step \in {"none", "climb", "walk", "expand"} /\ quota \in Nat

\* However it was reached, a position is one that could be set up: a right to castle
\* has its king and rook at home, an en passant square a pawn that can take there,
\* the side that moved is not in check, and what is generated is what make_move
\* asserts it is called with. The rest of the state has its type.
PositionsHonest ==
  /\ TypeOK
  /\ \A g \in Games :
       /\ WellFormed([board |-> g.at.board, side |-> g.at.side, rights |-> g.rights, ep |-> g.ep])
       /\ g.ep # NoSquare => Capturable(g.at.board, g.ep, g.at.side)
       /\ \A c \in Color : g.at.board[g.at.king[c]] = <<c, "king">>
       /\ ~Attacked(g.at.board, g.at.king[Them(g.at.side)], g.at.side)
       /\ \A m \in Pseudo(g) : Playable(g.at, m)

\* The clock and the parity that bound the look back hide no repetition since the
\* FEN, and LD2's frames are the last positions, each flagged if it was one.
HistoryExact ==
  \A g \in Games :
    LET last == Len(g.keys)
        Before(i) == {j \in 1..(i - 1) : g.keys[j] = g.keys[i]}
        first == last - Len(g.frames)
    IN  /\ RepetitionCount(g) = Cardinality(Before(last))
        /\ Len(g.frames) = IF last < FrameLimit THEN last ELSE FrameLimit
        /\ \A i \in 1..Len(g.frames) :
             g.frames[i] = [board |-> g.keys[first + i].board, repeated |-> Before(first + i) # {}]

\* What a search may ask of a position's history.
Verdict(g) == <<DrawByRule(g, FALSE), RepetitionCount(g), g.frames, Legal(g)>>

\* Paths that share a node agree on what follows: for two half-moves more, the node's
\* draws and repetitions, and LD2's view of them, are those of the path's own game.
MergesAreSafe ==
  \A n \in Nodes : \A e \in tree[n].edges :
    LET own == Make(tree[n].game, e.move)
        met == tree[e.to].game
    IN  own # met =>
          /\ Verdict(own) = Verdict(met)
          /\ \A m \in Legal(own) :
               LET a == Make(own, m)
                   b == Make(met, m)
               IN  /\ Verdict(a) = Verdict(b)
                   /\ \A x \in Legal(a) : Verdict(Make(a, x)) = Verdict(Make(b, x))

\* The legality of every move is tried on the node's own position, in place: no
\* expansion leaves it changed.
ArenaIntact ==
  [][\A n \in Nodes : tree' # << >> => tree'[n].game = tree[n].game]_vars

\* A position command is obeyed whole or not at all: only its end changes the engine's
\* position, to the one its FEN and all its moves lead to when each of them is legal
\* where it is made; a command refused at any move leaves the position as it was.
AllOrNothing ==
  [][IF next # NoGame /\ next' = NoGame
     THEN pos_' = IF Positioned(asked) = NoGame THEN pos_ ELSE Positioned(asked)
     ELSE UNCHANGED pos_]_vars

\* The list and the map hold the same nodes, each once, and never more than fit.
CacheIsBounded ==
  /\ DOMAIN cache = ToSet(lru) /\ DOMAIN cache \subseteq Nodes
  /\ IsInjective(lru)
  /\ Len(lru) <= Capacity

\* Every accumulator the driver evaluates with or keeps is, to the last feature,
\* the one a full rebuild of that node's position would give: over castling, en
\* passant, promotions and king moves, evictions and rebuilt paths.
AccumulatorsMatch ==
  /\ \A n \in DOMAIN cache : cache[n] = Refresh(tree[n].game.at)
  /\ step \in {"walk", "expand"} => held = Refresh(tree[current].game.at)

=============================================================================
