------------------------------ MODULE TTCache ------------------------------
(***************************************************************************)
(* What one cluster of the transposition table promises its callers: a     *)
(* lossy store of scores, best moves and static evaluations. It may forget *)
(* a key or decline a new score, but whatever it returns under a key was   *)
(* saved under that key, and one save forgets at most one other key. A     *)
(* resize that fails forgets nothing.                                      *)
(***************************************************************************)
CONSTANTS
  VKey,         \* the verification keys that meet in the cluster
  Request,      \* the saves that may be asked for
  Score(_),     \* the score a request asks to keep
  NoMove, NoValue, Miss

VARIABLES
  kept,         \* kept[k]: Miss, or the score, move and evaluation under k
  resized       \* how the last resize ended: "done" or "failed"

Known(k) == kept[k] # Miss

\* A save without a move leaves the known one in place.
Move(r) == IF r.move = NoMove /\ Known(r.key) THEN kept[r.key].move ELSE r.move

Replaced(r) == [score |-> Score(r), move |-> Move(r), eval |-> r.eval]
Refreshed(r) == [score |-> kept[r.key].score, move |-> Move(r),
                 eval |-> IF r.eval = NoValue THEN kept[r.key].eval ELSE r.eval]

Init == kept = [k \in VKey |-> Miss] /\ resized = "done"

Accept(r) ==
  /\ kept' = [kept EXCEPT ![r.key] = Replaced(r)]
  /\ UNCHANGED resized

Decline(r) ==
  /\ Known(r.key)
  /\ kept' = [kept EXCEPT ![r.key] = Refreshed(r)]
  /\ UNCHANGED resized

Evict(r, victim) ==
  /\ ~Known(r.key) /\ victim # r.key
  /\ kept' = [kept EXCEPT ![victim] = Miss, ![r.key] = Replaced(r)]
  /\ UNCHANGED resized

\* What one save may do.
Save(r) == Accept(r) \/ Decline(r) \/ \E victim \in VKey : Evict(r, victim)

Clear == kept' = [k \in VKey |-> Miss] /\ resized' \in {resized, "done"}

FailedResize == resized' = "failed" /\ UNCHANGED kept

Next ==
  \/ Clear \/ FailedResize
  \/ \E r \in Request : Save(r)

Spec == Init /\ [][Next]_<<kept, resized>>
=============================================================================
