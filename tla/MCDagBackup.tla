----------------------------- MODULE MCDagBackup -----------------------------
(***************************************************************************)
(* The smallest DAG with everything that matters: a root, two nodes of ply *)
(* 1, a node of ply 2 that both may share, and a second leaf. Values are   *)
(* corridors cut down to one number; Combine is the negamax maximum, kept  *)
(* above the node's own evidence.                                          *)
(***************************************************************************)
EXTENDS DagBackup, FiniteSetsExt, TLC

MCNode == 0..4
MCPly == (0 :> 0) @@ (1 :> 1) @@ (2 :> 1) @@ (3 :> 2) @@ (4 :> 2)
MCEvidence == 0..1
MCValue == -1..1
MCOwn(e) == e
MCCombine(n, e, kids) == Max({e - 1} \cup {-kids[c] : c \in DOMAIN kids})

=============================================================================
