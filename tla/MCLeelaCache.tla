---------------------------- MODULE MCLeelaCache ----------------------------
(***************************************************************************)
(* Three positions and a cache that holds two of them, batches of up to    *)
(* three that may ask the same position twice, two networks, and a kernel  *)
(* that is started without a look at the stop token between two that are   *)
(* not. No symmetry, since the run checks liveness too.                    *)
(***************************************************************************)
EXTENDS LeelaCache

=============================================================================
