---------------------------- MODULE MCModernBStar ----------------------------
(***************************************************************************)
(* Two small games. In the first the replies to both root moves transpose  *)
(* into context 4, at the depth limit, and context 3 is a tablebase win:   *)
(*        0 -> 1, 2      1 -> 3, 4      2 -> 4                              *)
(* In the second, 3 is a mate and 4 is expanded to the tablebase leaf 5.    *)
(***************************************************************************)
EXTENDS ModernBStar, TLC

MCNoScore == 99

MCNode == 0..4
MCPly == (0 :> 0) @@ (1 :> 1) @@ (2 :> 1) @@ (3 :> 2) @@ (4 :> 2)
MCMoves == (0 :> <<1, 2>>) @@ (1 :> <<3, 4>>) @@ (2 :> <<4>>) @@ (3 :> <<>>) @@ (4 :> <<>>)
MCExact == [n \in MCNode |-> IF n = 3 THEN 3 ELSE MCNoScore]
MCMated == [n \in MCNode |-> 0]

DeepNode == 0..5
DeepPly == MCPly @@ (5 :> 3)
DeepMoves == (4 :> <<5>>) @@ MCMoves @@ (5 :> <<>>)
DeepExact == [n \in DeepNode |-> IF n = 5 THEN 3 ELSE MCNoScore]
DeepMated == [n \in DeepNode |-> IF n = 3 THEN -4 ELSE 0]

\* Corridors that agree, overlap or contradict once negated.
MCGuess == {[lower |-> -1, upper |-> 0], [lower |-> 1, upper |-> 2]}
OneGuess == {[lower |-> -1, upper |-> 1]}
MCScore == {0, 4}
QuietScore == {0}
MateScore == {0, -4}
AllScore == {-4, 0, 4}

=============================================================================
