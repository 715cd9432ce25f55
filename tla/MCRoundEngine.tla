--------------------------- MODULE MCRoundEngine ---------------------------
(* Instances of RoundEngine for TLC: two bets that win on different        *)
(* outcomes, so that a round always has a winner and a loser to tell apart.*)
EXTENDS RoundEngine, TLC

CONSTANTS b1, b2, odd, even

MCPick == b1 :> odd @@ b2 :> even
=============================================================================
