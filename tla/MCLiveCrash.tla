---------------------------- MODULE MCLiveCrash ----------------------------
(***************************************************************************)
(* Instances of LiveCrash.  Bet "m" is cashed out by hand only, bet "a"    *)
(* has an automatic target, and a player may press the button as well.     *)
(***************************************************************************)
EXTENDS LiveCrash

MCTarget == [b \in Bets |-> IF b = "a" THEN 3 ELSE None]
MCAsks == [h \in Handlers |-> IF h = "h1" THEN "m" ELSE "a"]
MCPoints == {1, 2, 4}
=============================================================================
