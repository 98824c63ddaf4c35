----------------------------- MODULE MCGameMode -----------------------------
(***************************************************************************)
(* Instances of GameMode for TLC: two game-mode invocations that overlap,  *)
(* or one beside a user who selects a profile, which may be the tablet's.  *)
(***************************************************************************)
EXTENDS GameMode, TLC

CONSTANTS g1, g2, default, tablet

GamePair == {g1, g2}
OneGame == {g1}
TwoLabels == {default, tablet}
OneTablet == {tablet}
=============================================================================
