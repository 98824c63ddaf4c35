---------------------------- MODULE MCSheerOpen ----------------------------
(***************************************************************************)
(* SheerOpen for TLC: three branches, of which one is nobody's at first,   *)
(* two places for worktrees, of which one is below Herdr's directory.      *)
(***************************************************************************)
EXTENDS SheerOpen, TLC

CONSTANTS p1, p2, w1, w2, n1, n2

TwoOpeners == {p1, p2}
TwoSlots == {w1, w2}
TwoNumbers == {n1, n2}
OneThree == <<1, 3>>
OneManaged == {w1}
Symmetry == Permutations(Openers) \cup Permutations(Numbers)
=============================================================================
