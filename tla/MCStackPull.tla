---------------------------- MODULE MCStackPull ----------------------------
(***************************************************************************)
(* StackPull for TLC: a stack of two branches and two worktrees, the one   *)
(* stack-pull runs in and another.                                         *)
(***************************************************************************)
EXTENDS StackPull, TLC

CONSTANTS p1, p2, low, high, home, side

TwoRuns == {p1, p2}
Stack == <<low, high>>
TwoTrees == {home, side}
Symmetry == Permutations(TwoRuns) \cup Permutations(TwoTrees)
=============================================================================
