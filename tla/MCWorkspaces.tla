---------------------------- MODULE MCWorkspaces ----------------------------
(***************************************************************************)
(* Workspaces for TLC: a plain directory, the main checkout "main" of one  *)
(* repository with two linked worktrees, and a worktree of a bare one.     *)
(***************************************************************************)
EXTENDS Workspaces

CONSTANTS k1, k2, plain, main, link1, link2, lone, wide, repo

Presses == {k1, k2}
FiveDirs == {plain, main, link1, link2, lone}
Worktrees == {link1, link2, lone}
KeyOf == [d \in FiveDirs |-> CASE d = plain -> None [] d = lone -> wide [] OTHER -> repo]
Symmetry == Permutations(Presses) \cup Permutations({link1, link2})
=============================================================================
