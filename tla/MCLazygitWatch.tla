--------------------------- MODULE MCLazygitWatch ---------------------------
(***************************************************************************)
(* LazygitWatch for TLC: three workspaces of which two share a root, and   *)
(* two process slots, one of which a forgotten process may hold.           *)
(***************************************************************************)
EXTENDS LazygitWatch, TLC

CONSTANTS c1, c2, home, code, tree, d1, d2

TwoChildren == {c1, c2}
ThreeSpaces == {home, code, tree}
TwoRoots == {d1, d2}
SpaceRoot == (home :> d1) @@ (code :> d1) @@ (tree :> d2)
=============================================================================
