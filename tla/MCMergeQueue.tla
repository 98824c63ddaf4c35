---------------------------- MODULE MCMergeQueue ----------------------------
(***************************************************************************)
(* MergeQueue for TLC: removals by failed checks, by a user, by a conflict *)
(* that made checks fail, and for a reason no word list has.               *)
(***************************************************************************)
EXTENDS MergeQueue

FourReasons == {{"retry"}, {"manual"}, {"conflict", "retry"}, {}}
=============================================================================
