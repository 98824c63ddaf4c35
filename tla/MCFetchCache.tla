---------------------------- MODULE MCFetchCache ----------------------------
(***************************************************************************)
(* FetchCache for TLC: two runs at a time over one entry, whose slots are  *)
(* used again and again.                                                   *)
(***************************************************************************)
EXTENDS FetchCache, TLC

CONSTANTS p1, p2

TwoProcs == {p1, p2}
ProcSymmetry == Permutations(Procs)
=============================================================================
