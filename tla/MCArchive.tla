----------------------------- MODULE MCArchive -----------------------------
(***************************************************************************)
(* Archive for TLC: every tree of at most three paths below the directory, *)
(* two names and two levels, with directories that may be written to or    *)
(* not and links to a neighbour, into a directory, up and down again, and  *)
(* out of the directory and back; and one tree of four paths.              *)
(***************************************************************************)
EXTENDS Archive

SmallPaths == {<<1>>, <<2>>, <<1, 1>>, <<1, 2>>, <<2, 1>>}
Nodes == {Dir(TRUE), Dir(FALSE), File(0)} \cup
         {Link(to) : to \in {<<1>>, <<2>>, <<1, Up, 2>>, <<Up, SourceName, 1>>}}
SmallTrees ==
    {t \in UNION {[ps \cup {<<>>} -> Nodes] : ps \in {s \in SUBSET SmallPaths : Cardinality(s) \in 1..3}} :
        t[<<>>] = Dir(TRUE) /\ IsTree(t)}

\* The first link passes through the second, which is extracted later.
Detour == (<<>> :> Dir(TRUE)) @@ (<<1>> :> Link(<<2, Up, Up, 3>>)) @@ (<<2>> :> Link(<<3, 3>>))
              @@ (<<3>> :> Dir(TRUE)) @@ (<<3, 3>> :> Dir(TRUE))
Trees == SmallTrees \cup {Detour}
=============================================================================
