---------------------------- MODULE SheerCatalog ----------------------------
(***************************************************************************)
(* The catalog of internal/sheer: local and GitHub stacks and the other    *)
(* branches become entries, a branch name is resolved to an entry and the  *)
(* entry to a worktree.                                                    *)
(*                                                                         *)
(* Branches are numbers, in the order of their names; a layer is a branch  *)
(* and whether it is merged, bottom first.  Commit times only order the    *)
(* entries, so entries are a set and where the first match counts, any     *)
(* match may be it.  A worktree has a rank: 0 when a workspace shows it,   *)
(* 1 when it is below Herdr's own directory, 2 anywhere else.              *)
(***************************************************************************)
EXTENDS Naturals, Sequences, FiniteSetsExt

CONSTANT Nothing

\* Stacks as parseLocalStacks and parseRemoteStacks return them.
Names(s) == {s.layers[i].name : i \in DOMAIN s.layers}
StackEntry(s) ==
    [kind |-> "stack", branch |-> 0, number |-> s.number, layers |-> s.layers, tree |-> Nothing]
BranchEntry(b, w) ==
    [kind |-> "branch", branch |-> b, number |-> 0, layers |-> <<>>, tree |-> w]

FullyMerged(e) == e.kind = "stack" /\ \A i \in DOMAIN e.layers : e.layers[i].merged
Contains(e, b) == e.branch = b \/ b \in Names(e)

TopUnmergedLayer(layers) ==
    LET left == {i \in DOMAIN layers : ~layers[i].merged}
    IN  layers[IF left = {} THEN Len(layers) ELSE Max(left)].name

MergedIn(s, b) == \E i \in DOMAIN s.layers : s.layers[i] = [name |-> b, merged |-> TRUE]
MergeStacks(l, r) ==
    [l EXCEPT !.layers = [i \in DOMAIN l.layers |->
        [l.layers[i] EXCEPT !.merged = @ \/ MergedIn(r, l.layers[i].name)]]]

\* A local stack takes in the GitHub stack of its number; 0 is no number.
Stacks(localStacks, remoteStacks) ==
    LET Same(l) == {r \in remoteStacks : l.number # 0 /\ r.number = l.number}
    IN  {l \in localStacks : Same(l) = {}}
        \cup {r \in remoteStacks : \A l \in localStacks : r \notin Same(l)}
        \cup UNION {{MergeStacks(l, r) : r \in Same(l)} : l \in localStacks}

-----------------------------------------------------------------------------
\* repo.worktrees: by rank, then by branch.
Before(v, w) == v.rank < w.rank \/ (v.rank = w.rank /\ v.branch < w.branch)
First(ws) == CHOOSE w \in ws : \A v \in ws \ {w} : Before(w, v)

OnBranch(ws, b) == {w \in ws : w.branch = b}
TopOnly(ws, e) ==                       \* fault: no other layer is looked for
    IF OnBranch(ws, e.branch) # {} THEN First(OnBranch(ws, e.branch)) ELSE Nothing
StackWorktree(ws, e) ==
    LET layers == {w \in ws : Contains(e, w.branch)}
    IN  CASE OnBranch(ws, e.branch) # {} -> First(OnBranch(ws, e.branch))
          [] layers # {} -> First(layers)
          [] OTHER -> Nothing

BuildEntries(ws, localStacks, remoteStacks, refs) ==
    LET topped == {[s EXCEPT !.branch = TopUnmergedLayer(s.layers)] :
                       s \in Stacks(localStacks, remoteStacks)}
        free == refs \ UNION {Names(s) : s \in topped}
    IN  {[s EXCEPT !.tree = StackWorktree(ws, s)] : s \in topped}
        \cup {BranchEntry(b, IF OnBranch(ws, b) = {} THEN Nothing ELSE First(OnBranch(ws, b))) : b \in free}

\* find: stacks with open layers and branches, then merged stacks, then a
\* branch that does not exist yet.
Found(entries, b) ==
    LET holding == {e \in entries : Contains(e, b)}
        live == {e \in holding : ~FullyMerged(e)}
    IN  IF live # {} THEN live ELSE IF holding # {} THEN holding ELSE {BranchEntry(b, Nothing)}

WorktreeFor(ws, b, e) ==
    CASE OnBranch(ws, b) # {} -> First(OnBranch(ws, b))
      [] OnBranch(ws, b) = {} /\ e.kind = "stack" -> e.tree
      [] OTHER -> Nothing
=============================================================================
