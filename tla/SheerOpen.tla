----------------------------- MODULE SheerOpen -----------------------------
(***************************************************************************)
(* "herdrctl sheer-workspace open" and the picker (internal/sheer): open   *)
(* the worktree of a branch or of its stack, or create one.  Several runs, *)
(* started by the user and by agents, overlap; the user moves worktrees    *)
(* between layers and others push, stack and merge (at most Changes times, *)
(* a bound).  Names are as in SheerCatalog; main and the primary checkout, *)
(* which is never opened, are left out.                                    *)
(*                                                                         *)
(* GitHub's stacks and origin's branches come through the fetch cache: as  *)
(* they are or as some run saw them before; when asking fails there are no *)
(* stacks and the remote-tracking refs.                                    *)
(***************************************************************************)
EXTENDS SheerCatalog

CONSTANTS
    Openers,     \* runs of herdrctl
    Branches,
    Numbers,   \* stack numbers
    Begun,     \* the layers of the stack there is to begin with
    Slots,     \* places for worktrees (a bound)
    Managed,   \* those below Herdr's own directory
    Changes    \* bound: changes made by others

ASSUME SheerAssumption ==
    /\ Branches \subseteq Nat \ {0} /\ 0 \notin Numbers
    /\ Begun \in Seq(Branches) \ {<<>>}
    /\ Changes \in Nat
    /\ Nothing \notin Slots \cup Branches

ASSUME TreesAssumption ==
    Managed \subseteq Slots /\ Nothing \notin [slot : Slots, branch : Branches, rank : 0..2]

VARIABLES
    stage,     \* where each run is
    branch,    \* what it opens
    tree,      \* the worktree it found; Nothing to create one
    base,      \* what a new worktree starts from: "origin", "own" or "main"
    github,    \* stacks on GitHub
    origin,    \* branches on origin
    cache,     \* what the fetch cache holds of these two
    local,     \* local branches
    fetched,   \* remote-tracking branches
    tracked,   \* gh stack's local catalog
    trees,     \* the branch checked out in each worktree, Nothing without one
    shown,     \* worktrees that a workspace shows
    spaces,    \* workspaces of the primary checkout
    onMain,    \* local branches whose upstream is main
    changes,   \* changes made by others so far
    fresh      \* history: nothing has changed what the run looked at last

procVars == <<stage, branch, tree, base>>
hubVars == <<github, origin>>
gitVars == <<local, fetched, tracked, trees, onMain>>
herdrVars == <<shown, spaces>>
openVars == <<procVars, hubVars, cache, gitVars, herdrVars, changes, fresh>>

Plain(seq) == [i \in DOMAIN seq |-> [name |-> seq[i], merged |-> FALSE]]
Stack(n, seq) == [number |-> n, layers |-> Plain(seq)]
Trees == {w \in Slots : trees[w] # Nothing}
Rank(w) == CASE w \in shown -> 0 [] w \in Managed \ shown -> 1 [] OTHER -> 2
Worktrees == {[slot |-> w, branch |-> trees[w], rank |-> Rank(w)] : w \in Trees}
CheckedOut(b) == \E w \in Slots : trees[w] = b

\* To begin with there is one stack on GitHub, tracked here or not, with a
\* worktree or not.
OpenInit ==
    /\ stage = [p \in Openers |-> "new"]
    /\ branch = [p \in Openers |-> Nothing]
    /\ tree = [p \in Openers |-> Nothing]
    /\ base = [p \in Openers |-> "main"]
    /\ \E n \in Numbers : github = {Stack(n, Begun)}
    /\ origin = {Begun[i] : i \in DOMAIN Begun}
    /\ \/ tracked = {} /\ local = {} /\ trees = [w \in Slots |-> Nothing]
       \/ /\ tracked = github /\ local = origin
          /\ \E w \in Slots, on \in origin \cup {Nothing} : trees = [v \in Slots |-> IF v = w THEN on ELSE Nothing]
    /\ cache = [stacks |-> github, heads |-> origin]
    /\ fetched = origin
    /\ shown = {} /\ spaces = 0 /\ onMain = {} /\ changes = 0
    /\ fresh = [p \in Openers |-> FALSE]

Enters(p, label) == stage' = [stage EXCEPT ![p] = label]
Looks(p, now) == fresh' = [fresh EXCEPT ![p] = now]
Disturbs(p) == fresh' = [q \in Openers |-> q = p /\ fresh[p]]

-----------------------------------------------------------------------------
\* A branch is picked or given; a new name is any branch nobody has.
Start(p) ==
    /\ stage[p] = "new"
    /\ \E b \in Branches : branch' = [branch EXCEPT ![p] = b]
    /\ Enters(p, "load")
    /\ UNCHANGED <<tree, base, hubVars, cache, gitVars, herdrVars, changes, fresh>>

\* All pages of stacks, asked for together and cached as one.  Without them
\* there are no stacks.
ListedStacks == {github, cache.stacks, {}}

\* Origin's live heads replace the remote-tracking refs, unless asking fails.
ListedHeads == {origin, cache.heads, fetched}

\* loadCatalog, find and worktreeFor.
KeepTracking(heads) == fetched          \* fault: they do not
RemoteSet(heads) == heads

LoadCatalog(p) ==
    /\ stage[p] = "load"
    /\ \E stacks \in ListedStacks, heads \in ListedHeads :
         LET entries == BuildEntries(Worktrees, {StackEntry(s) : s \in tracked},
                            {StackEntry(s) : s \in stacks}, local \cup RemoteSet(heads))
         IN
         /\ \E e \in Found(entries, branch[p]) :
              LET w == WorktreeFor(Worktrees, branch[p], e)
              IN  tree' = [tree EXCEPT ![p] = IF w = Nothing THEN Nothing ELSE w.slot]
         /\ base' = [base EXCEPT ![p] = CASE branch[p] \in RemoteSet(heads) -> "origin"
                                          [] branch[p] \in local \ RemoteSet(heads) -> "own"
                                          [] OTHER -> "main"]
         /\ cache' = [stacks |-> IF stacks = {} THEN cache.stacks ELSE stacks, heads |-> heads]
         /\ Looks(p, stacks = github /\ heads = origin)
    /\ Enters(p, IF tree'[p] = Nothing THEN "fetch" ELSE "ensure")
    /\ UNCHANGED <<branch, hubVars, gitVars, herdrVars, changes>>

\* git fetch origin main, and the branch when it is on origin.
OnlyMain(p) == {}                      \* fault: the branch is not fetched
Wanted(p) == {b \in {branch[p]} : base[p] = "origin"}

Fetch(p) ==
    /\ stage[p] = "fetch"
    /\ Wanted(p) \subseteq origin
    /\ fetched' = fetched \cup Wanted(p)
    /\ Enters(p, "ensure")
    /\ UNCHANGED <<branch, tree, base, hubVars, cache, local, tracked, trees, onMain, herdrVars, changes, fresh>>

\* ensureMainWorkspace: list the workspaces, then create one.
Present(p) == IF tree[p] = Nothing THEN "create" ELSE "open"

FindSpace(p) ==
    /\ stage[p] = "ensure"
    /\ Enters(p, IF spaces > 0 THEN Present(p) ELSE "space")
    /\ UNCHANGED <<branch, tree, base, hubVars, cache, gitVars, herdrVars, changes, fresh>>

CreateSpace(p) ==
    /\ stage[p] = "space"
    /\ spaces' = spaces + 1
    /\ Enters(p, Present(p))
    /\ UNCHANGED <<branch, tree, base, hubVars, cache, gitVars, shown, changes, fresh>>

OpenWorktree(p) ==
    /\ stage[p] = "open"
    /\ trees[tree[p]] # Nothing
    /\ shown' = shown \cup {tree[p]}
    /\ Enters(p, "done")
    /\ UNCHANGED <<branch, tree, base, hubVars, cache, gitVars, spaces, changes, fresh>>

\* worktree.create: Herdr picks the place, git refuses a branch that is checked
\* out elsewhere.  An existing local branch is used as it is, whatever the base.
CreateWorktree(p) ==
    /\ stage[p] = "create"
    /\ ~CheckedOut(branch[p])
    /\ \E w \in Slots \ Trees :
         /\ trees' = [trees EXCEPT ![w] = branch[p]]
         /\ shown' = shown \cup {w}
    /\ local' = local \cup {branch[p]}
    /\ onMain' = onMain \cup {b \in {branch[p]} : b \notin local /\ base[p] = "main"}
    /\ Enters(p, "upstream")
    /\ Disturbs(p)
    /\ UNCHANGED <<branch, tree, base, hubVars, cache, fetched, tracked, spaces, changes>>

\* clearBranchUpstream, when the base is origin/main.
ClearUpstream(p) ==
    /\ stage[p] = "upstream"
    /\ onMain' = onMain \ {b \in {branch[p]} : base[p] = "main"}
    /\ Enters(p, "checkout")
    /\ UNCHANGED <<branch, tree, base, hubVars, cache, local, fetched, tracked, trees, herdrVars, changes, fresh>>

-----------------------------------------------------------------------------
\* setupCommand, in the new pane.  gh stack checkout finds a stack here or
\* imports one from GitHub (0), knows of none (2), or fails (1).
Holding(stacks, b) == {s \in stacks : b \in Names(s)}
AnyFailure(code) == code # 0            \* fault: every failure is taken for "none"
NoStack(code) == code = 2

CheckedOutWith(p, code) == Enters(p, IF NoStack(code) THEN "init" ELSE "done")

Checkout(p) ==
    /\ stage[p] = "checkout"
    /\ \/ /\ \/ CheckedOutWith(p, 1)
             \/ Holding(tracked, branch[p]) # {} /\ CheckedOutWith(p, 0)
             \/ Holding(tracked \cup github, branch[p]) = {} /\ CheckedOutWith(p, 2)
          /\ Looks(p, TRUE)
          /\ UNCHANGED <<local, tracked>>
       \/ /\ Holding(tracked, branch[p]) = {} /\ CheckedOutWith(p, 0)
          /\ \E s \in Holding(github, branch[p]) :
               /\ tracked' = {t \in tracked : t.number # s.number} \cup {s}
               /\ local' = local \cup (Names(s) \cap origin)
          /\ Disturbs(p)
    /\ UNCHANGED <<branch, tree, base, hubVars, cache, fetched, trees, onMain, herdrVars, changes>>

InitStack(p) ==
    /\ stage[p] = "init"
    /\ Holding(tracked, branch[p]) = {}
    /\ tracked' = tracked \cup {Stack(0, <<branch[p]>>)}
    /\ Enters(p, "done")
    /\ Disturbs(p)
    /\ UNCHANGED <<branch, tree, base, hubVars, cache, local, fetched, trees, onMain, herdrVars, changes>>

\* A call fails, the pane does not appear in time, or the run is killed.
Fail(p) ==
    /\ stage[p] \notin {"new", "done"}
    /\ Enters(p, "done")
    /\ UNCHANGED <<branch, tree, base, hubVars, cache, gitVars, herdrVars, changes, fresh>>

Step(p) ==
    \/ Start(p) \/ LoadCatalog(p) \/ Fetch(p) \/ FindSpace(p) \/ CreateSpace(p)
    \/ OpenWorktree(p) \/ CreateWorktree(p) \/ ClearUpstream(p)
    \/ Checkout(p) \/ InitStack(p) \/ Fail(p)

-----------------------------------------------------------------------------
\* What others do.
Unused == Branches \ (local \cup origin \cup UNION {Names(s) : s \in github \cup tracked})
OnTop(s, b) == [s EXCEPT !.layers = Append(@, [name |-> b, merged |-> FALSE])]

Push ==
    \E b \in Unused :
        /\ origin' = origin \cup {b}
        /\ \/ UNCHANGED github
           \/ \E n \in Numbers \ {s.number : s \in github} : github' = github \cup {Stack(n, <<b>>)}
           \/ \E s \in github : github' = (github \ {s}) \cup {OnTop(s, b)}
        /\ UNCHANGED <<local, tracked, trees>>

MergeBottom ==
    /\ \E s \in github, i \in 1..2 :
          /\ i \in DOMAIN s.layers /\ \A j \in 1..i : s.layers[j].merged = (j < i)
          /\ github' = (github \ {s}) \cup {[s EXCEPT !.layers[i].merged = TRUE]}
          /\ origin' = origin \ {s.layers[i].name}
    /\ UNCHANGED <<local, tracked, trees>>

\* gh stack submit, and gh stack add and up or down in a worktree.
Submit ==
    /\ \E s \in tracked, n \in Numbers \ {t.number : t \in github \cup tracked} :
          /\ s.number = 0
          /\ github' = github \cup {[s EXCEPT !.number = n]}
          /\ tracked' = (tracked \ {s}) \cup {[s EXCEPT !.number = n]}
          /\ origin' = origin \cup Names(s)
    /\ UNCHANGED <<local, trees>>

AddLayer ==
    /\ \E s \in tracked, w \in Trees, b \in Unused :
          /\ trees[w] \in Names(s)
          /\ tracked' = (tracked \ {s}) \cup {OnTop(s, b)}
          /\ local' = local \cup {b}
          /\ trees' = [trees EXCEPT ![w] = b]
    /\ UNCHANGED hubVars

MoveTree ==
    /\ \E w \in Trees, s \in tracked :
          /\ trees[w] \in Names(s)
          /\ \E b \in Names(s) \cap local :
               ~CheckedOut(b) /\ trees' = [trees EXCEPT ![w] = b]
    /\ UNCHANGED <<hubVars, local, tracked>>

RemoveTree ==
    /\ \E w \in Trees : trees' = [trees EXCEPT ![w] = Nothing]
    /\ UNCHANGED <<hubVars, local, tracked>>

Others ==
    /\ changes < Changes /\ changes' = changes + 1
    /\ Push \/ MergeBottom \/ Submit \/ AddLayer \/ MoveTree \/ RemoveTree
    /\ shown' = {w \in shown : trees'[w] # Nothing}
    /\ fresh' = [p \in Openers |-> FALSE]
    /\ UNCHANGED <<procVars, cache, fetched, onMain, spaces>>

OpenNext == (\E p \in Openers : Step(p)) \/ Others

OpenSpec == OpenInit /\ [][OpenNext]_openVars

-----------------------------------------------------------------------------
StackType(s) ==
    /\ s.number \in Numbers \cup {0}
    /\ \A i \in DOMAIN s.layers : s.layers[i].name \in Branches /\ s.layers[i].merged \in BOOLEAN

OpenTypeOK ==
    /\ stage \in [Openers -> {"new", "load", "fetch", "ensure", "space", "open", "create",
                          "upstream", "checkout", "init", "done"}]
    /\ branch \in [Openers -> Branches \cup {Nothing}]
    /\ tree \in [Openers -> Slots \cup {Nothing}]
    /\ base \in [Openers -> {"origin", "own", "main"}]
    /\ \A s \in github \cup tracked \cup cache.stacks : StackType(s)
    /\ {origin, cache.heads, local, fetched, onMain} \subseteq SUBSET Branches
    /\ trees \in [Slots -> local \cup {Nothing}]
    /\ shown \subseteq Trees
    /\ \A p \in Openers : stage[p] = "create" /\ base[p] = "origin" => branch[p] \in fetched
    /\ spaces \in Nat /\ changes \in 0..Changes /\ fresh \in [Openers -> BOOLEAN]

Creates(p) == stage[p] = "create" /\ stage'[p] = "upstream"

\* "a stack is worked on from a single worktree that moves between layers"
\* (catalog.go:172): with a listing that still holds, no worktree is created
\* for a layer gh stack tracks here, or for a layer of a stack that is only on
\* GitHub, while another layer of it has one.  It does not hold of a layer
\* that only GitHub has of a stack tracked here (mergeStacks, catalog.go:260,
\* keeps the local layers only): such a layer gets a second worktree, against
\* "Any layer of a stack opens the worktree that stack is already checked out
\* in" (workspace.go:46).
OneTree ==
    [][\A p \in Openers : Creates(p) /\ fresh[p] =>
          LET untracked == {s \in github : \A t \in tracked : t.number # s.number}
          IN  \A s \in Holding(tracked \cup untracked, branch[p]), w \in Trees : trees[w] \notin Names(s)]_openVars

\* "origin branches are fetched and reused, and only new branches start from
\* origin/main" (workspace.go:153-155), with a listing that still holds.
OnlyNewFromMain ==
    [][\A p \in Openers : Creates(p) /\ fresh[p] /\ base[p] = "main" => branch[p] \notin local \cup origin]_openVars

\* "a stale or failed stack listing can never duplicate a stack"
\* (workspace.go:259): whatever was listed, no stack is begun with a branch
\* that has one, unless it got it after gh stack was asked.
NoSecondStack ==
    [][\A p \in Openers : stage[p] = "init" /\ tracked' # tracked /\ stage'[p] = "done" /\ fresh[p]
          => Holding(tracked \cup github, branch[p]) = {}]_openVars
=============================================================================
