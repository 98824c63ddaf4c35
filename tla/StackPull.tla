------------------------------ MODULE StackPull ------------------------------
(***************************************************************************)
(* "gs stack-pull" (gs.nu): makes the local branches of a stack, and what  *)
(* gh stack tracks of it in the repository, match the stack on GitHub.     *)
(* Each run is a process; the user commits, stashes nothing and switches   *)
(* in other terminals, others push, merge, close and restack on GitHub.    *)
(*                                                                         *)
(* A branch's tip is the set of its commits, each of one branch.  Git,     *)
(* GitHub and gh stack are external: what they do is taken from how gs.nu  *)
(* calls them; the layers of a stack are moved from the lowest.  A run     *)
(* stops where a call of it fails or it is killed, and may be slow for     *)
(* ever.  Each run has a backup of its own: two do not start one within    *)
(* the same second.                                                        *)
(***************************************************************************)
EXTENDS Integers, Sequences, SequencesExt, FiniteSets

CONSTANTS
    Runs,        \* runs of stack-pull
    Branches,
    Base,        \* the stack on GitHub to begin with, a sequence of branches
    Trees,       \* worktrees
    LastNumber,  \* bound: stacks GitHub ever has
    Changes,     \* bound: what the user and others change
    None

In(commits) == IF commits = None THEN {} ELSE commits
Commits(b) == {b} \X (0 .. Changes)

ASSUME StackPullAssumption ==
    /\ Base \in Seq(Branches) /\ Base # <<>>
    /\ None \notin Branches /\ None \notin Trees
    /\ LastNumber \in Nat \ {0} /\ Changes \in Nat
    /\ \A b \in Branches : \A S \in SUBSET Commits(b) : S # None

VARIABLES
    stacks,    \* GitHub's stacks by number; only the last one can be open
    tip,       \* GitHub's branches, None when deleted
    head,      \* the head of each branch's PR, which outlives the branch
    pr,        \* "open", "closed" or "merged"
    tracking,  \* refs/remotes
    local,     \* refs/heads, None when missing
    at,        \* the branch of each worktree, None on one of no stack
    dirty,     \* worktrees with uncommitted changes
    catalog,   \* gh stack's local stacks: number, None without, and heads
    backup,    \* refs/backup/gs-pull: of a run and a branch, with a tip
    pc,        \* where each run is
    here,      \* the worktree it is started in
    stack,     \* the stack it found: number, PR heads and which are merged
    current,   \* the branch it started on
    onRemote,  \* branches that GitHub listed
    plan,      \* what it saw of each branch and intends for it
    overlap,   \* local stacks with a branch of the stack
    moves,     \* branches still to move
    changes,
    mine,      \* history: commits made here
    late,      \* history: those made on a branch between plan and move
    calm       \* history: nothing but the run changed anything since it asked

github == <<stacks, tip, head, pr>>
repo == <<tracking, local, at, dirty, catalog, backup>>
runVars == <<pc, here, stack, current, onRemote, plan, overlap, moves>>
vars == <<github, repo, runVars, changes, mine, late, calm>>

Open == \E b \in ToSet(Last(stacks)) : pr[b] # "merged"
Goto(r, label) == pc' = [pc EXCEPT ![r] = label]
Ends(r) ==
    /\ Goto(r, "done") /\ here' = [here EXCEPT ![r] = None]
    /\ stack' = [stack EXCEPT ![r] = None] /\ current' = [current EXCEPT ![r] = None]
    /\ onRemote' = [onRemote EXCEPT ![r] = {}] /\ plan' = [plan EXCEPT ![r] = <<>>]
    /\ overlap' = [overlap EXCEPT ![r] = {}] /\ moves' = [moves EXCEPT ![r] = {}]
Alone(r) == calm' = [q \in Runs |-> q = r /\ calm[q]]

\* A branch that is here to begin with has a commit made here; the top layer may
\* be closed and its branch deleted.
Init ==
    /\ stacks = <<Base>>
    /\ head = [b \in Branches |-> {}]
    /\ \E gone \in {{}, {Last(Base)}} :
         /\ tip = [b \in Branches |-> IF b \in gone THEN None ELSE head[b]]
         /\ pr = [b \in Branches |-> IF b \in gone THEN "closed" ELSE "open"]
    /\ tracking = [b \in Branches |-> None]
    /\ local \in {[b \in Branches |-> IF b \in S THEN {<<b, 0>>} ELSE None] : S \in SUBSET Branches}
    /\ at \in [Trees -> {b \in Branches : local[b] # None} \cup {None}]
    /\ \A v, w \in Trees : at[v] = at[w] => v = w \/ at[v] = None
    /\ dirty = {}
    /\ catalog \in {{}} \cup {{[number |-> n, heads |-> [b \in S |-> local[b]]]} :
                      n \in {None, 1}, S \in {{b \in Branches : local[b] # None}} \ {{}}}
    /\ backup = {}
    /\ pc = [r \in Runs |-> "new"]
    /\ here = [r \in Runs |-> None]
    /\ stack = [r \in Runs |-> None] /\ current = [r \in Runs |-> None]
    /\ onRemote = [r \in Runs |-> {}] /\ plan = [r \in Runs |-> <<>>]
    /\ overlap = [r \in Runs |-> {}] /\ moves = [r \in Runs |-> {}]
    /\ changes = 0 /\ mine = UNION {In(local[b]) : b \in Branches} /\ late = {}
    /\ calm = [r \in Runs |-> FALSE]

-----------------------------------------------------------------------------
\* stack-by-number for the PR of a branch: an open stack rather than one it
\* replaced.
StackOf(b) ==
    LET holding == {n \in DOMAIN stacks : b \in ToSet(stacks[n])} IN
    IF holding = {} THEN None ELSE CHOOSE n \in holding : \A m \in holding : m <= n

\* find-remote-stack for a branch: through its own PR, then through those of
\* the local stack.
Mates(b) == UNION {DOMAIN s.heads : s \in {t \in catalog : b \in DOMAIN t.heads}}
FindRemoteStack(b) ==
    IF StackOf(b) # None THEN {StackOf(b)} ELSE {StackOf(m) : m \in Mates(b)} \ {None}

\* The target is the current branch or the PR of any; the stack must be open.
Ask(r) ==
    /\ pc[r] = "new"
    /\ \E w \in Trees :
         /\ here' = [here EXCEPT ![r] = w]
         /\ current' = [current EXCEPT ![r] = at[w]]
         /\ Open /\ Len(stacks) \in
              {StackOf(b) : b \in Branches} \cup (IF at[w] = None THEN {} ELSE FindRemoteStack(at[w]))
    /\ stack' = [stack EXCEPT ![r] =
         [number |-> Len(stacks), heads |-> head, merged |-> {b \in Branches : pr[b] = "merged"}]]
    /\ Goto(r, "fetch")
    /\ calm' = [q \in Runs |-> q = r]
    /\ UNCHANGED <<github, repo, onRemote, plan, overlap, moves, changes, mine, late>>

Names(r) == stacks[stack[r].number]
Layers(r) == {b \in Branches : \E i \in DOMAIN Names(r) : Names(r)[i] = b}

\* ls-remote tells which branches are there, fetch forces their tracking refs.
Fetch(r) ==
    LET there == {b \in Layers(r) : tip[b] # None} IN
    /\ pc[r] = "fetch"
    /\ onRemote' = [onRemote EXCEPT ![r] = there]
    /\ tracking' = [b \in Branches |-> IF b \in there THEN tip[b] ELSE tracking[b]]
    /\ Goto(r, "plan")
    /\ Alone(r)
    /\ UNCHANGED <<github, local, at, dirty, catalog, backup, here, stack, current, plan, overlap,
                   moves, changes, mine, late>>

\* Where a branch is to go: to its remote tip or, when that is gone, to the
\* head of its PR, unless that is merged.
Target(r, b) ==
    CASE b \in onRemote[r] -> tracking[b]
      [] b \notin onRemote[r] /\ b \notin stack[r].merged -> stack[r].heads[b]
      [] OTHER -> None

Worktree(b) == IF \E w \in Trees : at[w] = b THEN CHOOSE w \in Trees : at[w] = b ELSE None

SameNumber(r) == {s \in catalog : s.number = stack[r].number}
                                             \* fault: the stack GitHub replaced stays
Overlapping(r) == {s \in catalog : DOMAIN s.heads \cap Layers(r) # {}}

Plan(r) ==
    /\ pc[r] = "plan"
    /\ \A b \in onRemote[r] : tracking[b] # None
    /\ plan' = [plan EXCEPT ![r] = [b \in Layers(r) |->
         [local |-> local[b], target |-> Target(r, b), worktree |-> Worktree(b)]]]
    /\ moves' = [moves EXCEPT ![r] =
         {b \in Layers(r) : Target(r, b) # None /\ Target(r, b) # local[b]}]
    /\ overlap' = [overlap EXCEPT ![r] = Overlapping(r)]
    /\ Goto(r, "check")
    /\ UNCHANGED <<github, repo, here, stack, current, onRemote, changes, mine, late, calm>>

\* Nothing moves when a worktree has changes, nor when a local stack without a
\* number is not the current branch's.  Then the old tips are saved.
Ref(r, b, commits) == [run |-> r, branch |-> b, tip |-> commits]
SavesAll(r) == {Ref(r, b, plan[r][b].local) : b \in moves[r]}   \* fault: missing branches too
NewTips(r) == {Ref(r, b, plan[r][b].target) : b \in moves[r]}   \* fault: after the fact
Saved(r) == {Ref(r, b, plan[r][b].local) : b \in {c \in moves[r] : plan[r][c].local # None}}

Blocked(r) ==
    \/ \E b \in moves[r] : plan[r][b].worktree \in dirty
    \/ \E s \in overlap[r] : s.number = None /\ current[r] \notin DOMAIN s.heads

Check(r) ==
    /\ pc[r] = "check"
    /\ \/ /\ Blocked(r)
          /\ Ends(r)
          /\ calm' = [calm EXCEPT ![r] = FALSE]
          /\ UNCHANGED backup
       \/ /\ ~Blocked(r)
          /\ backup' = backup \cup Saved(r)
          /\ Goto(r, "move")
          /\ Alone(r)
          /\ UNCHANGED <<here, stack, current, onRemote, plan, overlap, moves>>
    /\ UNCHANGED <<github, tracking, local, at, dirty, catalog, changes, mine, late>>

\* git switch --force-create in the worktree that had the branch, or git branch
\* --force.  Both take the tracking ref as it is now, and refuse a branch that
\* another worktree has; switch carries changes made since the check along, or
\* refuses.
Move(r) ==
    /\ pc[r] = "move"
    /\ \E i \in DOMAIN Names(r) :
         LET b == Names(r)[i]
             w == plan[r][b].worktree
             start == IF b \in onRemote[r] THEN tracking[b] ELSE plan[r][b].target
         IN
         /\ b \in moves[r] /\ \A j \in 1 .. i - 1 : Names(r)[j] \notin moves[r]
         /\ start # None
         /\ Worktree(b) \in {None, w}
         /\ local' = [local EXCEPT ![b] = start]
         /\ at' = IF w = None THEN at ELSE [at EXCEPT ![w] = b]
         /\ moves' = [moves EXCEPT ![r] = @ \ {b}]
    /\ Alone(r)
    /\ UNCHANGED <<github, tracking, dirty, catalog, backup, pc, here, stack, current, onRemote, plan,
                   overlap, changes, mine, late>>

\* gh stack unstack --local, by number or for the branch it is on.
Unstack(r) ==
    LET numbers == {s.number : s \in overlap[r]}
        unnumbered == {s \in catalog : s.number = None /\ at[here[r]] \in DOMAIN s.heads}
    IN
    /\ pc[r] = "move" /\ moves[r] = {}
    /\ numbers \ {None} \subseteq {s.number : s \in catalog}
    /\ None \in numbers => unnumbered # {}
    /\ catalog' = {s \in catalog : s.number \notin numbers \ {None}} \ (IF None \in numbers THEN unnumbered ELSE {})
    /\ Goto(r, "checkout")
    /\ Alone(r)
    /\ UNCHANGED <<github, tracking, local, at, dirty, backup, here, stack, current, onRemote, plan,
                   overlap, moves, changes, mine, late>>

\* What gh stack tracks once it imported a stack.
NotImported(r, heads) == catalog             \* fault: local tracking is only dropped
Imported(r, heads) ==
    IF Overlapping(r) # {} THEN catalog
    ELSE catalog \cup {[number |-> stack[r].number, heads |-> heads]}

\* gh stack checkout: creates the branches that are missing and records the
\* heads of a stack that no local one overlaps.  It keeps the current branch if
\* that is one of the stack's.
Checkout(r) ==
    LET made == [b \in Branches |-> IF b \in Layers(r) /\ local[b] = None THEN tip[b] ELSE local[b]]
        heads == [b \in {c \in Layers(r) : made[c] # None} |-> made[b]]
    IN
    /\ pc[r] = "checkout"
    /\ local' = made
    /\ catalog' = Imported(r, heads)
    /\ \E b \in DOMAIN heads :
         /\ current[r] \in Layers(r) => b = current[r]
         /\ Worktree(b) \in {None, here[r]}
         /\ at' = [at EXCEPT ![here[r]] = b]
    /\ Ends(r)
    /\ Alone(r)
    /\ UNCHANGED <<github, tracking, dirty, backup, changes, mine, late>>

\* A call fails, the run is a dry run, or it is killed.
Stop(r) ==
    /\ pc[r] \notin {"new", "done"}
    /\ Ends(r)
    /\ calm' = [calm EXCEPT ![r] = FALSE]
    /\ UNCHANGED <<github, repo, changes, mine, late>>

Run(r) ==
    \/ Ask(r) \/ Fetch(r) \/ Plan(r) \/ Check(r) \/ Move(r) \/ Unstack(r) \/ Checkout(r)
    \/ Stop(r)

-----------------------------------------------------------------------------
\* What the user does meanwhile.
New(b) == <<b, changes + 1>>
Commit(w) ==
    LET b == at[w] IN
    /\ b # None
    /\ local' = [local EXCEPT ![b] = @ \cup {New(b)}]
    /\ mine' = mine \cup {New(b)}
    /\ late' = IF \E r \in Runs : b \in moves[r] THEN late \cup {New(b)} ELSE late
    /\ dirty' = dirty \ {w}
    /\ UNCHANGED <<github, tracking, at>>
Edit(w) ==
    /\ dirty' = dirty \cup {w} /\ w \notin dirty
    /\ UNCHANGED <<github, tracking, local, at, mine, late>>
Switch(w) ==
    /\ w \notin dirty
    /\ \E b \in {c \in Branches : local[c] # None /\ Worktree(c) = None} \cup {None} :
         at' = [at EXCEPT ![w] = b]
    /\ UNCHANGED <<github, tracking, local, dirty, mine, late>>
Push(b) ==
    /\ local[b] # None /\ tip[b] # None /\ local[b] # tip[b] /\ pr[b] = "open"
    /\ tip' = [tip EXCEPT ![b] = local[b]]
    /\ head' = [head EXCEPT ![b] = local[b]]
    /\ tracking' = [tracking EXCEPT ![b] = local[b]]
    /\ UNCHANGED <<stacks, pr, local, at, dirty, mine, late>>
Prune ==
    /\ tracking' = tip /\ tracking' # tracking
    /\ UNCHANGED <<github, local, at, dirty, mine, late>>

\* What others do on GitHub: push, force a push, merge, close, restack.
OtherPush(b) ==
    /\ tip[b] # None /\ pr[b] = "open"
    /\ \E kept \in {tip[b], {}} : tip' = [tip EXCEPT ![b] = kept \cup {New(b)}]
    /\ head' = [head EXCEPT ![b] = tip'[b]]
    /\ UNCHANGED <<stacks, pr, tracking, local, at, dirty, mine, late>>
Settle(b) ==
    /\ pr[b] = "open"
    /\ \E how \in {"merged", "closed"} : pr' = [pr EXCEPT ![b] = how]
    /\ \E gone \in BOOLEAN : tip' = IF gone THEN [tip EXCEPT ![b] = None] ELSE tip
    /\ UNCHANGED <<stacks, head, tracking, local, at, dirty, mine, late>>
Restack ==
    /\ Len(stacks) < LastNumber
    /\ \E n \in DOMAIN Base : \E kept \in [1 .. n -> DOMAIN Base] :
         /\ \A i, j \in 1 .. n : i < j => kept[i] < kept[j]
         /\ stacks' = Append(stacks, [i \in 1 .. n |-> Base[kept[i]]])
    /\ UNCHANGED <<tip, head, pr, tracking, local, at, dirty, mine, late>>

Others ==
    /\ changes < Changes /\ changes' = changes + 1
    /\ \/ \E w \in Trees : Commit(w) \/ Edit(w) \/ Switch(w)
       \/ \E b \in Branches : Push(b) \/ OtherPush(b) \/ Settle(b)
       \/ Prune \/ Restack
    /\ calm' = [r \in Runs |-> FALSE]
    /\ UNCHANGED <<catalog, backup, runVars>>

Next == (\E r \in Runs : Run(r)) \/ Others

Spec == Init /\ [][Next]_vars

-----------------------------------------------------------------------------
AreTips(f, S) == DOMAIN f = S /\ \A b \in S : f[b] # None /\ f[b] \in SUBSET Commits(b)
MayBeTips(f) == DOMAIN f = Branches /\ \A b \in Branches : In(f[b]) \in SUBSET Commits(b)
TypeOK ==
    /\ \A n \in DOMAIN stacks : ToSet(stacks[n]) \subseteq Branches /\ n <= LastNumber
    /\ MayBeTips(tip) /\ MayBeTips(local) /\ MayBeTips(tracking) /\ AreTips(head, Branches)
    /\ pr \in [Branches -> {"open", "closed", "merged"}]
    /\ at \in [Trees -> Branches \cup {None}] /\ dirty \subseteq Trees
    /\ \A v, w \in Trees : at[v] = at[w] => v = w \/ at[v] = None
    /\ \A s \in catalog : /\ s.number \in (1 .. LastNumber) \cup {None}
                          /\ DOMAIN s.heads \subseteq Branches /\ AreTips(s.heads, DOMAIN s.heads)
    /\ \A ref \in backup : ref.tip # None /\ ref.tip \in SUBSET Commits(ref.branch)
    /\ pc \in [Runs -> {"new", "fetch", "plan", "check", "move", "checkout", "done"}]
    /\ here \in [Runs -> Trees \cup {None}] /\ current \in [Runs -> Branches \cup {None}]
    /\ onRemote \in [Runs -> SUBSET Branches]
    /\ \A r \in Runs : moves[r] \subseteq DOMAIN plan[r]
    /\ changes \in 0 .. Changes /\ late \subseteq mine /\ mine \subseteq Branches \X (0 .. Changes)
    /\ calm \in [Runs -> BOOLEAN]

\* "commits with no equivalent on GitHub, which only the backup keeps"
\* (gs.nu:258): whatever runs overlap, fail or are repeated, and whatever is
\* pushed over on GitHub, a commit made here stays in a branch or a backup.  Only
\* one made on a branch that a run which still goes on has planned to move and not
\* yet moved can be lost.
Backed == UNION {ref.tip : ref \in backup}
Kept == (UNION {In(local[b]) : b \in Branches}) \cup Backed
NothingLost == mine \ late \subseteq Kept

\* "Make the local stack match its stack on GitHub ... local tracking is imported
\* again" (gs.nu:265-267): a run that gets to its end with nothing changed since
\* it asked GitHub leaves every layer at its tip there, or at the head of its
\* closed PR, and one local stack, with the number GitHub has for it and those
\* heads, and no other that has any of the layers, also after runs that failed
\* half-way, with local tracking already dropped.
OnGitHub(b) ==
    CASE tip[b] # None -> tip[b]
      [] tip[b] = None /\ pr[b] # "merged" -> head[b]
      [] OTHER -> local[b]
Tracks(s, layers) ==
    /\ s.number = Len(stacks)
    /\ DOMAIN s.heads = {b \in layers : local'[b] # None}
    /\ \A b \in DOMAIN s.heads : s.heads[b] = local'[b]
Matches(layers) ==
    /\ \A b \in layers : local'[b] = OnGitHub(b)
    /\ \E s \in catalog' : Tracks(s, layers)
    /\ \A s \in catalog' : DOMAIN s.heads \cap layers # {} => Tracks(s, layers)
Pulled == [][\A r \in Runs : calm'[r] /\ pc[r] # "done" /\ pc'[r] = "done" => Matches(ToSet(Last(stacks)))]_vars
=============================================================================
