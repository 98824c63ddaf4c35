-------------------------- MODULE StackPullProofs --------------------------
(***************************************************************************)
(* StackPull for any number of runs, branches and worktrees, whatever the  *)
(* user and others do.  A run moves a branch to another tip; that nothing  *)
(* made here is lost rests on what it planned: from the plan to the move,  *)
(* what comes to the branch is late, in a backup, or in the plan, and what *)
(* is in the plan is in a backup before the first branch moves.            *)
(***************************************************************************)
EXTENDS StackPull, SequenceTheorems, TLAPS

Domains ==
    /\ DOMAIN local = Branches /\ DOMAIN tip = Branches /\ DOMAIN head = Branches
    /\ DOMAIN tracking = Branches
    /\ DOMAIN pc = Runs /\ DOMAIN stack = Runs /\ DOMAIN plan = Runs /\ DOMAIN moves = Runs
    /\ DOMAIN at = Trees
    /\ \A r \in Runs : moves[r] \subseteq Branches
    /\ changes \in Nat /\ mine \subseteq UNION {Commits(b) : b \in Branches}

\* Commits stay on their branch, wherever its tips are copied to.
TipsOwned ==
    \A b \in Branches :
        /\ In(tip[b]) \subseteq Commits(b) /\ In(head[b]) \subseteq Commits(b)
        /\ In(tracking[b]) \subseteq Commits(b) /\ In(local[b]) \subseteq Commits(b)
AskedOwned ==
    \A b \in Branches, r \in Runs :
        pc[r] \in {"fetch", "plan"} => In(stack[r].heads[b]) \subseteq Commits(b)
PlanOwned ==
    \A r \in Runs : \A b \in moves[r] : In(plan[r][b].target) \subseteq Commits(b)

\* A worktree is on a branch that is there.
AtThere == \A w \in Trees : at[w] # None => at[w] \in Branches /\ local[at[w]] # None

\* What NothingLost says, branch by branch.
KeptOn == \A b \in Branches : (mine \ late) \cap Commits(b) \subseteq In(local[b]) \cup Backed

\* What a branch has before it moves was in the plan, and what is in the plan is
\* in the backup when branches move.
Planned ==
    \A r \in Runs : \A b \in moves[r] :
        (In(local[b]) \cap mine) \ late \subseteq In(plan[r][b].local) \cup Backed
SavedFirst ==
    \A r \in Runs : pc[r] = "move" => \A b \in moves[r] : In(plan[r][b].local) \subseteq Backed

PullInv ==
    Domains /\ TipsOwned /\ AskedOwned /\ PlanOwned /\ AtThere /\ KeptOn /\ Planned /\ SavedFirst

LEMMA KeptIsKept == PullInv => NothingLost
<1> SUFFICES ASSUME PullInv, NEW c \in mine \ late PROVE c \in Kept
  BY DEF NothingLost
<1>1. PICK b \in Branches : c \in Commits(b)
  BY DEF PullInv, Domains
<1>2. c \in In(local[b]) \cup Backed
  BY <1>1 DEF PullInv, KeptOn
<1>3. In(local[b]) \in {In(local[d]) : d \in Branches}
  BY <1>1
<1>4. QED
  BY <1>2, <1>3, Zenon DEF Kept

LEMMA InitPullInv == Init => PullInv
<1> SUFFICES ASSUME Init PROVE PullInv
  OBVIOUS
<1> USE StackPullAssumption
<1>1. \A b \in Branches : In(local[b]) \subseteq Commits(b) /\ (local[b] # None => local[b] = {<<b, 0>>})
  BY DEF Init, In, Commits
<1>2. \A b \in Branches : In(head[b]) = {} /\ In(tip[b]) = {} /\ In(tracking[b]) = {}
  BY DEF Init, In
<1>3. Domains
  BY <1>1 DEF Init, Domains
<1>4. TipsOwned /\ AskedOwned /\ PlanOwned /\ Planned /\ SavedFirst
  BY <1>1, <1>2 DEF Init, TipsOwned, AskedOwned, PlanOwned, Planned, SavedFirst
<1>5. AtThere
  BY DEF Init, AtThere
<1>6. KeptOn
  <2> SUFFICES ASSUME NEW b \in Branches, NEW c \in mine, c \in Commits(b) PROVE c \in In(local[b])
    BY DEF KeptOn
  <2>1. PICK d \in Branches : c \in In(local[d])
    BY DEF Init
  <2>2. c \in Commits(d)
    BY <1>1, <2>1
  <2>3. b = d
    BY <2>2 DEF Commits
  <2>4. QED
    BY <2>1, <2>3
<1>7. QED
  BY <1>3, <1>4, <1>5, <1>6 DEF PullInv

\* Steps of a run that leave every branch where it is.
LEMMA AskKeeps == ASSUME PullInv, NEW r \in Runs, Ask(r) PROVE PullInv'
<1>1. /\ UNCHANGED <<local, tip, head, tracking, plan, moves, at, backup, changes, mine, late>>
      /\ pc' = [pc EXCEPT ![r] = "fetch"]
      /\ \E x, y : stack' = [stack EXCEPT ![r] = [number |-> x, heads |-> head, merged |-> y]]
  BY DEF Ask, github, repo, Goto
<1>2. Domains' /\ TipsOwned' /\ PlanOwned' /\ AtThere' /\ KeptOn' /\ Planned'
  BY <1>1 DEF PullInv, Domains, TipsOwned, PlanOwned, AtThere, KeptOn, Planned, Backed
<1>3. AskedOwned'
  <2> SUFFICES ASSUME NEW b \in Branches, NEW q \in Runs, pc'[q] \in {"fetch", "plan"}
               PROVE  In(stack'[q].heads[b]) \subseteq Commits(b)
    BY DEF AskedOwned
  <2>1. CASE q = r
    BY <1>1, <2>1 DEF PullInv, Domains, TipsOwned
  <2>2. CASE q # r
    BY <1>1, <2>2 DEF PullInv, Domains, AskedOwned
  <2>3. QED
    BY <2>1, <2>2
<1>4. SavedFirst'
  BY <1>1 DEF PullInv, Domains, SavedFirst, Backed
<1>5. QED
  BY <1>2, <1>3, <1>4 DEF PullInv

LEMMA FetchKeeps == ASSUME PullInv, NEW r \in Runs, Fetch(r) PROVE PullInv'
<1>1. /\ UNCHANGED <<local, tip, head, stack, plan, moves, at, backup, changes, mine, late>>
      /\ pc[r] = "fetch" /\ pc' = [pc EXCEPT ![r] = "plan"]
      /\ DOMAIN tracking' = Branches
      /\ \A b \in Branches : tracking'[b] \in {tip[b], tracking[b]}
  BY DEF Fetch, github, Goto
<1>2. Domains' /\ PlanOwned' /\ AtThere' /\ KeptOn' /\ Planned'
  BY <1>1 DEF PullInv, Domains, PlanOwned, AtThere, KeptOn, Planned, Backed
<1>3. TipsOwned'
  BY <1>1 DEF PullInv, TipsOwned
<1>4. AskedOwned'
  BY <1>1 DEF PullInv, Domains, AskedOwned
<1>5. SavedFirst'
  BY <1>1 DEF PullInv, Domains, SavedFirst, Backed
<1>6. QED
  BY <1>2, <1>3, <1>4, <1>5 DEF PullInv

\* The plan has what the branches have.
LEMMA PlanKeeps == ASSUME PullInv, NEW r \in Runs, Plan(r) PROVE PullInv'
<1>1. /\ UNCHANGED <<local, tip, head, tracking, stack, at, backup, changes, mine, late>>
      /\ pc[r] = "plan" /\ pc' = [pc EXCEPT ![r] = "check"]
      /\ plan' = [plan EXCEPT ![r] = [b \in Layers(r) |->
                    [local |-> local[b], target |-> Target(r, b), worktree |-> Worktree(b)]]]
      /\ moves' = [moves EXCEPT ![r] = {b \in Layers(r) : Target(r, b) # None /\ Target(r, b) # local[b]}]
  BY DEF Plan, github, repo, Goto
<1>2. Layers(r) \subseteq Branches
  BY DEF Layers
<1>3. /\ moves'[r] \subseteq Layers(r)
      /\ \A b \in moves'[r] : plan'[r][b].local = local[b] /\ plan'[r][b].target = Target(r, b)
      /\ \A q \in Runs \ {r} : moves'[q] = moves[q] /\ plan'[q] = plan[q] /\ pc'[q] = pc[q]
      /\ pc'[r] = "check"
  BY <1>1 DEF PullInv, Domains
<1>4. Domains'
  BY <1>1, <1>2, <1>3 DEF PullInv, Domains
<1>5. TipsOwned' /\ AtThere' /\ KeptOn'
  BY <1>1 DEF PullInv, TipsOwned, AtThere, KeptOn, Backed
<1>6. AskedOwned'
  BY <1>1, <1>3 DEF PullInv, AskedOwned
<1>7. PlanOwned'
  <2>1. \A b \in Branches : In(Target(r, b)) \subseteq Commits(b)
    <3> SUFFICES ASSUME NEW b \in Branches PROVE In(Target(r, b)) \subseteq Commits(b)
      OBVIOUS
    <3>1. In(None) = {}
      BY DEF In
    <3>2. QED
      BY <1>1, <3>1 DEF Target, PullInv, TipsOwned, AskedOwned
  <2>2. QED
    BY <1>2, <1>3, <2>1 DEF PullInv, PlanOwned
<1>8. Planned'
  BY <1>1, <1>3 DEF PullInv, Planned, Backed
<1>9. SavedFirst'
  BY <1>1, <1>3 DEF PullInv, SavedFirst, Backed
<1>10. QED
  BY <1>4, <1>5, <1>6, <1>7, <1>8, <1>9 DEF PullInv

\* A run that ends plans nothing any more.
LEMMA EndsKeeps ==
    ASSUME PullInv, NEW r \in Runs, Ends(r), UNCHANGED <<local, tip, head, tracking, at, backup, changes, mine, late>>
    PROVE  PullInv'
<1>1. /\ moves'[r] = {} /\ pc'[r] = "done"
      /\ \A q \in Runs \ {r} : moves'[q] = moves[q] /\ plan'[q] = plan[q] /\ pc'[q] = pc[q] /\ stack'[q] = stack[q]
      /\ DOMAIN moves' = Runs /\ DOMAIN plan' = Runs /\ DOMAIN pc' = Runs /\ DOMAIN stack' = Runs
  BY DEF Ends, Goto, PullInv, Domains
<1>2. QED
  BY <1>1 DEF PullInv, Domains, TipsOwned, AskedOwned, PlanOwned, AtThere, KeptOn, Planned, SavedFirst, Backed

LEMMA StopKeeps == ASSUME PullInv, NEW r \in Runs, Stop(r) PROVE PullInv'
BY EndsKeeps DEF Stop, github, repo

\* From here on what the plan has is in a backup.
LEMMA CheckKeeps == ASSUME PullInv, NEW r \in Runs, Check(r) PROVE PullInv'
<1>1. CASE Blocked(r)
  BY <1>1, EndsKeeps DEF Check, github
<1>2. CASE ~Blocked(r)
  <2>1. /\ UNCHANGED <<local, tip, head, tracking, stack, plan, moves, at, changes, mine, late>>
        /\ pc' = [pc EXCEPT ![r] = "move"] /\ backup' = backup \cup Saved(r)
    BY <1>2 DEF Check, github, Goto
  <2>2. Backed \subseteq Backed'
    BY <2>1 DEF Backed
  <2>3. \A b \in moves[r] : In(plan[r][b].local) \subseteq Backed'
    <3> SUFFICES ASSUME NEW b \in moves[r], plan[r][b].local # None
                 PROVE  plan[r][b].local \subseteq Backed'
      BY DEF In
    <3>1. Ref(r, b, plan[r][b].local) \in backup'
      BY <2>1 DEF Saved
    <3>2. Ref(r, b, plan[r][b].local).tip = plan[r][b].local
      BY DEF Ref
    <3>3. QED
      BY <3>1, <3>2 DEF Backed
  <2>4. Domains' /\ TipsOwned' /\ AskedOwned' /\ PlanOwned' /\ AtThere'
    BY <2>1 DEF PullInv, Domains, TipsOwned, AskedOwned, PlanOwned, AtThere
  <2>5. KeptOn' /\ Planned'
    BY <2>1, <2>2 DEF PullInv, KeptOn, Planned
  <2>6. SavedFirst'
    BY <2>1, <2>2, <2>3 DEF PullInv, Domains, SavedFirst
  <2>7. QED
    BY <2>4, <2>5, <2>6 DEF PullInv
<1>3. QED
  BY <1>1, <1>2

LEMMA UnstackKeeps == ASSUME PullInv, NEW r \in Runs, Unstack(r) PROVE PullInv'
<1>1. /\ UNCHANGED <<local, tip, head, tracking, stack, plan, moves, at, backup, changes, mine, late>>
      /\ pc' = [pc EXCEPT ![r] = "checkout"]
  BY DEF Unstack, github, Goto
<1>2. QED
  BY <1>1 DEF PullInv, Domains, TipsOwned, AskedOwned, PlanOwned, AtThere, KeptOn, Planned, SavedFirst, Backed

\* The old tip is in a backup, or was late; the new one brings only commits
\* that are kept already.
LEMMA MoveKeeps == ASSUME PullInv, NEW r \in Runs, Move(r) PROVE PullInv'
<1>1. /\ UNCHANGED <<tip, head, tracking, stack, plan, pc, backup, changes, mine, late>>
      /\ pc[r] = "move"
  BY DEF Move, github
<1>2. PICK b, start, w :
        /\ b \in moves[r] /\ start # None
        /\ start \in {tracking[b], plan[r][b].target}
        /\ local' = [local EXCEPT ![b] = start]
        /\ at' = (IF w = None THEN at ELSE [at EXCEPT ![w] = b])
        /\ moves' = [moves EXCEPT ![r] = @ \ {b}]
  BY DEF Move
<1>3. b \in Branches /\ In(start) \subseteq Commits(b)
  BY <1>2 DEF PullInv, Domains, TipsOwned, PlanOwned
<1>4. /\ local'[b] = start /\ \A d \in Branches \ {b} : local'[d] = local[d]
      /\ DOMAIN local' = Branches
  BY <1>2, <1>3 DEF PullInv, Domains
<1>5. /\ DOMAIN moves' = Runs
      /\ \A q \in Runs : moves'[q] \subseteq moves[q]
  BY <1>2 DEF PullInv, Domains
<1>6. DOMAIN at' = Trees /\ \A v \in Trees : at'[v] \in {at[v], b}
  BY <1>2 DEF PullInv, Domains
<1>7. Backed' = Backed
  BY <1>1 DEF Backed
<1>8. Domains'
  BY <1>1, <1>4, <1>5, <1>6 DEF PullInv, Domains
<1>9. TipsOwned' /\ AskedOwned' /\ PlanOwned'
  BY <1>1, <1>3, <1>4, <1>5 DEF PullInv, TipsOwned, AskedOwned, PlanOwned
<1>10. AtThere'
  BY <1>2, <1>3, <1>4, <1>6 DEF PullInv, AtThere, Domains
<1>11. (In(local[b]) \cap mine) \ late \subseteq Backed
  BY <1>1, <1>2 DEF PullInv, Planned, SavedFirst
<1>12. (In(start) \cap mine) \ late \subseteq Backed
  BY <1>3, <1>11 DEF PullInv, KeptOn
<1>13. KeptOn'
  BY <1>1, <1>4, <1>7, <1>11 DEF PullInv, KeptOn
<1>14. Planned'
  <2> SUFFICES ASSUME NEW q \in Runs, NEW d \in moves'[q]
               PROVE  (In(local'[d]) \cap mine) \ late \subseteq In(plan[q][d].local) \cup Backed
    BY <1>1, <1>7 DEF Planned
  <2>1. d \in moves[q] /\ d \in Branches
    BY <1>5 DEF PullInv, Domains
  <2>2. QED
    BY <1>4, <1>12, <2>1 DEF PullInv, Planned
<1>15. SavedFirst'
  BY <1>1, <1>5, <1>7 DEF PullInv, SavedFirst
<1>16. QED
  BY <1>8, <1>9, <1>10, <1>13, <1>14, <1>15 DEF PullInv

\* gh stack creates missing branches only, from what is on GitHub.
LEMMA CheckoutKeeps == ASSUME PullInv, NEW r \in Runs, Checkout(r) PROVE PullInv'
<1>1. /\ UNCHANGED <<tip, head, tracking, backup, changes, mine, late>> /\ Ends(r)
      /\ DOMAIN local' = Branches
      /\ \A b \in Branches : local'[b] = local[b] \/ (local[b] = None /\ local'[b] = tip[b])
  BY DEF Checkout, github
<1>2. PICK b \in Branches : at' = [at EXCEPT ![here[r]] = b] /\ local'[b] # None
  BY DEF Checkout, Layers
<1>3. /\ moves'[r] = {} /\ pc'[r] = "done"
      /\ \A q \in Runs \ {r} : moves'[q] = moves[q] /\ plan'[q] = plan[q] /\ pc'[q] = pc[q] /\ stack'[q] = stack[q]
      /\ DOMAIN moves' = Runs /\ DOMAIN plan' = Runs /\ DOMAIN pc' = Runs /\ DOMAIN stack' = Runs
  BY <1>1 DEF Ends, Goto, PullInv, Domains
<1>4. DOMAIN at' = Trees /\ \A v \in Trees : at'[v] \in {at[v], b}
  BY <1>2 DEF PullInv, Domains
<1>5. Backed' = Backed
  BY <1>1 DEF Backed
<1>6. \A d \in Branches : (In(local'[d]) \cap mine) \ late \subseteq In(local[d]) \cup Backed
  <2> SUFFICES ASSUME NEW d \in Branches, local[d] = None, local'[d] = tip[d]
               PROVE  (In(tip[d]) \cap mine) \ late \subseteq In(local[d]) \cup Backed
    BY <1>1
  <2>1. QED
    BY DEF PullInv, KeptOn, TipsOwned
<1>7. Domains' /\ TipsOwned' /\ AskedOwned' /\ PlanOwned'
  BY <1>1, <1>3, <1>4 DEF PullInv, Domains, TipsOwned, AskedOwned, PlanOwned
<1>8. AtThere'
  BY <1>1, <1>2, <1>4 DEF PullInv, AtThere, Domains
<1>9. KeptOn'
  <2>1. \A d \in Branches : In(local[d]) \subseteq In(local'[d])
    BY <1>1 DEF In
  <2>2. QED
    BY <1>1, <1>5, <2>1 DEF PullInv, KeptOn
<1>10. Planned'
  <2> SUFFICES ASSUME NEW q \in Runs, NEW d \in moves'[q]
               PROVE  (In(local'[d]) \cap mine) \ late \subseteq In(plan'[q][d].local) \cup Backed
    BY <1>1, <1>5 DEF Planned
  <2>1. q # r /\ d \in moves[q] /\ d \in Branches
    BY <1>3 DEF PullInv, Domains
  <2>2. QED
    BY <1>3, <1>6, <2>1 DEF PullInv, Planned
<1>11. SavedFirst'
  BY <1>3, <1>5 DEF PullInv, SavedFirst
<1>12. QED
  BY <1>7, <1>8, <1>9, <1>10, <1>11 DEF PullInv

\* The user and others.  A commit is late on a branch that a run is to move.
LEMMA CommitKeeps ==
    ASSUME PullInv, NEW w \in Trees, Commit(w), changes' = changes + 1, changes < Changes,
           UNCHANGED <<backup, runVars>>
    PROVE  PullInv'
<1> DEFINE b == at[w]
<1>1. /\ b # None /\ b \in Branches /\ local[b] # None
      /\ local' = [local EXCEPT ![b] = @ \cup {New(b)}] /\ mine' = mine \cup {New(b)}
      /\ late' = (IF \E r \in Runs : b \in moves[r] THEN late \cup {New(b)} ELSE late)
      /\ UNCHANGED <<tip, head, tracking, at, stack, plan, moves, pc, backup>>
  BY DEF Commit, github, runVars, PullInv, AtThere
<1>2. New(b) \in Commits(b) /\ changes' \in Nat /\ Changes \in Nat
  BY StackPullAssumption DEF New, Commits, PullInv, Domains
<1>3. /\ local'[b] = local[b] \cup {New(b)} /\ \A d \in Branches \ {b} : local'[d] = local[d]
      /\ DOMAIN local' = Branches
  BY <1>1 DEF PullInv, Domains
<1>4. local[b] \in SUBSET Commits(b) /\ local'[b] \in SUBSET Commits(b)
  BY <1>1, <1>2, <1>3 DEF PullInv, TipsOwned, In
<1>5. local'[b] # None
  BY <1>1, <1>4, StackPullAssumption
<1>6. In(local[b]) = local[b] /\ In(local'[b]) = local[b] \cup {New(b)}
  BY <1>1, <1>3, <1>5 DEF In
<1>7. Backed' = Backed /\ late \subseteq late'
  BY <1>1 DEF Backed
<1>8. Domains'
  <2>1. mine' \subseteq UNION {Commits(d) : d \in Branches}
    BY <1>1, <1>2 DEF PullInv, Domains
  <2>2. QED
    BY <1>1, <1>2, <1>3, <2>1 DEF PullInv, Domains
<1>9. TipsOwned' /\ AskedOwned' /\ PlanOwned' /\ SavedFirst'
  <2>1. \A d \in Branches : In(local'[d]) \subseteq Commits(d)
    BY <1>2, <1>3, <1>4, <1>6 DEF PullInv, TipsOwned
  <2>2. TipsOwned'
    BY <1>1, <2>1 DEF PullInv, TipsOwned
  <2>3. AskedOwned' /\ PlanOwned'
    BY <1>1 DEF PullInv, AskedOwned, PlanOwned
  <2>4. SavedFirst'
    BY <1>1, <1>7 DEF PullInv, SavedFirst
  <2>5. QED
    BY <2>2, <2>3, <2>4
<1>10. AtThere'
  BY <1>1, <1>3, <1>5 DEF PullInv, AtThere
<1>11. KeptOn'
  <2> SUFFICES ASSUME NEW d \in Branches, NEW c \in mine' \ late', c \in Commits(d)
               PROVE  c \in In(local'[d]) \cup Backed
    BY <1>7 DEF KeptOn
  <2>1. CASE c = New(b)
    <3>1. d = b
      BY <1>2, <2>1 DEF Commits
    <3>2. QED
      BY <1>6, <2>1, <3>1
  <2>2. CASE c # New(b)
    BY <1>1, <1>3, <1>6, <1>7, <2>2 DEF PullInv, KeptOn
  <2>3. QED
    BY <2>1, <2>2
<1>12. Planned'
  <2> SUFFICES ASSUME NEW r \in Runs, NEW d \in moves[r], NEW c \in (In(local'[d]) \cap mine') \ late'
               PROVE  c \in In(plan[r][d].local) \cup Backed
    BY <1>1, <1>7 DEF Planned
  <2>1. d \in Branches /\ c \in In(local'[d]) /\ c \in mine' /\ c \notin late'
    BY DEF PullInv, Domains
  <2>2. c # New(b)
    <3> SUFFICES ASSUME c = New(b) PROVE FALSE
      OBVIOUS
    <3>1. c \in Commits(d)
      BY <1>9, <2>1 DEF TipsOwned
    <3>2. d = b
      BY <1>2, <3>1 DEF Commits
    <3>3. QED
      BY <1>1, <2>1, <3>2
  <2>3. c \in In(local[d]) /\ c \in mine /\ c \notin late
    BY <1>1, <1>3, <1>6, <1>7, <2>1, <2>2
  <2>4. QED
    BY <2>3 DEF PullInv, Planned
<1>13. QED
  BY <1>8, <1>9, <1>10, <1>11, <1>12 DEF PullInv

LEMMA OthersKeep == PullInv /\ Others => PullInv'
<1> SUFFICES ASSUME PullInv, Others PROVE PullInv'
  OBVIOUS
<1>1. changes < Changes /\ changes' = changes + 1 /\ changes' \in Nat /\ UNCHANGED <<backup, runVars>>
  BY DEF Others, PullInv, Domains
<1>2. CASE \E w \in Trees : Commit(w)
  BY <1>1, <1>2, CommitKeeps
<1>3. ASSUME UNCHANGED <<local, mine, late>>, TipsOwned', AtThere',
             DOMAIN tip' = Branches, DOMAIN head' = Branches, DOMAIN tracking' = Branches, DOMAIN at' = Trees
      PROVE  PullInv'
  BY <1>1, <1>3 DEF PullInv, Domains, AskedOwned, PlanOwned, KeptOn, Planned, SavedFirst, Backed, runVars
<1>4. CASE \E w \in Trees : Edit(w) \/ Switch(w)
  BY <1>3, <1>4 DEF Edit, Switch, github, PullInv, Domains, TipsOwned, AtThere
<1>5. \A b \in Branches : New(b) \in Commits(b)
  BY <1>1, StackPullAssumption DEF New, Commits, PullInv, Domains
<1>6. CASE \E b \in Branches : Push(b) \/ OtherPush(b) \/ Settle(b)
  <2>1. PICK b \in Branches : Push(b) \/ OtherPush(b) \/ Settle(b)
    BY <1>6
  <2>2. UNCHANGED <<local, at, mine, late>>
    BY <2>1 DEF Push, OtherPush, Settle
  <2>3. /\ DOMAIN tip' = Branches /\ DOMAIN head' = Branches /\ DOMAIN tracking' = Branches
        /\ \A d \in Branches \ {b} : tip'[d] = tip[d] /\ head'[d] = head[d] /\ tracking'[d] = tracking[d]
    BY <2>1 DEF Push, OtherPush, Settle, PullInv, Domains
  <2>4. In(tip'[b]) \subseteq Commits(b) /\ In(head'[b]) \subseteq Commits(b) /\ In(tracking'[b]) \subseteq Commits(b)
    <3>1. CASE Push(b)
      BY <3>1 DEF Push, PullInv, Domains, TipsOwned
    <3>2. CASE OtherPush(b)
      <4>1. tip'[b] \in {tip[b] \cup {New(b)}, {New(b)}} /\ head'[b] = tip'[b] /\ tip[b] # None /\ tracking' = tracking
        BY <3>2 DEF OtherPush, PullInv, Domains
      <4>2. tip[b] \subseteq Commits(b)
        BY <4>1 DEF PullInv, TipsOwned, In
      <4>3. QED
        BY <1>5, <4>1, <4>2 DEF In, PullInv, TipsOwned
    <3>3. CASE Settle(b)
      BY <3>3 DEF Settle, PullInv, Domains, TipsOwned, In
    <3>4. QED
      BY <2>1, <3>1, <3>2, <3>3
  <2>5. TipsOwned' /\ AtThere' /\ DOMAIN at' = Trees
    BY <2>2, <2>3, <2>4 DEF PullInv, Domains, TipsOwned, AtThere
  <2>6. QED
    BY <1>3, <2>2, <2>3, <2>5
<1>7. CASE Prune \/ Restack
  BY <1>3, <1>7 DEF Prune, Restack, github, PullInv, Domains, TipsOwned, AtThere
<1>8. QED
  BY <1>2, <1>4, <1>6, <1>7 DEF Others

LEMMA Invariance == Spec => []PullInv
<1>1. PullInv /\ [Next]_vars => PullInv'
  <2> SUFFICES ASSUME PullInv, [Next]_vars PROVE PullInv'
    OBVIOUS
  <2>1. CASE UNCHANGED vars
    BY <2>1 DEF vars, github, repo, runVars, PullInv, Domains, TipsOwned, AskedOwned, PlanOwned, AtThere,
                KeptOn, Planned, SavedFirst, Backed
  <2>2. ASSUME NEW r \in Runs, Run(r) PROVE PullInv'
    BY <2>2, AskKeeps, FetchKeeps, PlanKeeps, CheckKeeps, MoveKeeps, UnstackKeeps, CheckoutKeeps, StopKeeps DEF Run
  <2>3. QED
    BY <2>1, <2>2, OthersKeep DEF Next
<1>2. QED
  BY <1>1, InitPullInv, PTL DEF Spec

\* "commits with no equivalent on GitHub, which only the backup keeps"
\* (gs.nu:258): for any number of runs that overlap or stop anywhere, a commit
\* made here is in a branch or a backup, unless it came to a branch between a
\* run's plan and its move.
THEOREM NoneLost == Spec => []NothingLost
BY Invariance, KeptIsKept, PTL

-----------------------------------------------------------------------------
\* What the types rest on besides PullInv: stacks are sequences of branches, a
\* run under way knows its worktree and its stack, and what it planned of a
\* branch is of that branch.
Active == {"fetch", "plan", "check", "move", "checkout"}
Stacked == stacks \in Seq(Seq(Branches)) /\ stacks # <<>> /\ Len(stacks) <= LastNumber
Asked == \A r \in Runs : pc[r] \in Active => here[r] \in Trees /\ stack[r].number \in DOMAIN stacks
PlanTyped ==
    \A r \in Runs :
        /\ DOMAIN plan[r] \subseteq Branches /\ moves[r] \subseteq DOMAIN plan[r]
        /\ \A b \in DOMAIN plan[r] :
              /\ In(plan[r][b].local) \subseteq Commits(b)
              /\ plan[r][b].worktree \in Trees \cup {None}

TypeInv == PullInv /\ TypeOK /\ Stacked /\ Asked /\ PlanTyped /\ DOMAIN overlap = Runs

\* A run that is undisturbed knows GitHub and, once it has planned, its own
\* repository.
Knows(r) ==
    pc[r] \in Active =>
        /\ stack[r].number = Len(stacks) /\ stack[r].heads = head
        /\ stack[r].merged = {b \in Branches : pr[b] = "merged"}
        /\ current[r] = at[here[r]]
Fetched(r) ==
    pc[r] \in Active \ {"fetch"} =>
        /\ onRemote[r] = {b \in Layers(r) : tip[b] # None}
        /\ \A b \in onRemote[r] : tracking[b] = tip[b]

\* What is not there yet is still to move, the local stacks in the way are those
\* it found, and where a branch is checked out has not changed.
Moving(r) ==
    pc[r] \in {"check", "move"} =>
        /\ \A b \in Layers(r) :
              /\ plan[r][b].target = Target(r, b)
              /\ b \notin moves[r] => Target(r, b) \in {None, local[b]}
              /\ plan[r][b].worktree # None => at[plan[r][b].worktree] = b
        /\ overlap[r] = Overlapping(r)
        /\ moves[r] \subseteq Layers(r)
OwnStack(r) == pc[r] = "move" => \A s \in overlap[r] : s.number = None => current[r] \in DOMAIN s.heads
Moved(r) ==
    pc[r] = "checkout" => Overlapping(r) = {} /\ \A b \in Layers(r) : Target(r, b) \in {None, local[b]}

Undisturbed == \A r \in Runs : calm[r] => Knows(r) /\ Fetched(r) /\ Moving(r) /\ OwnStack(r) /\ Moved(r)

\* Types of every step.
LEMMA InitTypes == Init => TypeInv
<1> SUFFICES ASSUME Init PROVE TypeInv
  OBVIOUS
<1> USE StackPullAssumption
<1>1. \A b \in Branches : local[b] # None => local[b] = {<<b, 0>>}
  BY DEF Init
<1>2. MayBeTips(tip) /\ MayBeTips(local) /\ MayBeTips(tracking) /\ AreTips(head, Branches)
  BY <1>1 DEF Init, MayBeTips, AreTips, In, Commits
<1>3. \A s \in catalog : /\ s.number \in (1 .. LastNumber) \cup {None}
                         /\ DOMAIN s.heads \subseteq Branches /\ AreTips(s.heads, DOMAIN s.heads)
  BY <1>1 DEF Init, AreTips, Commits
<1>4. mine \subseteq Branches \X (0 .. Changes)
  BY <1>1 DEF Init, In
<1>5. Stacked
  BY DEF Init, Stacked
<1>6. \A n \in DOMAIN stacks : ToSet(stacks[n]) \subseteq Branches /\ n <= LastNumber
  BY <1>5 DEF Stacked, ToSet
<1>7. Asked /\ PlanTyped
  BY DEF Init, Asked, PlanTyped, Active
<1>8. TypeOK
  BY <1>2, <1>3, <1>4, <1>6 DEF Init, TypeOK
<1>9. DOMAIN overlap = Runs
  BY DEF Init
<1>10. QED
  BY <1>5, <1>7, <1>8, <1>9, InitPullInv DEF TypeInv

\* A branch is in one worktree, and Worktree finds it.
LEMMA InOneTree == ASSUME TypeInv, NEW v \in Trees, at[v] # None PROVE Worktree(at[v]) = v
<1>1. \A w \in Trees : at[w] = at[v] => w = v
  BY DEF TypeInv, TypeOK
<1>2. QED
  BY <1>1 DEF Worktree

LEMMA StackNumbers == ASSUME TypeInv, NEW n \in DOMAIN stacks
                      PROVE  n \in 1 .. LastNumber /\ stacks[n] \in Seq(Branches)
BY StackPullAssumption DEF TypeInv, Stacked

\* A run changes no stack on GitHub and leaves the commits of everyone alone.
LEMMA RunTypes == ASSUME TypeInv, NEW r \in Runs, Run(r) PROVE TypeInv'
<1>1. UNCHANGED <<github, changes, mine, late, dirty>>
  BY DEF Run, Ask, Fetch, Plan, Check, Move, Unstack, Checkout, Stop, repo
<1>2. PullInv'
  BY AskKeeps, FetchKeeps, PlanKeeps, CheckKeeps, MoveKeeps, UnstackKeeps, CheckoutKeeps, StopKeeps DEF Run, TypeInv
<1>3. /\ Stacked' /\ MayBeTips(tip)' /\ AreTips(head, Branches)'
      /\ pr' \in [Branches -> {"open", "closed", "merged"}] /\ dirty' \subseteq Trees
      /\ (\A n \in DOMAIN stacks : ToSet(stacks[n]) \subseteq Branches /\ n <= LastNumber)'
      /\ changes' \in 0 .. Changes /\ late' \subseteq mine' /\ mine' \subseteq Branches \X (0 .. Changes)
  BY <1>1 DEF TypeInv, TypeOK, Stacked, github, MayBeTips, AreTips
<1> DEFINE Tips == MayBeTips(local)' /\ MayBeTips(tracking)'
           Places == /\ at' \in [Trees -> Branches \cup {None}]
                     /\ \A v, w \in Trees : at'[v] = at'[w] => v = w \/ at'[v] = None
           Tracked == \A s \in catalog' : /\ s.number \in (1 .. LastNumber) \cup {None}
                                          /\ DOMAIN s.heads \subseteq Branches /\ AreTips(s.heads, DOMAIN s.heads)
           Saves == \A ref \in backup' : ref.tip # None /\ ref.tip \in SUBSET Commits(ref.branch)
           Process == /\ pc' \in [Runs -> {"new", "fetch", "plan", "check", "move", "checkout", "done"}]
                      /\ here' \in [Runs -> Trees \cup {None}] /\ current' \in [Runs -> Branches \cup {None}]
                      /\ onRemote' \in [Runs -> SUBSET Branches] /\ calm' \in [Runs -> BOOLEAN]
<1>4. SUFFICES Tips /\ Places /\ Tracked /\ Saves /\ Process /\ Asked' /\ PlanTyped'
  <2>1. DOMAIN overlap' = Runs
    BY DEF Run, Ask, Fetch, Plan, Check, Move, Unstack, Checkout, Stop, Ends, TypeInv
  <2>2. QED
    BY <1>2, <1>3, <2>1 DEF TypeInv, TypeOK, PlanTyped
<1>5. /\ UNCHANGED <<local, tracking>> => Tips
      /\ UNCHANGED at => Places
      /\ UNCHANGED catalog => Tracked
      /\ UNCHANGED backup => Saves
  BY DEF TypeInv, TypeOK, MayBeTips
<1>6. UNCHANGED <<plan, moves>> => PlanTyped'
  BY DEF TypeInv, PlanTyped
<1>7. Ends(r) /\ calm' \in [Runs -> BOOLEAN] => Process /\ Asked' /\ PlanTyped'
  <2> SUFFICES ASSUME Ends(r), calm' \in [Runs -> BOOLEAN] PROVE Process /\ Asked' /\ PlanTyped'
    OBVIOUS
  <2>1. Process
    BY DEF Ends, Goto, TypeInv, TypeOK
  <2>2. Asked'
    BY <1>1 DEF Ends, Goto, TypeInv, TypeOK, PullInv, Domains, Asked, Active, github
  <2>3. plan'[r] = <<>> /\ moves'[r] = {} /\ \A q \in Runs \ {r} : plan'[q] = plan[q] /\ moves'[q] = moves[q]
    BY DEF Ends, TypeInv, PullInv, Domains
  <2>4. PlanTyped'
    BY <2>3 DEF TypeInv, PlanTyped
  <2>5. QED
    BY <2>1, <2>2, <2>4
<1>8. Alone(r) => calm' \in [Runs -> BOOLEAN]
  <2> SUFFICES ASSUME Alone(r) PROVE calm' \in [Runs -> BOOLEAN]
    OBVIOUS
  <2>1. \A q \in Runs : (q = r /\ calm[q]) \in BOOLEAN
    OBVIOUS
  <2>2. QED
    BY <2>1, Zenon DEF Alone
<1> HIDE DEF Tips, Places, Tracked, Saves
<1>9. CASE Ask(r)
  <2>1. UNCHANGED repo /\ UNCHANGED <<onRemote, plan, moves>>
    BY <1>9 DEF Ask
  <2>2. \A w \in Trees : at[w] \in Branches \cup {None}
    BY DEF TypeInv, TypeOK
  <2>3. \E w \in Trees : here' = [here EXCEPT ![r] = w] /\ current' = [current EXCEPT ![r] = at[w]]
    BY <1>9 DEF Ask
  <2>4. Len(stacks) \in DOMAIN stacks
    BY DEF TypeInv, Stacked
  <2>5. /\ pc' = [pc EXCEPT ![r] = "fetch"]
        /\ stack'[r].number = Len(stacks) /\ \A q \in Runs \ {r} : stack'[q] = stack[q]
    BY <1>9 DEF Ask, Goto, TypeInv, PullInv, Domains
  <2>6. Asked'
    BY <1>1, <2>3, <2>4, <2>5 DEF TypeInv, TypeOK, Asked, github
  <2>7. calm' \in [Runs -> BOOLEAN]
    BY <1>9, Zenon DEF Ask
  <2>8. Process
    <3>1. /\ pc \in [Runs -> {"new", "fetch", "plan", "check", "move", "checkout", "done"}]
          /\ here \in [Runs -> Trees \cup {None}] /\ current \in [Runs -> Branches \cup {None}]
          /\ onRemote \in [Runs -> SUBSET Branches]
      BY DEF TypeInv, TypeOK
    <3>2. QED
      BY <2>1, <2>2, <2>3, <2>5, <2>7, <3>1
  <2>9. QED
    BY <1>5, <1>6, <2>1, <2>6, <2>8 DEF repo
<1>10. CASE Fetch(r)
  <2>1. /\ UNCHANGED <<local, at, catalog, backup, here, stack, current, plan, moves>> /\ Alone(r)
        /\ pc[r] = "fetch" /\ pc' = [pc EXCEPT ![r] = "plan"]
        /\ tracking' \in [Branches -> {tip[b] : b \in Branches} \cup {tracking[b] : b \in Branches}]
        /\ \A b \in Branches : tracking'[b] \in {tip[b], tracking[b]}
        /\ onRemote' \in [Runs -> SUBSET Branches]
    BY <1>10 DEF Fetch, Goto, Layers, TypeInv, TypeOK
  <2>2. Tips
    BY <2>1 DEF Tips, MayBeTips, TypeInv, TypeOK
  <2>3. Process
    BY <1>8, <2>1 DEF TypeInv, TypeOK
  <2>4. Asked'
    BY <1>1, <2>1 DEF Asked, Active, TypeInv, TypeOK, github
  <2>5. QED
    BY <1>5, <1>6, <2>1, <2>2, <2>3, <2>4
<1>11. CASE Plan(r)
  <2>1. /\ UNCHANGED <<repo, here, stack, current, onRemote, calm>>
        /\ pc[r] = "plan" /\ pc' = [pc EXCEPT ![r] = "check"]
        /\ moves'[r] \subseteq DOMAIN plan'[r] /\ DOMAIN plan'[r] \subseteq Branches
        /\ \A b \in DOMAIN plan'[r] : plan'[r][b].local = local[b] /\ plan'[r][b].worktree = Worktree(b)
        /\ \A q \in Runs \ {r} : plan'[q] = plan[q] /\ moves'[q] = moves[q]
    BY <1>11 DEF Plan, Goto, Layers, TypeInv, PullInv, Domains
  <2>2. \A b \in Branches : Worktree(b) \in Trees \cup {None}
    BY DEF Worktree
  <2>3. PlanTyped'
    BY <2>1, <2>2 DEF PlanTyped, TypeInv, PullInv, TipsOwned
  <2>4. Process /\ Asked'
    BY <1>1, <2>1 DEF Asked, Active, TypeInv, TypeOK, github
  <2>5. QED
    BY <1>5, <2>1, <2>3, <2>4 DEF repo
<1>12. CASE Check(r)
  <2>1. UNCHANGED <<tracking, local, at, catalog>>
    BY <1>12 DEF Check
  <2>2. CASE Blocked(r)
    <3>1. Ends(r) /\ calm' = [calm EXCEPT ![r] = FALSE] /\ UNCHANGED backup
      BY <1>12, <2>2 DEF Check
    <3>2. calm' \in [Runs -> BOOLEAN]
      BY <3>1, Zenon DEF TypeInv, TypeOK
    <3>3. QED
      BY <1>5, <1>7, <2>1, <3>1, <3>2
  <2>3. CASE ~Blocked(r)
    <3>1. /\ UNCHANGED <<here, stack, current, onRemote, plan, moves>> /\ Alone(r)
          /\ pc[r] = "check" /\ pc' = [pc EXCEPT ![r] = "move"] /\ backup' = backup \cup Saved(r)
      BY <1>12, <2>3 DEF Check, Goto
    <3>2. \A b \in moves[r] : plan[r][b].local # None => plan[r][b].local \in SUBSET Commits(b)
      BY DEF TypeInv, PlanTyped, In
    <3>3. \A ref \in Saved(r) : ref.tip # None /\ ref.tip \in SUBSET Commits(ref.branch)
      BY <3>2 DEF Saved, Ref
    <3>4. Saves
      BY <3>1, <3>3 DEF Saves, TypeInv, TypeOK
    <3>5. Process /\ Asked'
      BY <1>1, <1>8, <3>1 DEF Asked, Active, TypeInv, TypeOK, github
    <3>6. QED
      BY <1>5, <1>6, <2>1, <3>1, <3>4, <3>5
  <2>4. QED
    BY <2>2, <2>3
<1>13. CASE Move(r)
  <2>1. /\ UNCHANGED <<tracking, catalog, backup, pc, here, stack, current, onRemote, plan>> /\ Alone(r)
        /\ \A q \in Runs : moves'[q] \subseteq moves[q]
    BY <1>13 DEF Move, TypeInv, PullInv, Domains
  <2>2. PICK b, start, w :
          /\ b \in moves[r] /\ start # None /\ start \in {tracking[b], plan[r][b].target}
          /\ w = plan[r][b].worktree /\ Worktree(b) \in {None, w}
          /\ local' = [local EXCEPT ![b] = start]
          /\ at' = IF w = None THEN at ELSE [at EXCEPT ![w] = b]
    BY <1>13 DEF Move
  <2>3. b \in Branches /\ w \in Trees \cup {None}
    BY <2>2 DEF TypeInv, PlanTyped
  <2>4. Tips
    BY <2>1, <2>2, <2>3 DEF Tips, MayBeTips, TypeInv, TypeOK, PullInv, TipsOwned, PlanOwned
  <2>5. \A v \in Trees : at[v] = b => v = w
    BY <2>2, <2>3, InOneTree, StackPullAssumption
  <2>6. Places
    BY <2>2, <2>3, <2>5 DEF Places, TypeInv, TypeOK
  <2>7. PlanTyped'
    BY <2>1 DEF PlanTyped, TypeInv
  <2>8. Process /\ Asked'
    BY <1>1, <1>8, <2>1 DEF Asked, TypeInv, TypeOK, github
  <2>9. QED
    BY <1>5, <2>1, <2>4, <2>6, <2>7, <2>8
<1>14. CASE Unstack(r)
  <2>1. /\ UNCHANGED <<tracking, local, at, backup, here, stack, current, onRemote, plan, moves>> /\ Alone(r)
        /\ pc[r] = "move" /\ pc' = [pc EXCEPT ![r] = "checkout"] /\ catalog' \subseteq catalog
    BY <1>14 DEF Unstack, Goto
  <2>2. Tracked
    BY <2>1 DEF Tracked, TypeInv, TypeOK
  <2>3. Process /\ Asked'
    BY <1>1, <1>8, <2>1 DEF Asked, Active, TypeInv, TypeOK, github
  <2>4. QED
    BY <1>5, <1>6, <2>1, <2>2, <2>3
<1>15. CASE Checkout(r)
  <2> DEFINE made == [b \in Branches |-> IF b \in Layers(r) /\ local[b] = None THEN tip[b] ELSE local[b]]
             heads == [b \in {c \in Layers(r) : made[c] # None} |-> made[b]]
             new == [number |-> stack[r].number, heads |-> heads]
  <2>1. /\ UNCHANGED <<tracking, backup>> /\ Alone(r) /\ Ends(r) /\ pc[r] = "checkout"
        /\ local' = made /\ catalog' \subseteq catalog \cup {new}
        /\ \E b \in DOMAIN heads : Worktree(b) \in {None, here[r]} /\ at' = [at EXCEPT ![here[r]] = b]
    BY <1>15 DEF Checkout, Imported
  <2>2. Layers(r) \subseteq Branches /\ here[r] \in Trees /\ stack[r].number \in 1 .. LastNumber
    BY <2>1, StackNumbers DEF Layers, TypeInv, Asked, Active
  <2>3. MayBeTips(made)
    BY DEF MayBeTips, TypeInv, TypeOK
  <2>4. Tips
    BY <2>1, <2>3 DEF Tips, MayBeTips, TypeInv, TypeOK
  <2>5. AreTips(heads, DOMAIN heads)
    BY <2>2, <2>3 DEF AreTips, MayBeTips, In
  <2>6. Tracked
    <3>1. DOMAIN heads \subseteq Branches /\ new.heads = heads /\ new.number = stack[r].number
      BY <2>2
    <3> HIDE DEF made, heads, new
    <3>2. QED
      BY <2>1, <2>2, <2>5, <3>1 DEF Tracked, TypeInv, TypeOK
  <2>7. PICK b \in Branches : Worktree(b) \in {None, here[r]} /\ at' = [at EXCEPT ![here[r]] = b]
    BY <2>1, <2>2
  <2>8. \A v \in Trees : at[v] = b => v = here[r]
    BY <2>7, InOneTree, StackPullAssumption
  <2>9. Places
    BY <2>2, <2>7, <2>8 DEF Places, TypeInv, TypeOK
  <2>10. QED
    BY <1>5, <1>7, <1>8, <2>1, <2>4, <2>6, <2>9
<1>16. CASE Stop(r)
  <2>1. Ends(r) /\ calm' = [calm EXCEPT ![r] = FALSE] /\ UNCHANGED <<tracking, local, at, catalog, backup>>
    BY <1>16 DEF Stop, repo
  <2>2. calm' \in [Runs -> BOOLEAN]
    BY <2>1, Zenon DEF TypeInv, TypeOK
  <2>3. QED
    BY <1>5, <1>7, <2>1, <2>2
<1>17. QED
  BY <1>9, <1>10, <1>11, <1>12, <1>13, <1>14, <1>15, <1>16 DEF Run

\* The user and others commit, push and restack; catalogs and backups are left alone.
LEMMA OthersTypes == ASSUME TypeInv, Others PROVE TypeInv'
<1>1. /\ UNCHANGED <<catalog, backup, runVars>> /\ changes < Changes /\ changes' = changes + 1
      /\ changes' \in 0 .. Changes /\ calm' \in [Runs -> BOOLEAN]
  BY StackPullAssumption DEF Others, TypeInv, TypeOK
<1>2. PullInv'
  BY OthersKeep DEF TypeInv
<1>3. \A b \in Branches : New(b) \in Commits(b)
  BY <1>1 DEF New, Commits
<1>4. Stacked' /\ \A n \in DOMAIN stacks : n \in DOMAIN stacks'
  <2>1. CASE Restack
    <3>1. PICK n \in DOMAIN Base : \E kept \in [1 .. n -> DOMAIN Base] :
            Len(stacks) < LastNumber /\ stacks' = Append(stacks, [i \in 1 .. n |-> Base[kept[i]]])
      BY <2>1 DEF Restack
    <3>2. PICK kept \in [1 .. n -> DOMAIN Base] :
            Len(stacks) < LastNumber /\ stacks' = Append(stacks, [i \in 1 .. n |-> Base[kept[i]]])
      BY <3>1
    <3>3. [i \in 1 .. n |-> Base[kept[i]]] \in Seq(Branches)
      BY StackPullAssumption
    <3>4. stacks' \in Seq(Seq(Branches)) /\ Len(stacks') = Len(stacks) + 1
      <4>1. stacks \in Seq(Seq(Branches))
        BY DEF TypeInv, Stacked
      <4>2. \A s \in Seq(Branches) :
              Append(stacks, s) \in Seq(Seq(Branches)) /\ Len(Append(stacks, s)) = Len(stacks) + 1
        BY <4>1, AppendProperties
      <4>3. QED
        BY <3>2, <3>3, <4>2
    <3>5. Len(stacks) \in Nat /\ DOMAIN stacks' = 1 .. Len(stacks') /\ DOMAIN stacks = 1 .. Len(stacks)
      BY <3>4 DEF TypeInv, Stacked
    <3>6. QED
      BY <3>2, <3>4, <3>5, StackPullAssumption DEF Stacked
  <2>2. CASE UNCHANGED stacks
    BY <2>2 DEF TypeInv, Stacked
  <2>3. QED
    BY <2>1, <2>2 DEF Others, Commit, Edit, Switch, Push, OtherPush, Settle, Prune, github
<1>5. Asked' /\ PlanTyped'
  BY <1>1, <1>4 DEF TypeInv, Asked, PlanTyped, runVars
<1> DEFINE Tips == MayBeTips(tip)' /\ MayBeTips(local)' /\ MayBeTips(tracking)' /\ AreTips(head, Branches)'
           Places == /\ at' \in [Trees -> Branches \cup {None}] /\ dirty' \subseteq Trees
                     /\ \A v, w \in Trees : at'[v] = at'[w] => v = w \/ at'[v] = None
           Mine == late' \subseteq mine' /\ mine' \subseteq Branches \X (0 .. Changes)
           Pulls == pr' \in [Branches -> {"open", "closed", "merged"}]
<1>6. SUFFICES Tips /\ Places /\ Mine /\ Pulls
  <2>1. (\A n \in DOMAIN stacks : ToSet(stacks[n]) \subseteq Branches /\ n <= LastNumber)'
    BY <1>4, StackPullAssumption DEF Stacked, ToSet
  <2>2. QED
    BY <1>1, <1>2, <1>4, <1>5, <2>1 DEF TypeInv, TypeOK, runVars
<1>7. \A b \in Branches : In(tip[b]) \subseteq Commits(b) /\ In(local[b]) \subseteq Commits(b)
                          /\ In(tracking[b]) \subseteq Commits(b) /\ head[b] # None /\ head[b] \subseteq Commits(b)
  BY DEF TypeInv, TypeOK, MayBeTips, AreTips
<1>8. ASSUME NEW w \in Trees, Commit(w) PROVE Tips /\ Places /\ Mine /\ Pulls
  <2>1. PICK b \in Branches :
          /\ local' = [local EXCEPT ![b] = @ \cup {New(b)}] /\ local[b] # None
          /\ mine' = mine \cup {New(b)} /\ late' \subseteq late \cup {New(b)}
          /\ New(b) \in late' => New(b) \in mine'
    BY <1>8 DEF Commit, TypeInv, TypeOK, PullInv, AtThere
  <2>2. dirty' \subseteq dirty /\ UNCHANGED <<github, tracking, at>>
    BY <1>8 DEF Commit
  <2>3. In(local[b] \cup {New(b)}) \subseteq Commits(b)
    BY <1>3, <1>7, <2>1 DEF In
  <2>4. Tips
    BY <2>1, <2>2, <2>3 DEF TypeInv, TypeOK, MayBeTips, AreTips, github
  <2>5. Mine
    BY <1>3, <2>1 DEF TypeInv, TypeOK, Commits
  <2>6. QED
    BY <2>2, <2>4, <2>5 DEF TypeInv, TypeOK, github
<1>9. ASSUME NEW w \in Trees, Edit(w) \/ Switch(w) PROVE Tips /\ Places /\ Mine /\ Pulls
  <2>1. UNCHANGED <<github, tracking, local, mine, late>> /\ dirty' \subseteq dirty \cup {w}
    BY <1>9 DEF Edit, Switch
  <2>2. Places
    <3>1. CASE at' = at
      BY <2>1, <3>1 DEF TypeInv, TypeOK
    <3>2. CASE \E b \in Branches : Worktree(b) = None /\ at' = [at EXCEPT ![w] = b]
      <4>1. PICK b \in Branches : Worktree(b) = None /\ at' = [at EXCEPT ![w] = b]
        BY <3>2
      <4>2. \A v \in Trees : at[v] # b
        BY <4>1, StackPullAssumption DEF Worktree
      <4>3. QED
        BY <2>1, <4>1, <4>2 DEF TypeInv, TypeOK
    <3>3. CASE at' = [at EXCEPT ![w] = None]
      BY <2>1, <3>3 DEF TypeInv, TypeOK
    <3>4. QED
      BY <1>9, <3>1, <3>2, <3>3 DEF Edit, Switch
  <2>3. QED
    BY <2>1, <2>2 DEF TypeInv, TypeOK, MayBeTips, AreTips, github
<1>10. ASSUME NEW b \in Branches, Push(b) \/ OtherPush(b) \/ Settle(b) PROVE Tips /\ Places /\ Mine /\ Pulls
  <2>1. UNCHANGED <<local, at, dirty, mine, late>>
    BY <1>10 DEF Push, OtherPush, Settle
  <2>2. CASE Push(b)
    BY <1>7, <2>1, <2>2 DEF Push, TypeInv, TypeOK, MayBeTips, AreTips, In
  <2>3. CASE OtherPush(b)
    <3>1. PICK kept \in {tip[b], {}} :
            /\ tip' = [tip EXCEPT ![b] = kept \cup {New(b)}] /\ head' = [head EXCEPT ![b] = tip'[b]]
            /\ tip[b] # None /\ UNCHANGED <<pr, tracking>>
      BY <2>3 DEF OtherPush
    <3>2. kept \cup {New(b)} \in SUBSET Commits(b)
      BY <1>3, <1>7, <3>1 DEF In
    <3>3. In(kept \cup {New(b)}) \subseteq Commits(b) /\ kept \cup {New(b)} # None
      BY <3>2, StackPullAssumption DEF In
    <3>4. tip'[b] = kept \cup {New(b)}
      BY <3>1 DEF TypeInv, TypeOK, MayBeTips
    <3>5. Tips
      BY <2>1, <3>1, <3>2, <3>3, <3>4 DEF TypeInv, TypeOK, MayBeTips, AreTips
    <3>6. QED
      BY <2>1, <3>1, <3>5 DEF TypeInv, TypeOK
  <2>4. CASE Settle(b)
    BY <1>7, <2>1, <2>4 DEF Settle, TypeInv, TypeOK, MayBeTips, AreTips, In
  <2>5. QED
    BY <1>10, <2>2, <2>3, <2>4
<1>11. CASE Prune \/ Restack
  BY <1>11 DEF Prune, Restack, github, TypeInv, TypeOK, MayBeTips, AreTips
<1>12. QED
  BY <1>8, <1>9, <1>10, <1>11 DEF Others

LEMMA TypeInvariance == Spec => []TypeInv
<1>1. TypeInv /\ [Next]_vars => TypeInv'
  <2> SUFFICES ASSUME TypeInv, [Next]_vars PROVE TypeInv'
    OBVIOUS
  <2>1. CASE UNCHANGED vars
    <3>1. PullInv'
      BY <2>1 DEF TypeInv, vars, github, repo, runVars, PullInv, Domains, TipsOwned, AskedOwned, PlanOwned,
                  AtThere, KeptOn, Planned, SavedFirst, Backed
    <3>2. QED
      BY <2>1, <3>1 DEF vars, github, repo, runVars, TypeInv, TypeOK, MayBeTips, AreTips, Stacked, Asked,
                        PlanTyped
  <2>2. QED
    BY <2>1, RunTypes, OthersTypes DEF Next
<1>2. QED
  BY <1>1, InitTypes, PTL DEF Spec

\* Branches, worktrees, backups and what gh stack tracks stay what git and GitHub
\* know: a branch is in one worktree, a saved tip is of its branch, whatever
\* runs overlap or stop half-way and whatever is committed meanwhile.
THEOREM TypeCorrect == Spec => []TypeOK
<1>1. TypeInv => TypeOK
  BY DEF TypeInv
<1>2. QED
  BY TypeInvariance, <1>1, PTL

-----------------------------------------------------------------------------
LEMMA InitUndisturbed == Init => Undisturbed
BY DEF Init, Undisturbed


\* What a run found stays right with all it looked at.
LEMMA StillUndisturbed ==
    ASSUME Undisturbed, NEW r \in Runs, calm[r], UNCHANGED <<github, repo>>,
           pc'[r] = pc[r], here'[r] = here[r], stack'[r] = stack[r], current'[r] = current[r],
           onRemote'[r] = onRemote[r], plan'[r] = plan[r], overlap'[r] = overlap[r], moves'[r] = moves[r]
    PROVE  Knows(r)' /\ Fetched(r)' /\ Moving(r)' /\ OwnStack(r)' /\ Moved(r)'
<1>1. Layers(r)' = Layers(r)
  BY DEF Layers, Names, github
<1>2. \A b : Target(r, b)' = Target(r, b)
  BY DEF Target, repo
<1>3. Overlapping(r)' = Overlapping(r)
  BY <1>1 DEF Overlapping, repo
<1>4. Knows(r)' /\ Fetched(r)' /\ OwnStack(r)'
  BY <1>1 DEF Undisturbed, Knows, Fetched, OwnStack, github, repo
<1>5. Moving(r)' /\ Moved(r)'
  BY <1>1, <1>2, <1>3 DEF Undisturbed, Moving, Moved, github, repo
<1>6. QED
  BY <1>4, <1>5

\* Another run that acts disturbs this one, unless it only plans or gives up.
LEMMA OtherRun ==
    ASSUME TypeInv, Undisturbed, NEW q \in Runs, Run(q), NEW r \in Runs, r # q, calm'[r]
    PROVE  Knows(r)' /\ Fetched(r)' /\ Moving(r)' /\ OwnStack(r)' /\ Moved(r)'
<1>1. ~Alone(q) /\ ~Ask(q)
  BY DEF Alone, Ask
<1>2. UNCHANGED <<github, repo>> /\ (calm' = calm \/ calm' = [calm EXCEPT ![q] = FALSE])
  BY <1>1 DEF Run, Fetch, Plan, Check, Move, Unstack, Checkout, Stop, repo
<1>3. calm[r]
  BY <1>2 DEF TypeInv, TypeOK
<1>4. /\ pc'[r] = pc[r] /\ here'[r] = here[r] /\ stack'[r] = stack[r] /\ current'[r] = current[r]
      /\ onRemote'[r] = onRemote[r] /\ plan'[r] = plan[r] /\ overlap'[r] = overlap[r] /\ moves'[r] = moves[r]
  <2>1. CASE Plan(q)
    BY <2>1 DEF Plan, Goto, TypeInv, PullInv, Domains
  <2>2. CASE (Check(q) \/ Stop(q)) /\ Ends(q)
    BY <2>2 DEF Ends, Goto
  <2>3. QED
    BY <1>1, <2>1, <2>2 DEF Run, Fetch, Check, Move, Unstack, Checkout, Stop
<1>5. QED
  BY <1>2, <1>3, <1>4, StillUndisturbed

\* A run that nothing disturbs goes on knowing what it is about.
LEMMA OwnRun ==
    ASSUME TypeInv, Undisturbed, NEW r \in Runs, Run(r), calm'[r]
    PROVE  Knows(r)' /\ Fetched(r)' /\ Moving(r)' /\ OwnStack(r)' /\ Moved(r)'
<1>1. /\ DOMAIN pc = Runs /\ DOMAIN plan = Runs /\ DOMAIN moves = Runs /\ DOMAIN stack = Runs
      /\ DOMAIN onRemote = Runs /\ DOMAIN overlap = Runs /\ DOMAIN here = Runs /\ DOMAIN current = Runs /\ DOMAIN tracking = Branches
      /\ DOMAIN local = Branches /\ calm \in [Runs -> BOOLEAN]
  BY DEF TypeInv, TypeOK, PullInv, Domains
<1>2. Alone(r) => calm[r]
  BY DEF Alone
<1>3. calm[r] => Knows(r) /\ Fetched(r) /\ Moving(r) /\ OwnStack(r) /\ Moved(r)
  BY DEF Undisturbed
<1>4. UNCHANGED <<github, stack, onRemote>> => Layers(r)' = Layers(r)
  BY DEF Layers, Names, github
<1> USE <1>1 DEF Goto, Active
<1>5. CASE Ask(r)
  <2>1. PICK w \in Trees : here' = [here EXCEPT ![r] = w] /\ current' = [current EXCEPT ![r] = at[w]]
    BY <1>5 DEF Ask
  <2>2. /\ pc'[r] = "fetch" /\ UNCHANGED <<stacks, head, pr, at>>
        /\ stack'[r] = [number |-> Len(stacks), heads |-> head, merged |-> {b \in Branches : pr[b] = "merged"}]
    BY <1>5 DEF Ask, github, repo
  <2>3. Knows(r)'
    BY <2>1, <2>2 DEF Knows
  <2>4. QED
    BY <2>2, <2>3 DEF Fetched, Moving, OwnStack, Moved
<1>6. CASE Fetch(r)
  <2>1. /\ pc[r] = "fetch" /\ pc'[r] = "plan" /\ calm[r]
        /\ UNCHANGED <<github, at, here, stack, current>>
        /\ onRemote'[r] = {b \in Layers(r) : tip[b] # None}
        /\ \A b \in onRemote'[r] : tracking'[b] = tip[b]
    BY <1>2, <1>6 DEF Fetch, Layers
  <2>2. Layers(r)' = Layers(r)
    BY <2>1 DEF Layers, Names, github
  <2>3. Knows(r)' /\ Fetched(r)'
    BY <1>3, <2>1, <2>2 DEF Knows, Fetched, github
  <2>4. QED
    BY <2>1, <2>3 DEF Moving, OwnStack, Moved
<1>7. CASE Plan(r)
  <2>1. /\ pc[r] = "plan" /\ pc'[r] = "check" /\ calm[r]
        /\ UNCHANGED <<github, repo, here, stack, current, onRemote>>
        /\ plan'[r] = [b \in Layers(r) |->
               [local |-> local[b], target |-> Target(r, b), worktree |-> Worktree(b)]]
        /\ moves'[r] = {b \in Layers(r) : Target(r, b) # None /\ Target(r, b) # local[b]}
        /\ overlap'[r] = Overlapping(r)
    <3>1. calm[r]
      BY <1>7 DEF Plan
    <3>2. QED
      BY <1>7, <3>1 DEF Plan
  <2>2. Layers(r)' = Layers(r) /\ Overlapping(r)' = Overlapping(r) /\ \A b : Target(r, b)' = Target(r, b)
    BY <1>4, <2>1 DEF Overlapping, Target, repo
  <2>3. \A b \in Branches : Worktree(b) # None => at[Worktree(b)] = b
    BY DEF Worktree
  <2>4. Layers(r) \subseteq Branches
    BY DEF Layers
  <2>5. Moving(r)'
    BY <2>1, <2>2, <2>3, <2>4 DEF Moving, repo
  <2>6. Knows(r)' /\ Fetched(r)'
    BY <1>3, <2>1, <2>2 DEF Knows, Fetched, github, repo
  <2>7. QED
    BY <2>1, <2>5, <2>6 DEF OwnStack, Moved
<1>8. CASE Check(r)
  <2>1. CASE Blocked(r)
    BY <1>8, <2>1 DEF Check
  <2>2. CASE ~Blocked(r)
    <3>1. /\ pc[r] = "check" /\ pc'[r] = "move" /\ calm[r]
          /\ UNCHANGED <<github, tracking, local, at, catalog, here, stack, current, onRemote, plan,
                         overlap, moves>>
      BY <1>2, <1>8, <2>2 DEF Check
    <3>2. Layers(r)' = Layers(r) /\ Overlapping(r)' = Overlapping(r) /\ \A b : Target(r, b)' = Target(r, b)
      BY <1>4, <3>1 DEF Overlapping, Target
    <3>3. Knows(r)' /\ Fetched(r)' /\ Moving(r)'
      BY <1>3, <3>1, <3>2 DEF Knows, Fetched, Moving, github
    <3>4. OwnStack(r)'
      BY <2>2, <3>1 DEF OwnStack, Blocked
    <3>5. QED
      BY <3>1, <3>3, <3>4 DEF Moved
  <2>3. QED
    BY <2>1, <2>2
<1>9. CASE Move(r)
  <2>1. /\ pc[r] = "move" /\ calm[r]
        /\ UNCHANGED <<github, tracking, catalog, pc, here, stack, current, onRemote, plan, overlap>>
    BY <1>2, <1>9 DEF Move
  <2>2. PICK b \in moves[r] :
          LET w == plan[r][b].worktree
              start == IF b \in onRemote[r] THEN tracking[b] ELSE plan[r][b].target
          IN  /\ start # None /\ local' = [local EXCEPT ![b] = start]
              /\ at' = IF w = None THEN at ELSE [at EXCEPT ![w] = b]
              /\ moves'[r] = moves[r] \ {b}
    BY <1>9 DEF Move
  <2>3. Layers(r)' = Layers(r) /\ Overlapping(r)' = Overlapping(r) /\ \A d : Target(r, d)' = Target(r, d)
    BY <1>4, <2>1 DEF Overlapping, Target
  <2>4. b \in Layers(r) /\ b \in Branches
    BY <1>3, <2>1 DEF Moving, Layers
  <2>5. at' = at
    BY <1>3, <2>1, <2>2, <2>4 DEF Moving, TypeInv, TypeOK
  <2>6. local'[b] = Target(r, b) /\ \A d \in Branches \ {b} : local'[d] = local[d]
    BY <1>3, <2>1, <2>2, <2>4 DEF Moving, Target
  <2>7. Knows(r)' /\ Fetched(r)' /\ OwnStack(r)'
    BY <1>3, <2>1, <2>3, <2>5 DEF Knows, Fetched, OwnStack, github
  <2>8. Layers(r) \subseteq Branches
    BY DEF Layers
  <2>9. Moving(r)'
    BY <1>3, <2>1, <2>2, <2>3, <2>5, <2>6, <2>8 DEF Moving
  <2>10. QED
    BY <2>1, <2>7, <2>9 DEF Moved
<1>10. CASE Unstack(r)
  <2> DEFINE numbers == {s.number : s \in overlap[r]}
             unnumbered == {s \in catalog : s.number = None /\ at[here[r]] \in DOMAIN s.heads}
  <2>1. /\ pc[r] = "move" /\ pc'[r] = "checkout" /\ calm[r] /\ moves[r] = {}
        /\ UNCHANGED <<github, tracking, local, at, here, stack, current, onRemote>>
        /\ catalog' = {s \in catalog : s.number \notin numbers \ {None}}
                         \ (IF None \in numbers THEN unnumbered ELSE {})
    BY <1>2, <1>10 DEF Unstack
  <2>2. Layers(r)' = Layers(r) /\ \A b : Target(r, b)' = Target(r, b)
    BY <1>4, <2>1 DEF Target
  <2>3. \A s \in Overlapping(r) : s.number \in numbers /\ (s.number = None => s \in unnumbered)
    BY <1>3, <2>1 DEF Moving, OwnStack, Knows, Overlapping
  <2>4. catalog' \cap Overlapping(r) = {}
    BY <2>1, <2>3
  <2>5. Overlapping(r)' = {}
    BY <2>1, <2>2, <2>4 DEF Overlapping
  <2>6. \A b \in Layers(r) : Target(r, b) \in {None, local[b]}
    BY <1>3, <2>1 DEF Moving
  <2>7. Knows(r)' /\ Fetched(r)' /\ Moved(r)'
    BY <1>3, <2>1, <2>2, <2>5, <2>6 DEF Knows, Fetched, Moved, github
  <2>8. QED
    BY <2>1, <2>7 DEF Moving, OwnStack
<1>11. CASE Checkout(r)
  <2>1. pc'[r] = "done"
    BY <1>11 DEF Checkout, Ends
  <2>2. QED
    BY <2>1 DEF Knows, Fetched, Moving, OwnStack, Moved
<1>12. CASE Stop(r)
  BY <1>12 DEF Stop
<1>13. QED
  BY <1>5, <1>6, <1>7, <1>8, <1>9, <1>10, <1>11, <1>12 DEF Run

LEMMA UndisturbedInvariance == Spec => [](TypeInv /\ Undisturbed)
<1>1. TypeInv /\ Undisturbed /\ [Next]_vars => Undisturbed'
  <2> SUFFICES ASSUME TypeInv, Undisturbed, [Next]_vars, NEW r \in Runs, calm'[r]
               PROVE  Knows(r)' /\ Fetched(r)' /\ Moving(r)' /\ OwnStack(r)' /\ Moved(r)'
    BY Zenon DEF Undisturbed
  <2>1. CASE UNCHANGED vars
    BY <2>1, StillUndisturbed DEF vars, runVars
  <2>2. CASE Others
    BY <2>2 DEF Others
  <2>3. CASE \E q \in Runs : Run(q)
    BY <2>3, OtherRun, OwnRun
  <2>4. QED
    BY <2>1, <2>2, <2>3 DEF Next
<1>2. QED
  BY <1>1, TypeInvariance, InitUndisturbed, PTL DEF Spec

\* "Make the local stack match its stack on GitHub" (gs.nu:265): for stacks of
\* any length and any state a run that stopped half-way has left, a run that
\* gets to its end undisturbed has every layer at its tip on GitHub or at the
\* head of its closed PR, and leaves one local stack that tracks them by GitHub's
\* number and with those heads, and no other that has any of them.
THEOREM PulledWhole == Spec => Pulled
<1>1. ASSUME TypeInv, Undisturbed, [Next]_vars, NEW r \in Runs, calm'[r], pc[r] # "done", pc'[r] = "done"
      PROVE  Matches(ToSet(Last(stacks)))
  <2>1. Checkout(r) /\ calm[r]
    <3>1. ASSUME NEW q \in Runs, Run(q), q # r PROVE pc'[r] = pc[r]
      <4>1. pc' = pc \/ \E label : pc' = [pc EXCEPT ![q] = label]
        BY <3>1 DEF Run, Ask, Fetch, Plan, Check, Move, Unstack, Checkout, Stop, Ends, Goto
      <4>2. QED
        BY <1>1, <3>1, <4>1 DEF TypeInv, TypeOK
    <3>2. Run(r)
      BY <1>1, <3>1 DEF Next, Others, runVars, vars
    <3>3. CASE Check(r)
      BY <1>1, <3>3 DEF Check, Goto, TypeInv, TypeOK
    <3>4. CASE Checkout(r)
      BY <1>1, <3>4 DEF Checkout, Alone
    <3>5. ~Stop(r)
      BY <1>1 DEF Stop, TypeInv, TypeOK
    <3>6. QED
      BY <1>1, <3>2, <3>3, <3>4, <3>5 DEF Run, Ask, Fetch, Plan, Move, Unstack, Goto, TypeInv, TypeOK
  <2>2. Knows(r) /\ Fetched(r) /\ Moved(r) /\ pc[r] = "checkout"
    BY <1>1, <2>1 DEF Undisturbed, Checkout
  <2>3. /\ Layers(r) = ToSet(Last(stacks)) /\ Layers(r) \subseteq Branches
        /\ stack[r].number = Len(stacks)
    <3>1. Names(r) = Last(stacks) /\ Last(stacks) \in Seq(Branches) /\ stack[r].number = Len(stacks)
      <4>1. stack[r].number = Len(stacks) /\ Len(stacks) \in DOMAIN stacks
        BY <1>1, <2>2 DEF Knows, Active, TypeInv, Stacked
      <4>2. stacks[Len(stacks)] \in Seq(Branches)
        BY <1>1, <4>1, StackNumbers
      <4>3. QED
        BY <4>1, <4>2 DEF Names, Last
    <3>2. QED
      BY <3>1 DEF Layers, ToSet
  <2> DEFINE made == [b \in Branches |-> IF b \in Layers(r) /\ local[b] = None THEN tip[b] ELSE local[b]]
             heads == [b \in {c \in Layers(r) : made[c] # None} |-> made[b]]
             new == [number |-> stack[r].number, heads |-> heads]
  <2>4. local' = made /\ catalog' = catalog \cup {new}
    BY <2>1, <2>2 DEF Checkout, Imported, Moved
  <2>5. ASSUME NEW b \in Layers(r) PROVE local'[b] = OnGitHub(b)
    <3>1. b \in Branches /\ head[b] # None /\ pr[b] \in {"open", "closed", "merged"}
      BY <1>1, <2>3, <2>5 DEF TypeInv, TypeOK, AreTips
    <3>2. local'[b] = IF local[b] = None THEN tip[b] ELSE local[b]
      BY <2>4, <2>5, <3>1
    <3>3. Target(r, b) = CASE tip[b] # None -> tip[b]
                           [] tip[b] = None /\ pr[b] # "merged" -> head[b]
                           [] OTHER -> None
      BY <2>2, <2>5, <3>1 DEF Target, Knows, Fetched, Active
    <3>4. Target(r, b) \in {None, local[b]}
      BY <2>2, <2>5 DEF Moved
    <3>5. QED
      BY <3>1, <3>2, <3>3, <3>4 DEF OnGitHub
  <2>6. Tracks(new, Layers(r)) /\ new \in catalog'
    <3>1. DOMAIN heads = {b \in Layers(r) : local'[b] # None} /\ \A b \in DOMAIN heads : heads[b] = local'[b]
      BY <2>3, <2>4
    <3>2. QED
      BY <2>3, <2>4, <3>1 DEF Tracks
  <2>7. \A s \in catalog' : DOMAIN s.heads \cap Layers(r) # {} => s = new
    BY <2>2, <2>4 DEF Moved, Overlapping
  <2>8. QED
    BY <2>3, <2>5, <2>6, <2>7, Zenon DEF Matches
<1>2. TypeInv /\ Undisturbed /\ [Next]_vars =>
        \A r \in Runs : calm'[r] /\ pc[r] # "done" /\ pc'[r] = "done" => Matches(ToSet(Last(stacks)))
  BY <1>1
<1>3. QED
  BY <1>2, UndisturbedInvariance, PTL DEF Spec, Pulled
=============================================================================
