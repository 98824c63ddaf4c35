----------------------------- MODULE MergeQueue -----------------------------
(***************************************************************************)
(* mergequeue.nu: one run of the script that brings a pull request into    *)
(* GitHub's merge queue and waits for the merge.  The pull request changes *)
(* between any two of the script's requests: GitHub merges it, removes it  *)
(* from the queue or queues it when its checks pass; its author pushes,    *)
(* closes, converts, disarms or queues it (at most Changes times).         *)
(*                                                                         *)
(* A removal's reason is the set of the word lists it matches              *)
(* (is-retryable-removal-reason); the timeline holds the events asked for. *)
(***************************************************************************)
EXTENDS Naturals, Sequences

CONSTANTS
    Reasons,   \* removal reasons: subsets of Lists
    Changes,   \* bound: changes made by others
    Window,    \* bound: events in the timeline
    None

Lists == {"manual", "policy", "conflict", "retry"}

ASSUME QueueAssumption ==
    /\ Reasons \subseteq SUBSET Lists /\ Changes \in Nat /\ Window \in Nat \ {0}
    /\ None \notin {0, 2, 3, 4}

VARIABLES
    pc,        \* "first", "load", "merge", "refresh", "loop" or "done"
    state,     \* the pull request as fetched last; None when there is none
    code,      \* failure_code of enqueue-or-arm
    merged,    \* whether gh pr merge succeeded, as far as the script knows
    exit,      \* exit code; None while it runs
    pr,        \* GitHub: the pull request
    changes,   \* changes made by others so far
    asked      \* history: a request of this run took effect, and the queue
               \* has not removed the pull request since

vars == <<pc, state, code, merged, exit, pr, changes, asked>>
scriptVars == <<pc, state, code, merged, exit>>

Removed(r) == [type |-> "removed", reason |-> r]
Event(t) == [type |-> t, reason |-> {}]
Events == {Event(t) : t \in {"added", "auto", "pushed"}} \cup {Removed(r) : r \in Reasons}

PullRequests ==
    [status : {"OPEN", "CLOSED", "MERGED"}, draft : BOOLEAN, enabled : BOOLEAN, conflicting : BOOLEAN,
     queued : BOOLEAN, auto : BOOLEAN, head : 0..Changes, timeline : Seq(Events)]

Init ==
    /\ pc = "first" /\ state = None /\ code = 2 /\ merged = FALSE /\ exit = None
    /\ \E s \in {"OPEN", "MERGED"}, d \in BOOLEAN :
         pr = [status |-> s, draft |-> d, enabled |-> TRUE, conflicting |-> FALSE,
               queued |-> FALSE, auto |-> FALSE, head |-> 0, timeline |-> <<>>]
    /\ changes = 0 /\ asked = FALSE

\* The query asks for the last events only: ten in the code, Window here.
Recorded(s, e) == IF Len(s) < Window THEN Append(s, e) ELSE Append(Tail(s), e)

-----------------------------------------------------------------------------
Exits(c) == pc' = "done" /\ exit' = c
Goto(label) == pc' = label /\ UNCHANGED exit

\* assert-initial-eligibility and the checks at the head of the loop are the
\* same conditions in the same order.
Ineligible(s) == s.status # "OPEN" \/ s.draft \/ ~s.enabled \/ s.conflicting

\* fetch-pr-state: the pull request, or none when GitHub answers with no data;
\* other errors end the run.
Fetched == {pr, None}
IsClosed(s) == s.status # "OPEN"        \* fault: closed is taken for merged
IsMerged(s) == s.status = "MERGED"

FirstState ==
    /\ pc = "first"
    /\ state' \in Fetched
    /\ \/ state' = None /\ Exits(2)
       \/ state' # None /\ IsMerged(pr) /\ Exits(0)
       \/ state' # None /\ ~IsMerged(pr) /\ Ineligible(pr) /\ Exits(2)
       \/ state' # None /\ ~IsMerged(pr) /\ ~Ineligible(pr) /\ Goto("load")
    /\ UNCHANGED <<code, merged, pr, changes, asked>>

\* enqueue-or-arm: load the state, merge at its head, look again.
Load ==
    /\ pc = "load"
    /\ state' \in Fetched
    /\ \/ state' = None /\ Exits(code)
       \/ state' # None /\ Goto(IF IsMerged(pr) THEN "loop" ELSE "merge")
    /\ UNCHANGED <<code, merged, pr, changes, asked>>

Accepts == pr.status = "OPEN" /\ pr.head = state.head

\* gh pr merge queues the pull request or, while requirements are missing,
\* arms auto-merge; its answer may be lost.
Merge ==
    /\ pc = "merge"
    /\ \/ /\ Accepts /\ ~pr.draft /\ ~pr.conflicting /\ pr.enabled
          /\ \E q \in BOOLEAN :
               pr' = [pr EXCEPT !.queued = q \/ @, !.auto = ~q /\ ~pr.queued,
                        !.timeline = Recorded(@, Event(IF q THEN "added" ELSE "auto"))]
          /\ merged' \in BOOLEAN
          /\ asked' = TRUE
       \/ merged' = FALSE /\ UNCHANGED <<pr, asked>>
    /\ Goto("refresh")
    /\ UNCHANGED <<state, code, changes>>

TookEffect(s) == IsMerged(s) \/ s.queued \/ s.auto

Refresh ==
    /\ pc = "refresh"
    /\ state' \in Fetched
    /\ \/ state' # None /\ (TookEffect(pr) \/ merged) /\ Goto("loop")
       \/ state' # None /\ ~TookEffect(pr) /\ ~merged /\ Exits(code)
       \/ state' = None /\ Exits(IF merged THEN 4 ELSE code)
    /\ merged' = FALSE
    /\ UNCHANGED <<code, pr, changes, asked>>

-----------------------------------------------------------------------------
\* latest-queue-event and is-retryable-removal-reason.
OldestEvent(s) == Head(s.timeline)      \* fault: first for last
LatestEvent(s) == s.timeline[Len(s.timeline)]
CIFirst(r) == "retry" \in r             \* fault: the word lists in another order
Retryable(r) == "retry" \in r /\ r \cap {"manual", "policy", "conflict"} = {}

NotAskedFor(s) == FALSE                 \* fault: the event is not in the query
WasRemoved(s) == s.timeline # <<>> /\ LatestEvent(s).type = "removed"

Waits(s) == s.queued \/ s.auto \/ ~WasRemoved(s)

\* One round of the loop.  Whatever is not decided is polled for again; the
\* sleep before a poll or a retry is where others act.
Finish ==
    /\ pc = "loop"
    /\ \/ state = None /\ Exits(3)
       \/ state # None /\ IsMerged(state) /\ Exits(0)
       \/ state # None /\ ~IsMerged(state) /\ Ineligible(state) /\ Exits(3)
       \/ /\ state # None /\ ~Ineligible(state) /\ ~Waits(state)
          /\ ~Retryable(LatestEvent(state).reason)
          /\ Exits(3)
    /\ UNCHANGED <<state, code, merged, pr, changes, asked>>

RetryCode == 3

Retry ==
    /\ pc = "loop" /\ state # None /\ ~Ineligible(state) /\ ~Waits(state)
    /\ Retryable(LatestEvent(state).reason)
    /\ code' = RetryCode
    /\ Goto("load")
    /\ UNCHANGED <<state, merged, pr, changes, asked>>

Poll ==
    /\ pc = "loop" /\ state # None /\ ~Ineligible(state) /\ Waits(state)
    /\ state' \in Fetched
    /\ UNCHANGED <<pc, code, merged, exit, pr, changes, asked>>

\* Any request for the state may fail.
FetchFails ==
    /\ pc \in {"first", "load", "refresh", "loop"}
    /\ pc = "loop" => state # None /\ ~Ineligible(state) /\ Waits(state)
    /\ Exits(4)
    /\ UNCHANGED <<state, code, merged, pr, changes, asked>>

Script == FetchFails \/ FirstState \/ Load \/ Merge \/ Refresh \/ Finish \/ Retry \/ Poll

-----------------------------------------------------------------------------
\* GitHub: a queued pull request is merged or removed for a reason; an armed
\* one is queued when its requirements are met.
QueueMerges ==
    /\ pr.status = "OPEN" /\ pr.queued
    /\ pr' = [pr EXCEPT !.status = "MERGED", !.queued = FALSE, !.auto = FALSE]
    /\ UNCHANGED <<scriptVars, changes, asked>>

QueueRemoves ==
    /\ pr.queued
    /\ \E r \in Reasons : pr' = [pr EXCEPT !.queued = FALSE, !.timeline = Recorded(@, Removed(r))]
    /\ changes < Changes /\ changes' = changes + 1
    /\ asked' = FALSE
    /\ UNCHANGED scriptVars

RequirementsMet ==
    /\ pr.status = "OPEN" /\ pr.auto /\ ~pr.draft /\ ~pr.conflicting /\ pr.enabled
    /\ pr' = [pr EXCEPT !.auto = FALSE, !.queued = TRUE, !.timeline = Recorded(@, Event("added"))]
    /\ UNCHANGED <<scriptVars, changes, asked>>

\* The author and the maintainers.  Only a force push has an event of its own,
\* and taking back auto-merge has none that the query asks for.
Author ==
    /\ pr.status # "MERGED"
    /\ changes < Changes /\ changes' = changes + 1
    /\ \/ \E t \in {pr.timeline, Recorded(pr.timeline, Event("pushed"))} :
            pr' = [pr EXCEPT !.head = @ + 1, !.queued = FALSE, !.conflicting = FALSE, !.timeline = t]
       \/ pr' = [pr EXCEPT !.status = IF @ = "OPEN" THEN "CLOSED" ELSE "OPEN", !.queued = FALSE, !.auto = FALSE]
       \/ pr' = [pr EXCEPT !.draft = ~@, !.queued = FALSE, !.auto = FALSE]
       \/ pr' = [pr EXCEPT !.conflicting = TRUE, !.queued = FALSE]
       \/ pr' = [pr EXCEPT !.enabled = FALSE, !.queued = FALSE, !.auto = FALSE]
       \/ pr' = [pr EXCEPT !.auto = FALSE]
       \/ /\ pr.status = "OPEN" /\ ~pr.draft /\ ~pr.conflicting /\ pr.enabled /\ ~pr.queued
          /\ pr' = [pr EXCEPT !.queued = TRUE, !.timeline = Recorded(@, Event("added"))]
       \/ pr.status = "OPEN" /\ pr' = [pr EXCEPT !.status = "MERGED", !.queued = FALSE, !.auto = FALSE]
    /\ UNCHANGED <<scriptVars, asked>>

Next == Script \/ QueueMerges \/ QueueRemoves \/ RequirementsMet \/ Author

Spec == Init /\ [][Next]_vars

\* The script runs on, and a poll that keeps being sent is answered one day.
\* It may fail at any request but need not.
FairSpec ==
    /\ Spec
    /\ WF_vars(FirstState \/ Load \/ Merge \/ Refresh \/ Finish \/ Retry)
    /\ WF_vars(Poll /\ state' = pr)

-----------------------------------------------------------------------------
TypeOK ==
    /\ pc \in {"first", "load", "merge", "refresh", "loop", "done"}
    /\ pr \in PullRequests /\ state \in PullRequests \cup {None}
    /\ code \in {2, 3} /\ merged \in BOOLEAN
    /\ exit \in {0, 2, 3, 4, None} /\ (pc = "done" <=> exit # None)
    /\ changes \in 0..Changes /\ asked \in BOOLEAN

\* Exit code 0 says that the pull request is merged (lines 381-384, 394-398): nothing
\* that closed, left the queue or went away in between is reported so.
ZeroMeansMerged == exit = 0 => pr.status = "MERGED"

\* A request is repeated only when the newest event the script was told of is a
\* removal, whose reason is in CI's word list and in none of those of a user, a
\* policy or a conflict (lines 294-358): no removal that something followed, and
\* none for an unknown reason.
OnlyCI(s) ==
    /\ s.timeline # <<>>
    /\ LET e == s.timeline[Len(s.timeline)] IN e.type = "removed" /\ e.reason = {"retry"}
RetriesOnlyCI == [][pc = "loop" /\ pc' = "load" => OnlyCI(state)]_vars

\* Each removal is answered once (lines 446-454): after a request of its own took
\* effect, whatever its answer was, the script makes no other before the queue
\* removed the pull request again, although it acts on a timeline that was
\* fetched a while ago and that others add to.
OncePerRemoval == pc \in {"load", "merge"} => ~asked

\* The script ends once the pull request stays merged or closed, and an open one
\* whose newest event is a removal for CI's sake does not lie outside the queue
\* for ever: it is asked for again, others move it, or the script ends.  It does
\* wait for ever for one that is open, not queued and not removed, as after
\* auto-merge was taken back, which no event tells (lines 462-465).
Lying == pr.status = "OPEN" /\ ~pr.queued /\ ~pr.auto /\ OnlyCI(pr)
EndsOrAsksAgain ==
    /\ <>[](pr.status # "OPEN") => <>(exit # None)
    /\ Lying ~> ~Lying \/ exit # None
=============================================================================
