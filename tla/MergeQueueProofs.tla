-------------------------- MODULE MergeQueueProofs --------------------------
(***************************************************************************)
(* MergeQueue for any reasons, any number of changes by others and any     *)
(* length of the timeline.  The exit code speaks of the pull request as it *)
(* was fetched; it is still true when the script ends, and ever after,     *)
(* because what the script holds as merged is merged and stays so.         *)
(***************************************************************************)
EXTENDS MergeQueue, TLAPS

\* Heads are counted by changes, and what is known as merged is merged.
HeadCounted == pr.head <= changes
MergedForGood == state # None /\ IsMerged(state) => pr.status = "MERGED"

QueueInv == TypeOK /\ HeadCounted /\ MergedForGood /\ ZeroMeansMerged

\* What the timeline keeps of an event is a sequence of events.
LEMMA RecordedType ==
    ASSUME NEW s \in Seq(Events), NEW e \in Events
    PROVE  Recorded(s, e) \in Seq(Events)
<1>1. CASE Len(s) < Window
  BY <1>1 DEF Recorded
<1>2. CASE ~(Len(s) < Window)
  <2>1. s # <<>>
    BY <1>2, QueueAssumption
  <2>2. Tail(s) \in Seq(Events)
    BY <2>1
  <2>3. QED
    BY <1>2, <2>2 DEF Recorded
<1>3. QED
  BY <1>1, <1>2

LEMMA EventTypes ==
    /\ \A t \in {"added", "auto", "pushed"} : Event(t) \in Events
    /\ \A r \in Reasons : Removed(r) \in Events
BY DEF Events, Event, Removed

LEMMA InitQueueInv == Init => QueueInv
<1> SUFFICES ASSUME Init PROVE QueueInv
  OBVIOUS
<1> USE QueueAssumption
<1>1. pr \in PullRequests /\ pr.head = 0
  BY DEF Init, PullRequests
<1>2. pc = "first" /\ state = None /\ code = 2 /\ merged = FALSE /\ exit = None /\ changes = 0 /\ asked = FALSE
  BY DEF Init
<1>3. merged \in BOOLEAN /\ asked \in BOOLEAN /\ changes \in 0..Changes
  <2>1. merged \in BOOLEAN /\ asked \in BOOLEAN
    BY <1>2, Zenon
  <2>2. changes \in 0..Changes
    BY <1>2
  <2>3. QED
    BY <2>1, <2>2
<1>4. TypeOK
  <2>1. exit \in {0, 2, 3, 4, None} /\ (pc = "done" <=> exit # None) /\ code \in {2, 3}
    BY <1>2
  <2>2. QED
    BY <1>1, <1>2, <1>3, <2>1, Zenon DEF TypeOK
<1>5. QED
  BY <1>1, <1>2, <1>4 DEF QueueInv, HeadCounted, MergedForGood, ZeroMeansMerged

\* The script's steps take what GitHub shows and change it only by merging at
\* the head it saw.
LEMMA ScriptKeeps == QueueInv /\ Script => QueueInv'
<1> SUFFICES ASSUME QueueInv, Script PROVE QueueInv'
  OBVIOUS
<1> USE QueueAssumption DEF QueueInv, TypeOK, HeadCounted, MergedForGood, ZeroMeansMerged, IsMerged,
                            Exits, Goto, Fetched
<1>1. CASE FetchFails
  BY <1>1 DEF FetchFails
<1>2. CASE FirstState
  BY <1>2 DEF FirstState
<1>3. CASE Load
  BY <1>3 DEF Load
<1>4. CASE Merge
  <2>1. pr' \in PullRequests /\ pr'.head = pr.head /\ pr'.status = pr.status
    <3>1. CASE UNCHANGED pr
      BY <3>1
    <3>2. ASSUME NEW q \in BOOLEAN,
                 pr' = [pr EXCEPT !.queued = q \/ @, !.auto = ~q /\ ~pr.queued,
                          !.timeline = Recorded(@, Event(IF q THEN "added" ELSE "auto"))]
          PROVE  pr' \in PullRequests /\ pr'.head = pr.head /\ pr'.status = pr.status
      <4>1. Recorded(pr.timeline, Event(IF q THEN "added" ELSE "auto")) \in Seq(Events)
        BY RecordedType, EventTypes DEF PullRequests
      <4>2. QED
        BY <3>2, <4>1 DEF PullRequests
    <3>3. QED
      BY <1>4, <3>1, <3>2 DEF Merge
  <2>2. QED
    BY <1>4, <2>1 DEF Merge
<1>5. CASE Refresh
  <2>1. merged' \in BOOLEAN
    BY <1>5, Zenon DEF Refresh
  <2>2. /\ UNCHANGED <<code, pr, changes>>
        /\ state' \in {pr, None}
        /\ \/ pc' = "loop" /\ UNCHANGED exit
           \/ pc' = "done" /\ exit' \in {code, 4}
    BY <1>5 DEF Refresh
  <2>3. TypeOK'
    BY <1>5, <2>1, <2>2 DEF Refresh
  <2>4. QED
    BY <1>5, <2>2, <2>3 DEF Refresh
<1>6. CASE Finish
  BY <1>6 DEF Finish
<1>7. CASE Retry
  BY <1>7 DEF Retry, RetryCode
<1>8. CASE Poll
  BY <1>8 DEF Poll
<1>9. QED
  BY <1>1, <1>2, <1>3, <1>4, <1>5, <1>6, <1>7, <1>8 DEF Script

\* GitHub, the author and the maintainers never take a merge back.
LEMMA OthersKeep ==
    ASSUME QueueInv, QueueMerges \/ QueueRemoves \/ RequirementsMet \/ Author
    PROVE  QueueInv'
<1>1. /\ pr \in PullRequests /\ pr.head \in 0..Changes /\ pr.timeline \in Seq(Events)
      /\ changes \in 0..Changes /\ Changes \in Nat /\ pr.head <= changes
  BY QueueAssumption DEF QueueInv, TypeOK, HeadCounted, PullRequests
<1>2. /\ \A t \in {"added", "pushed"} : Recorded(pr.timeline, Event(t)) \in Seq(Events)
      /\ \A r \in Reasons : Recorded(pr.timeline, Removed(r)) \in Seq(Events)
  BY <1>1, RecordedType, EventTypes
<1>3. CASE QueueMerges \/ RequirementsMet
  <2>1. pr' \in PullRequests /\ pr'.head = pr.head /\ (pr.status = "MERGED" => pr'.status = "MERGED")
    BY <1>1, <1>2, <1>3 DEF QueueMerges, RequirementsMet, PullRequests
  <2>2. UNCHANGED <<scriptVars, changes, asked>>
    BY <1>3 DEF QueueMerges, RequirementsMet
  <2>3. QED
    BY <2>1, <2>2 DEF QueueInv, TypeOK, HeadCounted, MergedForGood, ZeroMeansMerged, IsMerged, scriptVars
<1>4. CASE QueueRemoves \/ Author
  <2>1. changes' = changes + 1 /\ changes < Changes
    BY <1>4 DEF QueueRemoves, Author
  <2>2. changes' \in 0..Changes /\ pr.head + 1 \in 0..Changes /\ pr.head + 1 <= changes' /\ pr.head <= changes'
    BY <1>1, <2>1
  <2>3. pr' \in PullRequests /\ pr'.head \in {pr.head, pr.head + 1}
    <3>1. ASSUME NEW t \in Seq(Events),
                 \/ pr' = [pr EXCEPT !.queued = FALSE, !.timeline = t]
                 \/ pr' = [pr EXCEPT !.queued = TRUE, !.timeline = t]
                 \/ pr' = [pr EXCEPT !.head = @ + 1, !.queued = FALSE, !.conflicting = FALSE, !.timeline = t]
          PROVE  pr' \in PullRequests /\ pr'.head \in {pr.head, pr.head + 1}
      BY <1>1, <2>2, <3>1 DEF PullRequests
    <3>2. CASE QueueRemoves
      BY <1>2, <3>1, <3>2 DEF QueueRemoves
    <3>3. CASE Author
      <4>1. ASSUME \/ pr' = [pr EXCEPT !.status = IF @ = "OPEN" THEN "CLOSED" ELSE "OPEN", !.queued = FALSE, !.auto = FALSE]
                   \/ pr' = [pr EXCEPT !.draft = ~@, !.queued = FALSE, !.auto = FALSE]
                   \/ pr' = [pr EXCEPT !.conflicting = TRUE, !.queued = FALSE]
                   \/ pr' = [pr EXCEPT !.enabled = FALSE, !.queued = FALSE, !.auto = FALSE]
                   \/ pr' = [pr EXCEPT !.auto = FALSE]
                   \/ pr' = [pr EXCEPT !.status = "MERGED", !.queued = FALSE, !.auto = FALSE]
            PROVE  pr' \in PullRequests /\ pr'.head = pr.head
        BY <1>1, <4>1 DEF PullRequests
      <4>2. QED
        BY <1>1, <1>2, <3>1, <3>3, <4>1 DEF Author
    <3>4. QED
      BY <1>4, <3>2, <3>3
  <2>4. pr.status = "MERGED" => pr'.status = "MERGED"
    BY <1>1, <1>4 DEF QueueRemoves, Author, PullRequests
  <2>5. pr'.head <= changes'
    BY <2>2, <2>3
  <2>6. UNCHANGED scriptVars /\ asked' \in BOOLEAN
    <3>1. UNCHANGED scriptVars /\ asked' \in {asked, FALSE}
      BY <1>4 DEF QueueRemoves, Author
    <3>2. asked \in BOOLEAN
      BY DEF QueueInv, TypeOK
    <3>3. QED
      BY <3>1, <3>2
  <2>7. QED
    BY <2>2, <2>3, <2>4, <2>5, <2>6
       DEF QueueInv, TypeOK, HeadCounted, MergedForGood, ZeroMeansMerged, IsMerged, scriptVars
<1>5. QED
  BY <1>3, <1>4

LEMMA Invariance == Spec => []QueueInv
<1>1. Init => QueueInv
  BY InitQueueInv
<1>2. QueueInv /\ [Next]_vars => QueueInv'
  <2>1. CASE UNCHANGED vars
    BY <2>1 DEF QueueInv, TypeOK, HeadCounted, MergedForGood, ZeroMeansMerged, vars
  <2>2. QED
    BY <2>1, ScriptKeeps, OthersKeep DEF Next
<1>3. QED
  BY <1>1, <1>2, PTL DEF Spec

\* Every variable has its type, and the script has an exit code just when it is
\* done, whatever others do to the pull request.
THEOREM TypeCorrect == Spec => []TypeOK
BY Invariance, PTL DEF QueueInv

\* "exit 0" of mergequeue.nu is never a mistake: the pull request is merged when
\* the script says so (lines 381-384 and 394-398).
THEOREM ZeroIsMerged == Spec => []ZeroMeansMerged
BY Invariance, PTL DEF QueueInv

\* A request is repeated only for a removal that nothing but CI explains and
\* that is the newest event the script was told of (lines 294-358): other removals,
\* for whatever mixture of reasons or an unknown one, are never retried.
THEOREM OnlyCIRetried == Spec => RetriesOnlyCI
<1>1. ASSUME QueueInv, [Next]_vars, pc = "loop", pc' = "load"
      PROVE  OnlyCI(state)
  <2>1. Retry
    BY <1>1 DEF Next, Script, vars, scriptVars, FetchFails, FirstState, Load, Merge, Refresh, Finish, Poll,
                QueueMerges, QueueRemoves, RequirementsMet, Author, Exits, Goto
  <2>2. state.timeline \in Seq(Events)
    BY <1>1, <2>1 DEF QueueInv, TypeOK, Retry, PullRequests
  <2>3. state.timeline # <<>> /\ LatestEvent(state).type = "removed"
    BY <2>1 DEF Retry, Waits, WasRemoved
  <2>4. LatestEvent(state).reason = {"retry"}
    <3>1. LatestEvent(state) \in Events
      BY <2>2, <2>3 DEF LatestEvent
    <3>2. LatestEvent(state).reason \subseteq Lists
      BY <3>1, QueueAssumption DEF Events, Event, Removed
    <3>3. Retryable(LatestEvent(state).reason)
      BY <2>1 DEF Retry
    <3>4. QED
      BY <3>2, <3>3 DEF Retryable, Lists
  <2>5. QED
    BY <2>3, <2>4 DEF LatestEvent, OnlyCI
<1>2. QueueInv /\ [Next]_vars => [pc = "loop" /\ pc' = "load" => OnlyCI(state)]_vars
  BY <1>1
<1>3. QED
  BY <1>2, Invariance, PTL DEF RetriesOnlyCI, Spec

-----------------------------------------------------------------------------
\* The newest event is the one recorded last.
LEMMA RecordedLast ==
    ASSUME NEW s \in Seq(Events), NEW e \in Events
    PROVE  Recorded(s, e) # <<>> /\ Recorded(s, e)[Len(Recorded(s, e))] = e
<1>1. ASSUME NEW t \in Seq(Events), Recorded(s, e) = Append(t, e)
      PROVE  Recorded(s, e) # <<>> /\ Recorded(s, e)[Len(Recorded(s, e))] = e
  <2>1. Len(Append(t, e)) = Len(t) + 1 /\ Append(t, e)[Len(t) + 1] = e /\ Append(t, e) # <<>>
    OBVIOUS
  <2>2. QED
    BY <1>1, <2>1
<1>2. CASE Len(s) < Window
  BY <1>1, <1>2 DEF Recorded
<1>3. CASE ~(Len(s) < Window)
  <2>1. s # <<>>
    BY <1>3, QueueAssumption
  <2>2. Tail(s) \in Seq(Events)
    BY <2>1
  <2>3. QED
    BY <1>1, <1>3, <2>2 DEF Recorded
<1>4. QED
  BY <1>2, <1>3

LEMMA RecordedIsNoRemoval ==
    ASSUME NEW s \in Seq(Events), NEW t \in {"added", "auto", "pushed"},
           NEW p, p.timeline = Recorded(s, Event(t))
    PROVE  ~WasRemoved(p)
<1>1. Event(t) \in Events
  BY DEF Events
<1>2. p.timeline[Len(p.timeline)] = Event(t)
  BY <1>1, RecordedLast
<1>3. QED
  BY <1>2 DEF WasRemoved, LatestEvent, Event

\* After a request of its own the newest event is no removal, neither on GitHub
\* nor as the script was told, until the queue removes the pull request.
AskedFor ==
    /\ asked => ~WasRemoved(pr)
    /\ asked /\ pc = "loop" /\ state # None => ~WasRemoved(state)
    /\ asked => pc \notin {"first", "load", "merge"}

LEMMA AskedScript == QueueInv /\ AskedFor /\ Script => AskedFor'
<1> SUFFICES ASSUME QueueInv, AskedFor, Script, asked' PROVE AskedFor'
  BY DEF AskedFor
<1>1. CASE Merge
  <2>1. pc' = "refresh" /\ pc = "merge" /\ ~asked
    BY <1>1 DEF Merge, Goto, AskedFor
  <2>2. PICK q \in BOOLEAN :
          pr' = [pr EXCEPT !.queued = q \/ @, !.auto = ~q /\ ~pr.queued,
                   !.timeline = Recorded(@, Event(IF q THEN "added" ELSE "auto"))]
    BY <1>1, <2>1 DEF Merge
  <2>3. pr.timeline \in Seq(Events)
        /\ pr'.timeline = Recorded(pr.timeline, Event(IF q THEN "added" ELSE "auto"))
    BY <2>2 DEF QueueInv, TypeOK, PullRequests
  <2>4. ~WasRemoved(pr')
    BY <2>3, RecordedIsNoRemoval
  <2>5. WasRemoved(pr)' = WasRemoved(pr')
    BY DEF WasRemoved, LatestEvent
  <2>6. QED
    BY <2>1, <2>4, <2>5 DEF AskedFor
<1>2. CASE Refresh \/ Poll
  <2>1. asked /\ pr' = pr /\ (state' = pr \/ state' = None) /\ pc' \notin {"first", "load", "merge"}
    BY <1>2 DEF Refresh, Poll, Fetched, Goto, Exits
  <2>2. WasRemoved(pr)' = WasRemoved(pr) /\ (state' = pr => WasRemoved(state)' = WasRemoved(pr))
    BY <2>1 DEF WasRemoved, LatestEvent
  <2>3. QED
    BY <2>1, <2>2 DEF AskedFor
<1>3. CASE FirstState \/ Load
  BY <1>3 DEF FirstState, Load, AskedFor
<1>4. CASE Finish \/ FetchFails
  <2>1. asked /\ pr' = pr /\ pc' = "done"
    BY <1>4 DEF Finish, FetchFails, Exits
  <2>2. WasRemoved(pr)' = WasRemoved(pr)
    BY <2>1 DEF WasRemoved, LatestEvent
  <2>3. QED
    BY <2>1, <2>2 DEF AskedFor
<1>5. CASE Retry
  BY <1>5 DEF Retry, Waits, AskedFor
<1>6. QED
  BY <1>1, <1>2, <1>3, <1>4, <1>5 DEF Script

LEMMA AskedOthers ==
    ASSUME QueueInv, AskedFor, QueueMerges \/ QueueRemoves \/ RequirementsMet \/ Author
    PROVE  AskedFor'
<1> SUFFICES ASSUME asked' PROVE AskedFor'
  BY DEF AskedFor
<1>1. pr.timeline \in Seq(Events) /\ pr \in PullRequests
  BY DEF QueueInv, TypeOK, PullRequests
<1>2. asked /\ UNCHANGED scriptVars
  BY DEF QueueMerges, QueueRemoves, RequirementsMet, Author
<1>3. ~QueueRemoves
  BY DEF QueueRemoves
<1>4. \/ pr'.timeline = pr.timeline
      \/ \E t \in {"added", "auto", "pushed"} : pr'.timeline = Recorded(pr.timeline, Event(t))
  <2>1. CASE QueueMerges \/ RequirementsMet
    BY <1>1, <2>1 DEF QueueMerges, RequirementsMet, PullRequests
  <2>2. CASE Author
    BY <1>1, <2>2 DEF Author, PullRequests
  <2>3. QED
    BY <1>3, <2>1, <2>2
<1>5. ~WasRemoved(pr')
  <2>1. CASE pr'.timeline = pr.timeline
    BY <1>2, <2>1 DEF AskedFor, WasRemoved, LatestEvent
  <2>2. CASE \E t \in {"added", "auto", "pushed"} : pr'.timeline = Recorded(pr.timeline, Event(t))
    BY <1>1, <2>2, RecordedIsNoRemoval
  <2>3. QED
    BY <1>4, <2>1, <2>2
<1>6. WasRemoved(pr)' = WasRemoved(pr') /\ WasRemoved(state)' = WasRemoved(state)
  BY <1>2 DEF WasRemoved, LatestEvent, scriptVars
<1>7. QED
  BY <1>2, <1>5, <1>6 DEF AskedFor, scriptVars

\* "gh pr merge" may take effect and report a failure (lines 271-285), and the
\* state acted on is as old as the sleep: whatever others do meanwhile, no request
\* follows another of the run that took effect before the queue removed the pull
\* request again.
THEOREM NoSecondRequest == Spec => []OncePerRemoval
<1>1. Init => AskedFor
  BY DEF Init, AskedFor
<1>2. QueueInv /\ AskedFor /\ [Next]_vars => AskedFor'
  <2>1. ASSUME AskedFor, UNCHANGED vars PROVE AskedFor'
    BY <2>1 DEF AskedFor, WasRemoved, LatestEvent, vars
  <2>2. QED
    BY <2>1, AskedScript, AskedOthers DEF Next
<1>3. AskedFor => OncePerRemoval
  BY DEF AskedFor, OncePerRemoval
<1>4. QED
  BY Invariance, <1>1, <1>2, <1>3, PTL DEF Spec
=============================================================================
