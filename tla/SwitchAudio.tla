----------------------------- MODULE SwitchAudio -----------------------------
(***************************************************************************)
(* The switchaudio command (pkgs/switchaudio): every invocation is one OS  *)
(* process, and invocations overlap.  A "waiter" (--wait) queues itself in *)
(* the pending-switch file and retries under a file lock until its sink    *)
(* appears, its deadline passes or a later invocation takes the file over. *)
(* A "manual" invocation (no --wait) empties the file and then switches    *)
(* without the lock, by ALSA name or through the fuzzel picker.            *)
(*                                                                         *)
(* The lock is flock(2): the kernel frees it when its holder is killed.    *)
(* Commands to PipeWire (pactl, wpctl) are one step each, so devices come  *)
(* and go, and other invocations act, between any two of them.             *)
(***************************************************************************)
EXTENDS Integers

CONSTANTS
    Waiters,    \* invocations with --wait
    Manuals,    \* invocations without --wait
    Sinks,      \* ALSA names
    Removable,  \* the sinks whose device can come and go, the rest stay
    Profiles,   \* card profiles
    ProfileOf,  \* the card profile a sink needs to exist, NoProfile for none
    NoProfile,
    None,       \* no process, no sink
    Retries     \* bound: how often a waiter sleeps before its deadline

Procs == Waiters \cup Manuals

ASSUME SwitchAudioAssumption ==
    /\ Waiters \cap Manuals = {}
    /\ None \notin Procs
    /\ None \notin Sinks
    /\ Removable \subseteq Sinks
    /\ NoProfile \notin Profiles
    /\ ProfileOf \in [Sinks -> Profiles \cup {NoProfile}]
    /\ Retries \in Nat

VARIABLES
    pc,       \* where each invocation is
    sink,     \* the sink it was asked for, or picked
    left,     \* sleeps left before its deadline
    outcome,  \* how it ended
    lock,     \* holder of switchaudio-pending.lock
    pending,  \* owner of the id in switchaudio-pending
    plugged,  \* PipeWire: connected devices
    card,     \* PipeWire: the card's active profile
    default,  \* PipeWire: the sink wpctl last made the default, None for
              \* the default found at the start
    setter,   \* history: the invocation that set it
    stamp,    \* history: arrival number at the pending file, 0 before
    serial    \* history: arrivals so far

procVars == <<sink, left>>
audioVars == <<card, default, setter>>
vars == <<pc, sink, left, outcome, lock, pending, plugged, card, default,
          setter, stamp, serial>>

\* Steps a waiter takes while it holds the lock.
Locked == {"write", "card", "list", "set", "unlink"}
PCs == {"new", "queue", "attempt", "retry", "finish", "cancel", "pick",
        "choose", "picked", "verify", "done"} \cup Locked
Outcomes == {"none", "switched", "superseded", "timeout", "error",
             "cancelled", "killed"}

\* A sink is listed when its device is connected and its profile is active.
Available == {s \in plugged : ProfileOf[s] \in {NoProfile, card}}

-----------------------------------------------------------------------------
Init ==
    /\ pc = [p \in Procs |-> "new"]
    /\ sink = [p \in Procs |-> None]
    /\ left = [p \in Procs |-> Retries]
    /\ outcome = [p \in Procs |-> "none"]
    /\ lock = None
    /\ pending = None
    /\ plugged = Sinks \ Removable
    /\ card = NoProfile
    /\ default = None
    /\ setter = None
    /\ stamp = [p \in Procs |-> 0]
    /\ serial = 0

Goto(p, label) == pc' = [pc EXCEPT ![p] = label]
Exit(p, how) == outcome' = [outcome EXCEPT ![p] = how]
Arrive(p) ==
    /\ serial' = serial + 1
    /\ stamp' = [stamp EXCEPT ![p] = serial + 1]

\* main: the arguments choose waiter, manual switch or picker.
Start(p) ==
    /\ pc[p] = "new"
    /\ \/ /\ \E s \in Sinks : sink' = [sink EXCEPT ![p] = s]
          /\ Goto(p, IF p \in Waiters THEN "queue" ELSE "cancel")
       \/ /\ p \in Manuals
          /\ sink' = sink
          /\ Goto(p, "cancel")
    /\ UNCHANGED <<left, outcome, lock, pending, plugged, audioVars, stamp, serial>>

\* queue_pending_switch: write_text truncates the file, then writes the id.
Queue(p) ==
    /\ pc[p] = "queue"
    /\ lock = None
    /\ lock' = p
    /\ pending' = None
    /\ Arrive(p)
    /\ Goto(p, "write")
    /\ UNCHANGED <<procVars, outcome, plugged, audioVars>>

WriteRequest(p) ==
    /\ pc[p] = "write"
    /\ pending' = p
    /\ lock' = None
    /\ Goto(p, "attempt")
    /\ UNCHANGED <<procVars, outcome, plugged, audioVars, stamp, serial>>

\* read_pending_switch() == request_id, read under the lock.
OwnsAnyway(p) == TRUE                   \* fault: the file is not read again
Owns(p) == pending = p

\* One round of wait_for_requested_sink: lock, then check the file is mine.
Attempt(p) ==
    /\ pc[p] = "attempt"
    /\ lock = None
    /\ IF Owns(p)
         THEN /\ lock' = p
              /\ Goto(p, "card")
              /\ outcome' = outcome
         ELSE /\ lock' = lock
              /\ Goto(p, "finish")
              /\ Exit(p, "superseded")
    /\ UNCHANGED <<procVars, pending, plugged, audioVars, stamp, serial>>

\* switch_default_sink_by_alsa_name, first command; the card and profile
\* arguments are optional.
SetCardProfile(p) ==
    /\ pc[p] = "card"
    /\ card' \in {card} \cup ({ProfileOf[sink[p]]} \ {NoProfile})
    /\ Goto(p, "list")
    /\ UNCHANGED <<procVars, outcome, lock, pending, plugged, default, setter, stamp, serial>>

\* get_sink_by_alsa_name.  AudioSinkNotFoundError sends a waiter to its
\* deadline check and ends a manual switch.
FindSink(p) ==
    /\ pc[p] = "list"
    /\ \/ /\ sink[p] \in Available
          /\ Goto(p, "set")
          /\ UNCHANGED <<outcome, lock>>
       \/ /\ sink[p] \notin Available
          /\ p \in Waiters
          /\ lock' = None
          /\ Goto(p, "retry")
          /\ UNCHANGED outcome
       \/ /\ sink[p] \notin Available
          /\ p \in Manuals
          /\ Goto(p, "done")
          /\ Exit(p, "error")
          /\ UNCHANGED lock
    /\ UNCHANGED <<procVars, pending, plugged, audioVars, stamp, serial>>

\* set_default_sink; wpctl refuses a sink that went away since it was listed.
SetDefault(p) ==
    /\ sink[p] \in Available
    /\ default' = sink[p]
    /\ setter' = p
    /\ \/ /\ pc[p] = "set" /\ p \in Waiters
          /\ Goto(p, "unlink")
          /\ UNCHANGED outcome
       \/ /\ pc[p] = "set" /\ p \in Manuals
          /\ Goto(p, "done")
          /\ Exit(p, "switched")
       \/ /\ pc[p] = "picked"
          /\ Goto(p, "verify")
          /\ UNCHANGED outcome
    /\ UNCHANGED <<procVars, lock, pending, plugged, card, stamp, serial>>

\* The waiter's success branch: unlink the request, still under the lock.
Unlink(p) ==
    /\ pc[p] = "unlink"
    /\ pending' = None
    /\ lock' = None
    /\ Goto(p, "finish")
    /\ Exit(p, "switched")
    /\ UNCHANGED <<procVars, plugged, audioVars, stamp, serial>>

\* What a sleep leaves of the time to the deadline: a slow command can use
\* up several retry intervals at once.
DeadlineMoves(p) == {left[p]}           \* fault: deadline from every round
Remaining(p) == {n \in 0..Retries : n < left[p]}

\* After the lock is released: raise on timeout, else sleep and try again.
Retry(p) ==
    /\ pc[p] = "retry"
    /\ \/ /\ left[p] = 0
          /\ Goto(p, "finish")
          /\ Exit(p, "timeout")
          /\ UNCHANGED left
       \/ /\ \E n \in Remaining(p) : left' = [left EXCEPT ![p] = n]
          /\ Goto(p, "attempt")
          /\ UNCHANGED outcome
    /\ UNCHANGED <<sink, lock, pending, plugged, audioVars, stamp, serial>>

\* clear_pending_switch(request_id): the file afterwards.
ClearAnyId(p) == None                   \* fault: the id is not compared
FileAfterClear(p) == IF pending = p THEN None ELSE pending

\* main's finally: clear_pending_switch(request_id) drops only its own id.
Finish(p) ==
    /\ pc[p] = "finish"
    /\ lock = None
    /\ pending' = FileAfterClear(p)
    /\ Goto(p, "done")
    /\ UNCHANGED <<procVars, outcome, lock, plugged, audioVars, stamp, serial>>

\* clear_pending_switch() of a manual invocation: whoever waits is cancelled.
Cancel(p) ==
    /\ pc[p] = "cancel"
    /\ lock = None
    /\ pending' = None
    /\ Arrive(p)
    /\ Goto(p, IF sink[p] = None THEN "pick" ELSE "card")
    /\ UNCHANGED <<procVars, outcome, lock, plugged, audioVars>>

\* pick_sink: list, show fuzzel, and take the answer from the old list.
Pick(p) ==
    /\ pc[p] = "pick"
    /\ Available # {}
    /\ \E s \in Available : sink' = [sink EXCEPT ![p] = s]
    /\ Goto(p, "choose")
    /\ UNCHANGED <<left, outcome, lock, pending, plugged, audioVars, stamp, serial>>

Choose(p) ==
    /\ pc[p] = "choose"
    /\ \/ /\ Goto(p, "picked")
          /\ UNCHANGED outcome
       \/ /\ Goto(p, "done")
          /\ Exit(p, "cancelled")
    /\ UNCHANGED <<procVars, lock, pending, plugged, audioVars, stamp, serial>>

\* pick_sink reads the default back and reports an error if it is another.
Verify(p) ==
    /\ pc[p] = "verify"
    /\ Goto(p, "done")
    /\ Exit(p, IF default = sink[p] /\ default \in Available THEN "switched" ELSE "error")
    /\ UNCHANGED <<procVars, lock, pending, plugged, audioVars, stamp, serial>>

\* Any pactl or wpctl call may fail with AudioCommandError: a waiter leaves
\* the locked block for its finally clause, a manual invocation ends.
CommandFails(p) ==
    /\ pc[p] \in {"card", "list", "set", "pick", "picked", "verify"}
    /\ lock' = IF lock = p THEN None ELSE lock
    /\ Goto(p, IF p \in Waiters THEN "finish" ELSE "done")
    /\ Exit(p, "error")
    /\ UNCHANGED <<procVars, pending, plugged, audioVars, stamp, serial>>

\* SIGKILL or SIGTERM: no finally clause runs, the kernel drops the lock.
Kill(p) ==
    /\ pc[p] \notin {"new", "done"}
    /\ lock' = IF lock = p THEN None ELSE lock
    /\ Goto(p, "done")
    /\ Exit(p, "killed")
    /\ UNCHANGED <<procVars, pending, plugged, audioVars, stamp, serial>>

\* A device is connected or disconnected.
Hotplug(s) ==
    /\ plugged' = IF s \in plugged THEN plugged \ {s} ELSE plugged \cup {s}
    /\ UNCHANGED <<pc, procVars, outcome, lock, pending, audioVars, stamp, serial>>

Step(p) ==
    \/ Queue(p) \/ WriteRequest(p) \/ Attempt(p) \/ SetCardProfile(p)
    \/ FindSink(p) \/ SetDefault(p) \/ Unlink(p) \/ Retry(p) \/ Finish(p)
    \/ Cancel(p) \/ Pick(p) \/ Verify(p) \/ CommandFails(p)

Next ==
    \/ \E p \in Procs : Start(p) \/ Step(p) \/ Choose(p) \/ Kill(p)
    \/ \E s \in Removable : Hotplug(s)

Spec == Init /\ [][Next]_vars

(***************************************************************************)
(* A process that is neither killed nor waiting for the user keeps running *)
(* (the scheduler is fair), and sleep returns.  Every lock holder releases *)
(* the lock after finitely many commands, so weak fairness is enough.      *)
(***************************************************************************)
FairSpec == Spec /\ \A p \in Procs : WF_vars(Step(p))

-----------------------------------------------------------------------------
TypeOK ==
    /\ pc \in [Procs -> PCs]
    /\ sink \in [Procs -> Sinks \cup {None}]
    /\ left \in [Procs -> 0..Retries]
    /\ outcome \in [Procs -> Outcomes]
    /\ lock \in Waiters \cup {None}
    /\ pending \in Waiters \cup {None}
    /\ plugged \in SUBSET Sinks
    /\ card \in Profiles \cup {NoProfile}
    /\ default \in Sinks \cup {None}
    /\ setter \in Procs \cup {None}
    /\ stamp \in [Procs -> Nat]
    /\ serial \in Nat

\* Places where a waiter still wants its sink.
Waiting == {"attempt", "retry", "card", "list", "set", "unlink"}

\* The newest request keeps the pending file for as long as it waits: no
\* older waiter that finishes, fails or dies takes its id away
\* (clear_pending_switch compares ids before it unlinks).
NewestKeepsFile ==
    \A p \in Waiters :
        pc[p] \in Waiting /\ stamp[p] = serial => pending = p

\* Nobody gives up as superseded unless something really came later.
SupersededByNewer ==
    \A p \in Waiters : outcome[p] = "superseded" => stamp[p] < serial

\* Between waiters the sound never goes back to an older request once a
\* newer one has switched, whatever the two were doing at the time.
NoStaleOverride ==
    \A q \in Waiters :
        outcome[q] = "switched" /\ setter \in Waiters => stamp[setter] >= stamp[q]

\* A request left in the pending file belongs to a waiter that still runs
\* or was killed: every other way out of wait_for_requested_sink clears it.
FileCleared ==
    pending # None => pc[pending] # "done" \/ outcome[pending] = "killed"

\* A waiter that something later has replaced does not touch the card
\* profile either; a manual invocation may.
CardOnlyByNewest ==
    [][card' # card =>
         \E p \in Procs : pc[p] = "card" /\ (p \in Waiters => stamp[p] = serial)]_vars

\* The promise of the lock and the pending file, as LatestRequest states it.
Arbiter == INSTANCE LatestRequest WITH Requests <- Waiters, Overrides <- Manuals
Arbitrates == Arbiter!Spec

\* A waiter that is not killed ends: switched, superseded, failed or timed out.
WaitersFinish ==
    \A p \in Waiters : pc[p] = "queue" ~> pc[p] = "done"
=============================================================================
