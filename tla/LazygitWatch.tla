---------------------------- MODULE LazygitWatch ----------------------------
(***************************************************************************)
(* lg-herdr-watch (pkgs/herdr-keybinds/lazygit_watch.go): one lazygit in   *)
(* the root of herdr's focused workspace, stopped and started again when   *)
(* the focus moves to another root.  The main goroutine selects among      *)
(* events, a ticker, the child's exit, the end of the subscription and     *)
(* signals; the child, herdr and the user act at any time between its      *)
(* steps.  Processes are slots that are free again once reaped.            *)
(***************************************************************************)
EXTENDS FiniteSets, Naturals

CONSTANTS
    Children,   \* slots for lazygit processes
    Workspaces,
    Roots,      \* directories
    Root,       \* the root of each workspace; workspaces may share one
    NoChild,    \* no child
    EventCap    \* capacity of the events channel

ASSUME WatchAssumption ==
    /\ Root \in [Workspaces -> Roots]
    /\ NoChild \notin Children
    /\ EventCap \in Nat \ {0}

VARIABLES
    wpc,        \* where the main goroutine is
    then,       \* what it does once the child has stopped
    child,      \* its child variable
    cwd,        \* its cwd variable
    next,       \* nextCWD
    proc,       \* each process: "free", "running", or exited "clean"/"failed"
    done,       \* processes whose exit waits in their done channel
    dir,        \* the directory each process was started in
    killed,     \* processes that were sent SIGKILL
    events,     \* entries in the events channel
    tick,       \* the ticker's one-slot channel
    signalled,  \* the signals channel
    closed,     \* the event stream has ended: subscribeDone is filled
    focus,      \* herdr: the focused workspace
    lost        \* history: a process could not be signalled

chanVars == <<events, tick, signalled, closed>>
procVars == <<proc, done, dir, killed>>
loopVars == <<wpc, then, child, cwd, next>>
watchVars == <<loopVars, procVars, chanVars, focus, lost>>

Alive == {c \in Children : proc[c] = "running"}
Free == {c \in Children : proc[c] = "free"}
Move(label) == wpc' = label

\* activeLazygitCWD and Subscribe run before the first process is started.
WatchInit ==
    /\ focus \in Workspaces
    /\ wpc = "start" /\ then = "restart" /\ child = NoChild
    /\ cwd = Root[focus] /\ next = Root[focus]
    /\ proc = [c \in Children |-> "free"] /\ done = {} /\ killed = {}
    /\ dir = [c \in Children |-> Root[focus]]
    /\ events = 0 /\ tick = FALSE /\ signalled = FALSE /\ closed = FALSE
    /\ lost = FALSE

-----------------------------------------------------------------------------
\* select: any ready case may be taken.
OnEvent ==
    /\ wpc = "loop" /\ events > 0
    /\ events' = events - 1
    /\ Move("query")
    /\ UNCHANGED <<then, child, cwd, next, procVars, tick, signalled, closed, focus, lost>>

OnTick ==
    /\ wpc = "loop" /\ tick
    /\ tick' = FALSE
    /\ Move("query")
    /\ UNCHANGED <<then, child, cwd, next, procVars, events, signalled, closed, focus, lost>>

\* The process whose exit was received is gone, whoever received it.
Reap(c) ==
    /\ proc' = [proc EXCEPT ![c] = "free"]
    /\ done' = done \ {c}
    /\ killed' = killed \ {c}
    /\ UNCHANGED dir

KeepsChild(c) == c                      \* fault: child stays set after its exit
AfterFailure(c) == NoChild
ShownAsError(c) == FALSE                \* fault: err == nil is not asked
CleanExit(c) == proc[c] = "clean"

OnChildDone ==
    /\ wpc = "loop" /\ child \in done
    /\ Reap(child)
    /\ IF CleanExit(child)
         THEN Move("ended") /\ child' = NoChild
         ELSE Move("loop") /\ child' = AfterFailure(child)
    /\ UNCHANGED <<then, cwd, next, chanVars, focus, lost>>

OnStreamEnd ==
    /\ wpc = "loop" /\ (closed \/ signalled)
    /\ then' = "quit"
    /\ Move("stop")
    /\ UNCHANGED <<child, cwd, next, procVars, chanVars, focus, lost>>

\* restartLazygitIfCWDChanged: herdr may not answer; the same root keeps the child.
FirstRoot == cwd                        \* fault: nextCWD is not asked for again
NextCWD == Root[focus]

Query ==
    /\ wpc = "query"
    /\ \/ Move("loop") /\ UNCHANGED <<then, next>>
       \/ /\ NextCWD # cwd
          /\ next' = NextCWD
          /\ then' = "restart"
          /\ Move("stop")
    /\ UNCHANGED <<child, cwd, procVars, chanVars, focus, lost>>

-----------------------------------------------------------------------------
\* child.stop: afterwards the caller starts the next child or returns; an
\* error makes it forget the child, or return with it.
Stopped == Move(IF then = "restart" THEN "start" ELSE "ended") /\ child' = NoChild

StopFails ==
    /\ Free # {} /\ lost' = TRUE
    /\ Move(IF then = "restart" THEN "loop" ELSE "ended")
    /\ child' = NoChild

Terminate ==
    /\ wpc = "stop"
    /\ IF child = NoChild
         THEN Stopped /\ UNCHANGED lost
         ELSE \/ Move("stopping") /\ UNCHANGED <<child, lost>>
              \/ child \in Alive /\ StopFails
    /\ UNCHANGED <<then, cwd, next, procVars, chanVars, focus>>

StopDone ==
    /\ wpc \in {"stopping", "killing"} /\ child \in done
    /\ Reap(child)
    /\ Stopped
    /\ UNCHANGED <<then, cwd, next, chanVars, focus, lost>>

NoWait == "start"                       \* fault: the second <-child.done is missing
AfterKill == "killing"

Timeout ==
    /\ wpc = "stopping"
    /\ \/ Move(AfterKill) /\ killed' = killed \cup {child} /\ UNCHANGED <<child, lost>>
       \/ child \in Alive /\ StopFails /\ UNCHANGED killed
    /\ UNCHANGED <<then, cwd, next, proc, done, dir, chanVars, focus>>

\* startLazygitProcess: cwd is the new root also when it fails.
OldCWD == cwd                           \* fault: cwd stays as it was
StartedCWD == next

Start ==
    /\ wpc = "start"
    /\ cwd' = StartedCWD
    /\ Move("loop")
    /\ \/ \E c \in Free :
            /\ child' = c
            /\ proc' = [proc EXCEPT ![c] = "running"]
            /\ dir' = [dir EXCEPT ![c] = next]
       \/ child' = NoChild /\ UNCHANGED <<proc, dir>>
    /\ UNCHANGED <<then, next, done, killed, chanVars, focus, lost>>

Watcher ==
    \/ OnEvent \/ OnTick \/ OnChildDone \/ OnStreamEnd \/ Query
    \/ Terminate \/ StopDone \/ Timeout \/ Start

-----------------------------------------------------------------------------
\* The user quits lazygit, or it fails, or a signal ends it.  A process the
\* watcher has forgotten is reaped by its own goroutine alone.
Exit(c) ==
    /\ c \in Alive
    /\ \E how \in IF c \in killed THEN {"failed"} ELSE {"clean", "failed"} :
         IF c = child
           THEN proc' = [proc EXCEPT ![c] = how] /\ done' = done \cup {c} /\ UNCHANGED <<dir, killed>>
           ELSE Reap(c)
    /\ UNCHANGED <<loopVars, chanVars, focus, lost>>

\* herdr focuses a workspace or a pane in it; a full channel drops the event.
Sent == IF events < EventCap THEN events + 1 ELSE events

FocusWorkspace(w) ==
    /\ focus' = w
    /\ events' = IF closed THEN events ELSE Sent
    /\ UNCHANGED <<loopVars, procVars, tick, signalled, closed, lost>>

Tick ==
    /\ tick' = TRUE
    /\ UNCHANGED <<loopVars, procVars, events, signalled, closed, focus, lost>>

\* SIGHUP, SIGINT or SIGTERM arrives, or the event stream ends.
Signal == signalled' = TRUE /\ UNCHANGED <<loopVars, procVars, events, tick, closed, focus, lost>>
StreamEnds == closed' = TRUE /\ UNCHANGED <<loopVars, procVars, events, tick, signalled, focus, lost>>

WatchNext ==
    \/ Watcher
    \/ \E c \in Children : Exit(c)
    \/ \E w \in Workspaces : FocusWorkspace(w)
    \/ Tick \/ Signal \/ StreamEnds

WatchSpec == WatchInit /\ [][WatchNext]_watchVars

\* The goroutine runs on and select picks among its ready cases at random, so
\* that none is passed over for ever; the ticker ticks; a killed process
\* exits; herdr answers now and then.
FairSpec ==
    /\ WatchSpec
    /\ WF_watchVars(Watcher) /\ WF_watchVars(Tick)
    /\ SF_watchVars(OnTick) /\ SF_watchVars(OnChildDone) /\ SF_watchVars(OnStreamEnd)
    /\ SF_watchVars(Query /\ wpc' = "stop")
    /\ \A c \in Children : WF_watchVars(c \in killed /\ Exit(c))

-----------------------------------------------------------------------------
WatchTypeOK ==
    /\ wpc \in {"loop", "query", "stop", "stopping", "killing", "start", "ended"}
    /\ then \in {"restart", "quit"}
    /\ child \in Children \cup {NoChild}
    /\ cwd \in Roots /\ next \in Roots
    /\ proc \in [Children -> {"free", "running", "clean", "failed"}]
    /\ done = {c \in Children : proc[c] \in {"clean", "failed"}}
    /\ dir \in [Children -> Roots]
    /\ killed \in SUBSET Children
    /\ events \in 0..EventCap
    /\ tick \in BOOLEAN /\ signalled \in BOOLEAN /\ closed \in BOOLEAN
    /\ focus \in Workspaces
    /\ lost \in BOOLEAN

\* "watchLazygit runs one lazygit process" (lazygit_watch.go:28): two never
\* share the terminal, and none outlives the watcher, unless a process could
\* not be signalled.
OneLazygit ==
    ~lost => /\ Cardinality(Alive) <= 1
             /\ wpc = "ended" => Alive = {}

\* The channels, the timeouts and the slots keep what Supervisor states: one
\* process at a time, where the focus was seen, and no second try in the same
\* place ("switch workspaces to retry", lazygit_watch.go:138).
Owed == wpc = "start" \/ (wpc \in {"stop", "stopping", "killing"} /\ then = "restart")
Keeper == INSTANCE Supervisor WITH
    Slots <- Children, Places <- Roots, running <- Alive, place <- dir, focused <- Root[focus],
    asked <- next, owed <- Owed, over <- (wpc = "ended"), lost <- lost
Supervises == Keeper!Spec

\* What the loop believes is so: its child was started in the cwd it compares
\* the focused root with.
ChildInCWD == wpc \in {"loop", "query"} /\ child # NoChild => dir[child] = cwd

\* "restarts it whenever Herdr focuses a workspace with a different root"
\* (lazygit_watch.go:29): when the focus stays, lazygit ends up there (or has
\* failed to start there), although events are dropped when the channel is full.
FollowsFocus ==
    \A d \in Roots : <>[](Root[focus] = d) => <>[](wpc = "ended" \/ cwd = d)

\* Every stop ends: the exit of a child is received once, by the loop or by
\* stop, so that stop never waits for one that was already taken.
StopEnds == wpc \in {"stopping", "killing"} ~> wpc \notin {"stopping", "killing"}

\* A lazygit the user quits takes the watcher with it when the focus is, and
\* stays, where it ran: no event or tick turns the quit into a restart.
QuitQuits ==
    (child \in done /\ proc[child] = "clean" /\ [](Root[focus] = cwd)) ~> wpc = "ended"
=============================================================================
