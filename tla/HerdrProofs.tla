---------------------------- MODULE HerdrProofs ----------------------------
(***************************************************************************)
(* The two programs that herdr's keys start and that nothing else joins.   *)
(*                                                                         *)
(* Popup for any number of key presses and names, with overlapping         *)
(* toggles, failing calls and kills.  What a toggle leaves rests on what   *)
(* it knows: while toggles do not overlap, its copy of the state, or the   *)
(* file when it has none yet, tracks every open popup, and a file being    *)
(* written belongs to one process.  A toggle nobody has run beside sees    *)
(* every popup of its name and has it in its queue, gone or failed to      *)
(* close before it opens its own.                                          *)
(*                                                                         *)
(* LazygitWatch for any slots, workspaces and capacity.  That at most one  *)
(* lazygit runs follows from where the watcher's child variable points:    *)
(* whatever runs is the child, as long as no process was lost, and the     *)
(* watcher has no child when it starts one or has ended.  With what the    *)
(* watcher saw last, and where it has committed itself to a start, each of *)
(* its steps is one of Supervisor or none of its.                          *)
(***************************************************************************)
EXTENDS Popup, LazygitWatch, FiniteSetTheorems, TLAPS

-----------------------------------------------------------------------------
\* While no toggles overlapped there is one at a time, and so there is beside
\* a toggle that nobody has run beside.
OneRunning ==
    /\ apart => \A t, u \in Running : t = u
    /\ solo # None => Running \subseteq {solo}

\* A file is held open between its opening and its rename only, and a pane is
\* there only after its key was pressed.
Held ==
    /\ \A t \in Toggles : fd[t] # None <=> pc[t] \in Saving
    /\ \A p \in open : pc[p] # "new"

\* The temporary file is that of the one process that writes it.
OwnFile ==
    apart =>
        /\ FileWhole
        /\ \A t \in Toggles :
              /\ fd[t] \in {None, "tmp", "closed"}
              /\ fd[t] = "tmp" => tmp = Empty
              /\ fd[t] = "closed" => tmp = state[t]

FilesInv == TypeOK /\ OneRunning /\ Held /\ OwnFile

\* What a state says of the open popups is complete.
Tracks(s) == \A p \in open : p \in s.panes /\ name[p] \in s.names
FileState == IF file \in {None, Empty} THEN NoState ELSE file
Unread == {"current", "load"}

\* The file tracks them until a toggle has read it, then its copy does; none of
\* its name is left when its own opens.
Tracking ==
    clean /\ apart =>
        /\ \A p, q \in open : name[p] = name[q] => p = q
        /\ (\A t \in Running : pc[t] \in Unread) => Tracks(FileState)
        /\ \A t \in Running :
              /\ pc[t] \notin Unread => Tracks(state[t])
              /\ pc[t] = "close" => open \cap Of(name[t]) \subseteq queue[t]
              /\ pc[t] \in {"save", "overlay"} => open \cap Of(name[t]) = {}

\* What pane.list shows of a name.
Listed(n) == (open \ retitled) \cap Of(n)

\* A toggle that nobody has run beside has closed what was listed of its name
\* before it opens its own, or has failed to and does not.
Clearing ==
    solo # None =>
        /\ pc[solo] = "close" => Listed(name[solo]) \subseteq queue[solo] \/ failed[solo]
        /\ pc[solo] = "save" => Listed(name[solo]) = {} \/ failed[solo]
        /\ pc[solo] = "overlay" => Listed(name[solo]) = {}
        /\ NextToggleHeals
-----------------------------------------------------------------------------
LEMMA InitTypes == Init => TypeOK
BY PopupAssumption DEF Init, TypeOK, Contents, NoState, States

LEMMA TypeSteps == TypeOK /\ [Next]_vars => TypeOK'
<1> SUFFICES ASSUME TypeOK, [Next]_vars PROVE TypeOK'
  OBVIOUS
<1>0. \A t \in Toggles : Fail(t) => failed' \in [Toggles -> BOOLEAN]
  BY Zenon DEF TypeOK, Fail
<1> USE <1>0, PopupAssumption DEF TypeOK, Goto, toggleVars, herdrVars, fileVars, history, Closing, Saving
<1>1. ASSUME NEW t \in Toggles, Press(t) PROVE TypeOK'
  BY <1>1 DEF Press
<1>2. ASSUME NEW t \in Toggles, CurrentPane(t) PROVE TypeOK'
  BY <1>2 DEF CurrentPane, IsPopupPane, Of
<1>3. ASSUME NEW t \in Toggles, LoadPluginState(t) PROVE TypeOK'
  <2>1. state' \in [Toggles -> States]
    <3>1. NoState \in States /\ (file \notin {None, Empty, Torn} => file \in States)
      BY DEF NoState, States, Contents
    <3>2. QED
      BY <1>3, <3>1 DEF LoadPluginState
  <2>2. QED
    BY <1>3, <2>1 DEF LoadPluginState
<1>4. ASSUME NEW t \in Toggles, ListPanes(t) PROVE TypeOK'
  BY <1>4 DEF ListPanes, PopupPaneIDs, States
<1>5. ASSUME NEW t \in Toggles, NEW p \in Toggles, ClosePane(t, p) PROVE TypeOK'
  <2>1. state' \in [Toggles -> States]
    <3>1. [state[t] EXCEPT !.panes = @ \ {p}] \in States
      BY DEF States
    <3>2. state' = [state EXCEPT ![t] = [state[t] EXCEPT !.panes = @ \ {p}]]
      BY <1>5 DEF ClosePane
    <3>3. QED
      BY <3>1, <3>2
  <2>2. failed' \in [Toggles -> BOOLEAN] /\ clean' \in BOOLEAN
    BY <1>5, Zenon DEF ClosePane
  <2>3. open' \in SUBSET Toggles /\ retitled' \in SUBSET open' /\ current' \in open' \cup {None}
    BY <1>5 DEF ClosePane
  <2>4. queue' \in [Toggles -> SUBSET Toggles] /\ UNCHANGED <<pc, name, caller, fileVars, solo, apart>>
    BY <1>5 DEF ClosePane
  <2>5. QED
    BY <2>1, <2>2, <2>3, <2>4
<1>6. ASSUME NEW t \in Toggles, OpenTmp(t) PROVE TypeOK'
  BY <1>6 DEF OpenTmp, Contents
<1>7. ASSUME NEW t \in Toggles, WriteTmp(t) PROVE TypeOK'
  BY <1>7 DEF WriteTmp, Over, Contents
<1>8. ASSUME NEW t \in Toggles, Rename(t) PROVE TypeOK'
  BY <1>8 DEF Rename, Contents
<1>9. ASSUME NEW t \in Toggles, OpenOverlay(t) PROVE TypeOK'
  <2>1. Tracked(t) \in States
    BY DEF Tracked, States
  <2>2. failed' \in [Toggles -> BOOLEAN]
    <3>1. failed' = failed \/ Fail(t)
      BY <1>9 DEF OpenOverlay, Fail
    <3>2. QED
      BY <3>1, Zenon
  <2>3. QED
    BY <1>9, <2>1, <2>2 DEF OpenOverlay
<1>10. ASSUME NEW t \in Toggles, CallFails(t) \/ Kill(t) PROVE TypeOK'
  BY <1>10 DEF CallFails, Kill
<1>11. ASSUME NEW p \in Toggles, Quit(p) \/ Retitle(p) PROVE TypeOK'
  BY <1>11 DEF Quit, Retitle
<1>12. CASE Focus
  BY <1>12 DEF Focus
<1>13. CASE UNCHANGED vars
  BY <1>13 DEF vars
<1>14. QED
  BY <1>1, <1>2, <1>3, <1>4, <1>5, <1>6, <1>7, <1>8, <1>9, <1>10, <1>11, <1>12, <1>13 DEF Next, Step

\* Every toggle, its copy of the state and both files stay in the states that
\* popup.go and state.go know; what a program or a user does to a pane keeps
\* herdr's panes consistent.
THEOREM TypeCorrect == Spec => []TypeOK
BY InitTypes, TypeSteps, PTL DEF Spec

-----------------------------------------------------------------------------
LEMMA InitFiles == Init => FilesInv
BY InitTypes, PopupAssumption DEF Init, FilesInv, OneRunning, Held, OwnFile, FileWhole, Running, Saving

LEMMA FilesSteps == FilesInv /\ [Next]_vars => FilesInv'
<1> SUFFICES ASSUME FilesInv, [Next]_vars PROVE OneRunning' /\ Held' /\ OwnFile'
  BY TypeSteps DEF FilesInv
<1> USE PopupAssumption DEF FilesInv, Goto, toggleVars, herdrVars, fileVars, history, Closing, Saving
<1>1. ASSUME NEW t \in Toggles, Press(t) PROVE OneRunning' /\ Held' /\ OwnFile'
  <2>1. Running' = Running \cup {t}
    BY <1>1 DEF Press, Running, TypeOK
  <2>2. OneRunning'
    BY <1>1, <2>1 DEF Press, OneRunning, TypeOK
  <2>3. Held' /\ OwnFile'
    BY <1>1 DEF Press, Held, OwnFile, FileWhole, TypeOK
  <2>4. QED
    BY <2>2, <2>3
<1>2. ASSUME NEW t \in Toggles, CurrentPane(t) \/ LoadPluginState(t) \/ ListPanes(t) \/ OpenOverlay(t)
                                \/ CallFails(t)
      PROVE  OneRunning' /\ Held' /\ OwnFile'
  <2>1. /\ t \in Running /\ pc[t] \notin Saving /\ pc'[t] \notin Saving /\ pc'[t] # "new"
        /\ \A u \in Toggles \ {t} : pc'[u] = pc[u] /\ state'[u] = state[u]
        /\ UNCHANGED <<fd, file, tmp, solo, apart>>
        /\ open' \subseteq open \cup {t}
    BY <1>2 DEF CurrentPane, LoadPluginState, ListPanes, OpenOverlay, CallFails, Running, ReadyToSave, TypeOK
  <2>2. Running' \subseteq Running
    BY <2>1 DEF Running
  <2>3. OneRunning'
    BY <2>1, <2>2 DEF OneRunning
  <2>4. Held'
    BY <2>1 DEF Held, TypeOK
  <2>5. OwnFile'
    BY <2>1 DEF OwnFile, Held, FileWhole
  <2>6. QED
    BY <2>3, <2>4, <2>5
<1>3. ASSUME NEW t \in Toggles, NEW p \in Toggles, ClosePane(t, p) PROVE OneRunning' /\ Held' /\ OwnFile'
  <2>1. /\ pc[t] \notin Saving /\ UNCHANGED <<pc, fd, file, tmp, solo, apart>> /\ open' \subseteq open
        /\ \A u \in Toggles \ {t} : state'[u] = state[u]
    BY <1>3 DEF ClosePane, TypeOK
  <2>2. QED
    BY <2>1 DEF OneRunning, Held, OwnFile, FileWhole, Running
<1>4. ASSUME NEW t \in Toggles, OpenTmp(t) PROVE OneRunning' /\ Held' /\ OwnFile'
  <2>1. Running' = Running /\ t \in Running
    BY <1>4 DEF OpenTmp, ReadyToSave, Running, TypeOK
  <2>2. OneRunning' /\ Held'
    BY <1>4, <2>1 DEF OpenTmp, ReadyToSave, OneRunning, Held, TypeOK
  <2>3. apart => \A u \in Toggles \ {t} : fd[u] = None
    BY <2>1 DEF OneRunning, Held, Running
  <2>4. OwnFile'
    BY <1>4, <2>3 DEF OpenTmp, OwnFile, FileWhole, TypeOK
  <2>5. QED
    BY <2>2, <2>4
<1>5. ASSUME NEW t \in Toggles, WriteTmp(t) PROVE OneRunning' /\ Held' /\ OwnFile'
  <2>1. Running' = Running /\ t \in Running
    BY <1>5 DEF WriteTmp, Running, TypeOK
  <2>2. OneRunning' /\ Held'
    BY <1>5, <2>1 DEF WriteTmp, OneRunning, Held, TypeOK
  <2>3. apart => \A u \in Toggles \ {t} : fd[u] = None
    BY <2>1 DEF OneRunning, Held, Running
  <2>4. apart => tmp' = state[t] /\ file' = file
    BY <1>5 DEF WriteTmp, Over, OwnFile
  <2>5. OwnFile'
    BY <1>5, <2>3, <2>4 DEF WriteTmp, OwnFile, FileWhole, TypeOK
  <2>6. QED
    BY <2>2, <2>5
<1>6. ASSUME NEW t \in Toggles, Rename(t) PROVE OneRunning' /\ Held' /\ OwnFile'
  <2>1. Running' \subseteq Running /\ t \in Running
    BY <1>6 DEF Rename, Running, TypeOK
  <2>2. OneRunning' /\ Held'
    BY <1>6, <2>1 DEF Rename, OneRunning, Held, TypeOK
  <2>3. apart => \A u \in Toggles \ {t} : fd[u] = None
    BY <2>1 DEF OneRunning, Held, Running
  <2>4. apart => tmp = state[t] /\ state[t] \in States
    BY <1>6 DEF Rename, Written, OwnFile, TypeOK
  <2>5. OwnFile'
    BY <1>6, <2>3, <2>4 DEF Rename, OwnFile, FileWhole, TypeOK
  <2>6. QED
    BY <2>2, <2>5
<1>7. ASSUME NEW t \in Toggles, Kill(t) PROVE OneRunning' /\ Held' /\ OwnFile'
  <2>1. Running' \subseteq Running
    BY <1>7 DEF Kill, Running, TypeOK
  <2>2. QED
    BY <1>7, <2>1 DEF Kill, OneRunning, Held, OwnFile, FileWhole, TypeOK
<1>8. ASSUME NEW p \in Toggles, Quit(p) \/ Retitle(p) PROVE OneRunning' /\ Held' /\ OwnFile'
  BY <1>8 DEF Quit, Retitle, OneRunning, Held, OwnFile, FileWhole, Running
<1>9. CASE Focus \/ UNCHANGED vars
  BY <1>9 DEF Focus, vars, OneRunning, Held, OwnFile, FileWhole, Running
<1>10. QED
  BY <1>1, <1>2, <1>3, <1>4, <1>5, <1>6, <1>7, <1>8, <1>9 DEF Next, Step

LEMMA FilesInvariant == Spec => []FilesInv
BY InitFiles, FilesSteps, PTL DEF Spec

\* As long as no two toggles overlap, state.json is whole, whatever failed and
\* whoever was killed between the truncation, the write and the rename: the
\* temporary file is renamed only when it holds what its one writer wrote.
THEOREM WholeApart == Spec => []ApartWhole
<1>1. FilesInv => ApartWhole
  BY DEF FilesInv, OwnFile, ApartWhole
<1>2. QED
  BY FilesInvariant, <1>1, PTL

-----------------------------------------------------------------------------
LEMMA InitTracking == Init => Tracking
BY DEF Init, Tracking, Tracks

\* The toggle that runs while none overlap is the only one.
LEMMA OnlyOne == ASSUME FilesInv, apart, NEW t \in Running PROVE Running = {t}
BY DEF FilesInv, OneRunning

LEMMA TrackingSteps == FilesInv /\ Tracking /\ [Next]_vars => Tracking'
<1> SUFFICES ASSUME FilesInv, Tracking, [Next]_vars, clean', apart' PROVE Tracking'
  BY DEF Tracking
<1> DEFINE Unique == \A p, q \in open : name[p] = name[q] => p = q
           Known == (\A t \in Running : pc[t] \in Unread) => Tracks(FileState)
           Knows(t) == pc[t] \notin Unread => Tracks(state[t])
           Clears(t) == /\ pc[t] = "close" => open \cap Of(name[t]) \subseteq queue[t]
                        /\ pc[t] \in {"save", "overlay"} => open \cap Of(name[t]) = {}
<1>0. clean /\ apart
  BY TypeSteps, PopupAssumption
     DEF FilesInv, Next, Step, vars, history, TypeOK, Press, CurrentPane, LoadPluginState, ListPanes, ClosePane,
         OpenTmp, WriteTmp, Rename, OpenOverlay, CallFails, Kill, Quit, Retitle, Focus
<1>1. Unique /\ Known /\ (\A t \in Running : Knows(t) /\ Clears(t))
  BY <1>0 DEF Tracking
<1>2. SUFFICES Unique' /\ Known' /\ (\A t \in Running : Knows(t) /\ Clears(t))'
  BY Zenon DEF Tracking
<1>3. Running' \in {{}} \cup {{t} : t \in Toggles}
  BY TypeSteps, FilesSteps DEF FilesInv, OneRunning, Running
<1> HIDE DEF Unique, Known, Knows, Clears
<1> USE DEF Goto, toggleVars, herdrVars, fileVars, history, Closing, Saving
<1>4. ASSUME NEW t \in Toggles, Press(t)
      PROVE  Unique' /\ Known' /\ (\A u \in Running : Knows(u) /\ Clears(u))'
  <2>1. Running = {} /\ Running' = {t} /\ pc'[t] = "current"
    <3>1. Running = {}
      BY <1>4, Zenon DEF Press
    <3>2. pc' = [pc EXCEPT ![t] = "current"] /\ DOMAIN pc = Toggles
      BY <1>4 DEF Press, FilesInv, TypeOK
    <3>3. QED
      BY <3>1, <3>2 DEF Running
  <2>2. /\ UNCHANGED <<open, file>>
        /\ \A p \in open : name'[p] = name[p]
    BY <1>4 DEF Press, FilesInv, TypeOK, Held
  <2>3. Unique'
    BY <1>1, <2>2 DEF Unique
  <2>4. Known'
    BY <1>1, <2>1, <2>2 DEF Known, Tracks, FileState
  <2>5. Knows(t)' /\ Clears(t)'
    BY <2>1 DEF Knows, Clears, Unread
  <2>6. QED
    BY <2>1, <2>3, <2>4, <2>5
<1>5. ASSUME NEW t \in Toggles, CurrentPane(t)
      PROVE  Unique' /\ Known' /\ (\A u \in Running : Knows(u) /\ Clears(u))'
  <2>1. t \in Running /\ pc[t] = "current" /\ pc'[t] \in {"load", "done"}
        /\ UNCHANGED <<open, name, file, state>>
    BY <1>5 DEF CurrentPane, Running, FilesInv, TypeOK
  <2>2. Running = {t}
    BY <1>0, <2>1, OnlyOne
  <2>3. Tracks(FileState)
    BY <1>1, <2>1, <2>2 DEF Known, Unread
  <2>4. Running' \subseteq {t}
    BY <1>5, <2>2 DEF CurrentPane, Running, FilesInv, TypeOK
  <2>5. Unique' /\ Known'
    BY <1>1, <2>1, <2>3 DEF Unique, Known, Tracks, FileState
  <2>6. \A u \in Running' : Knows(u)' /\ Clears(u)'
    BY <2>1, <2>4 DEF Knows, Clears, Unread, Running
  <2>7. QED
    BY <2>5, <2>6
<1>6. ASSUME NEW t \in Toggles, LoadPluginState(t)
      PROVE  Unique' /\ Known' /\ (\A u \in Running : Knows(u) /\ Clears(u))'
  <2>1. t \in Running /\ pc[t] = "load" /\ pc'[t] \in {"list", "close-active"}
        /\ UNCHANGED <<open, name, file>> /\ state'[t] = FileState
    BY <1>0, <1>6 DEF LoadPluginState, Running, FilesInv, TypeOK, OwnFile, FileWhole, FileState
  <2>2. Running = {t}
    BY <1>0, <2>1, OnlyOne
  <2>3. Tracks(FileState)
    BY <1>1, <2>1, <2>2 DEF Known, Unread
  <2>4. Running' = {t}
    BY <1>6, <2>1, <2>2 DEF LoadPluginState, Running, FilesInv, TypeOK
  <2>5. Unique' /\ Known'
    BY <1>1, <2>1, <2>3 DEF Unique, Known, Tracks, FileState
  <2>6. Knows(t)' /\ Clears(t)'
    BY <2>1, <2>3 DEF Knows, Clears, Tracks
  <2>7. QED
    BY <2>4, <2>5, <2>6
<1>7. ASSUME NEW t \in Toggles, ListPanes(t)
      PROVE  Unique' /\ Known' /\ (\A u \in Running : Knows(u) /\ Clears(u))'
  <2>1. t \in Running /\ pc[t] = "list" /\ pc'[t] = "close" /\ queue'[t] = PopupPaneIDs(t)
        /\ UNCHANGED <<open, name, file, state>>
    BY <1>7 DEF ListPanes, Running, FilesInv, TypeOK
  <2>2. Running = {t} /\ Running' = {t}
    BY <1>0, <1>7, <2>1, OnlyOne DEF ListPanes, Running, FilesInv, TypeOK
  <2>3. Tracks(state[t])
    BY <1>1, <2>1, <2>2 DEF Knows, Unread
  <2>4. Unique' /\ Known'
    BY <1>1, <2>1, <2>2 DEF Unique, Known, Unread
  <2>5. Knows(t)' /\ Clears(t)'
    BY <2>1, <2>3 DEF Knows, Clears, Tracks, PopupPaneIDs, Of
  <2>6. QED
    BY <2>2, <2>4, <2>5
<1>8. ASSUME NEW t \in Toggles, NEW p \in Toggles, ClosePane(t, p)
      PROVE  Unique' /\ Known' /\ (\A u \in Running : Knows(u) /\ Clears(u))'
  <2>1. /\ t \in Running /\ pc[t] \in Closing /\ UNCHANGED <<pc, name, file>>
        /\ open' = open \ {p} /\ queue'[t] = queue[t] \ {p}
        /\ state'[t].panes = state[t].panes \ {p} /\ state'[t].names = state[t].names
    BY <1>8 DEF ClosePane, Running, FilesInv, TypeOK, States
  <2>2. Running = {t} /\ Running' = {t}
    BY <1>0, <2>1, OnlyOne DEF Running
  <2>3. Knows(t) /\ Clears(t)
    BY <1>1, <2>2
  <2>4. Unique' /\ Known'
    BY <1>1, <2>1, <2>2 DEF Unique, Known, Unread
  <2>5. Knows(t)' /\ Clears(t)'
    BY <2>1, <2>3 DEF Knows, Clears, Tracks, Of, Unread
  <2>6. QED
    BY <2>2, <2>4, <2>5
<1>9. ASSUME NEW t \in Toggles, OpenTmp(t)
      PROVE  Unique' /\ Known' /\ (\A u \in Running : Knows(u) /\ Clears(u))'
  <2>1. /\ t \in Running /\ pc[t] \in {"opened", "close", "close-active"}
        /\ pc'[t] = (IF pc[t] = "close" THEN "save" ELSE "save-last")
        /\ pc[t] = "close" => queue[t] = {}
        /\ UNCHANGED <<name, open, state>>
    BY <1>9 DEF OpenTmp, ReadyToSave, Running, FilesInv, TypeOK
  <2>2. Running = {t} /\ Running' = {t}
    BY <1>0, <1>9, <2>1, OnlyOne DEF OpenTmp, Running, FilesInv, TypeOK
  <2>3. Knows(t) /\ Clears(t)
    BY <1>1, <2>2
  <2>4. Unique' /\ Known'
    BY <1>1, <2>1, <2>2 DEF Unique, Known, Unread
  <2>5. Knows(t)' /\ Clears(t)'
    BY <2>1, <2>3 DEF Knows, Clears, Tracks, Of, Unread
  <2>6. QED
    BY <2>2, <2>4, <2>5
<1>10. ASSUME NEW t \in Toggles, WriteTmp(t)
       PROVE  Unique' /\ Known' /\ (\A u \in Running : Knows(u) /\ Clears(u))'
  <2>1. t \in Running /\ pc[t] \in Saving /\ UNCHANGED <<pc, name, open, state, queue>>
    BY <1>10 DEF WriteTmp, Running
  <2>2. Running = {t} /\ Running' = {t}
    BY <1>0, <2>1, OnlyOne DEF Running
  <2>3. Knows(t) /\ Clears(t)
    BY <1>1, <2>2
  <2>4. Unique' /\ Known'
    BY <1>1, <2>1, <2>2 DEF Unique, Known, Unread
  <2>5. Knows(t)' /\ Clears(t)'
    BY <2>1, <2>3 DEF Knows, Clears, Tracks, Of
  <2>6. QED
    BY <2>2, <2>4, <2>5
<1>11. ASSUME NEW t \in Toggles, Rename(t)
       PROVE  Unique' /\ Known' /\ (\A u \in Running : Knows(u) /\ Clears(u))'
  <2>1. /\ t \in Running /\ pc[t] \in Saving /\ tmp = state[t] /\ state[t] \in States
        /\ UNCHANGED <<name, open, state, queue>>
    BY <1>0, <1>11 DEF Rename, Written, Running, FilesInv, TypeOK, OwnFile
  <2>2. file' = state[t] /\ pc'[t] \in {"overlay", "done"} /\ (pc'[t] = "overlay" => pc[t] = "save")
    BY <1>11, <2>1, PopupAssumption DEF Rename, FilesInv, TypeOK
  <2>3. Running = {t} /\ Running' \subseteq {t}
    BY <1>0, <1>11, <2>1, OnlyOne DEF Rename, Running, FilesInv, TypeOK
  <2>4. Knows(t) /\ Clears(t)
    BY <1>1, <2>3
  <2>5. Tracks(state[t])
    BY <2>1, <2>4 DEF Knows, Unread
  <2>6. FileState' = state[t]
    BY <2>1, <2>2, PopupAssumption DEF FileState
  <2>7. Unique' /\ Known'
    BY <1>1, <2>1, <2>5, <2>6 DEF Unique, Known, Tracks
  <2>8. t \in Running' => Knows(t)' /\ Clears(t)'
    BY <2>1, <2>2, <2>4, <2>5 DEF Knows, Clears, Tracks, Of
  <2>9. QED
    BY <2>3, <2>7, <2>8
<1>12. ASSUME NEW t \in Toggles, OpenOverlay(t)
       PROVE  Unique' /\ Known' /\ (\A u \in Running : Knows(u) /\ Clears(u))'
  <2>1. /\ t \in Running /\ pc[t] = "overlay" /\ pc'[t] = "opened" /\ state'[t] = Tracked(t)
        /\ open' = open \cup {t} /\ UNCHANGED <<name, file>>
    BY <1>12 DEF OpenOverlay, Running, FilesInv, TypeOK
  <2>2. Running = {t} /\ Running' = {t}
    BY <1>0, <1>12, <2>1, OnlyOne DEF OpenOverlay, Running, FilesInv, TypeOK
  <2>3. Tracks(state[t]) /\ open \cap Of(name[t]) = {}
    BY <1>1, <2>1, <2>2 DEF Knows, Clears, Unread
  <2>4. open \subseteq Toggles
    BY DEF FilesInv, TypeOK
  <2>5. Unique'
    BY <1>1, <2>1, <2>3, <2>4 DEF Unique, Of
  <2>6. Known'
    BY <2>1, <2>2 DEF Known, Unread
  <2>7. Knows(t)' /\ Clears(t)'
    BY <2>1, <2>3, <2>4 DEF Knows, Clears, Tracks, Tracked, Of
  <2>8. QED
    BY <2>2, <2>5, <2>6, <2>7
<1>13. ASSUME NEW t \in Toggles, CallFails(t) \/ Kill(t) PROVE FALSE
  BY <1>13 DEF CallFails, Kill
<1>14. ASSUME NEW p \in Toggles, Quit(p) \/ Retitle(p)
       PROVE  Unique' /\ Known' /\ (\A u \in Running : Knows(u) /\ Clears(u))'
  <2>1. open' \subseteq open /\ UNCHANGED <<pc, name, state, queue, file>> /\ Running' = Running
    BY <1>14 DEF Quit, Retitle, Running
  <2>2. Unique' /\ Known'
    BY <1>1, <2>1 DEF Unique, Known, Tracks, FileState
  <2>3. \A u \in Running' : Knows(u)' /\ Clears(u)'
    BY <1>1, <2>1 DEF Knows, Clears, Tracks, Of
  <2>4. QED
    BY <2>2, <2>3
<1>15. CASE Focus \/ UNCHANGED vars
  <2>1. UNCHANGED <<open, pc, name, state, queue, file>>
    BY <1>15 DEF Focus, vars
  <2>2. QED
    BY <1>1, <2>1 DEF Unique, Known, Knows, Clears, Tracks, FileState, Running, Of
<1>16. QED
  BY <1>4, <1>5, <1>6, <1>7, <1>8, <1>9, <1>10, <1>11, <1>12, <1>13, <1>14, <1>15 DEF Next, Step

LEMMA TrackingInvariant == Spec => [](FilesInv /\ Tracking)
BY FilesInvariant, InitTracking, TrackingSteps, PTL DEF Spec

\* A toggle replaces all popups of its kind with one, and navigation knows the
\* name of the focused one, for any number of toggles one after the other of
\* which none was killed and no call but the nudge failed, popups that the user
\* quits and titles that programs change.
THEOREM OneOfAName == Spec => []OnePopup
<1>1. FilesInv /\ Tracking => OnePopup
  <2> SUFFICES ASSUME FilesInv, Tracking, clean, apart,
                      Running = {}, current \in open \ retitled
               PROVE  name[current] \in LoadPopupNames
    BY DEF Tracking, OnePopup
  <2>1. Tracks(FileState)
    BY DEF Tracking
  <2>2. name[current] \in FileState.names
    BY <2>1 DEF Tracks
  <2>3. file # Torn
    BY DEF FilesInv, OwnFile, FileWhole
  <2>4. QED
    BY <2>2, <2>3 DEF FileState, NoState, LoadPopupNames
<1>2. QED
  BY TrackingInvariant, <1>1, PTL

-----------------------------------------------------------------------------
LEMMA InitClearing == Init => Clearing
BY DEF Init, Clearing

\* One more step of the toggle that runs alone, or of nobody.
LEMMA ClearingSteps == FilesInv /\ Clearing /\ [Next]_vars => Clearing'
<1> SUFFICES ASSUME FilesInv, Clearing, [Next]_vars, solo' # None PROVE Clearing'
  BY DEF Clearing
<1> DEFINE Emptied(t) ==
             /\ pc[t] = "close" => Listed(name[t]) \subseteq queue[t] \/ failed[t]
             /\ pc[t] = "save" => Listed(name[t]) = {} \/ failed[t]
             /\ pc[t] = "overlay" => Listed(name[t]) = {}
           Alone(t) == t \in open => \A p \in open \ retitled : name[p] = name[t] => p = t
<1>1. SUFFICES Emptied(solo)' /\ Alone(solo)'
  BY DEF Clearing, NextToggleHeals
<1>2. solo # None => Emptied(solo) /\ Alone(solo)
  BY DEF Clearing, NextToggleHeals
<1>3. open \subseteq Toggles /\ retitled \subseteq open /\ solo \in Toggles \cup {None}
  BY DEF FilesInv, TypeOK
<1>4. \A t \in Running : solo = t \/ solo = None
  BY DEF FilesInv, OneRunning
<1> HIDE DEF Emptied, Alone
<1> USE DEF Goto, toggleVars, herdrVars, fileVars, history, Closing, Saving
<1>5. ASSUME NEW t \in Toggles, Press(t) PROVE Emptied(solo)' /\ Alone(solo)'
  <2>1. solo' = t /\ pc'[t] = "current" /\ open' = open
    BY <1>5 DEF Press, FilesInv, TypeOK
  <2>2. t \notin open
    BY <1>5 DEF Press, FilesInv, Held
  <2>3. QED
    BY <2>1, <2>2 DEF Emptied, Alone
<1>6. ASSUME NEW t \in Toggles,
             CurrentPane(t) \/ LoadPluginState(t) \/ WriteTmp(t) \/ CallFails(t) \/ Kill(t)
      PROVE  Emptied(solo)' /\ Alone(solo)'
  <2>1. /\ t \in Running /\ UNCHANGED <<open, retitled, name, solo>>
        /\ \/ pc' = pc /\ UNCHANGED <<queue, failed>>
           \/ pc'[t] \notin {"close", "save", "overlay"}
    BY <1>6 DEF CurrentPane, LoadPluginState, WriteTmp, CallFails, Kill, ReadyToSave, Running, FilesInv, TypeOK
  <2>2. solo = t
    BY <1>4, <2>1
  <2>3. QED
    BY <1>2, <2>1, <2>2 DEF Emptied, Alone, Listed, Of
<1>7. ASSUME NEW t \in Toggles, ListPanes(t) PROVE Emptied(solo)' /\ Alone(solo)'
  <2>1. /\ t \in Running /\ UNCHANGED <<open, retitled, name, solo>>
        /\ pc'[t] = "close" /\ queue'[t] = PopupPaneIDs(t)
    BY <1>7 DEF ListPanes, Running, FilesInv, TypeOK
  <2>2. solo = t
    BY <1>4, <2>1
  <2>3. Listed(name[t]) \subseteq PopupPaneIDs(t)
    BY DEF Listed, PopupPaneIDs, IsPopupPane
  <2>4. QED
    BY <1>2, <2>1, <2>2, <2>3 DEF Emptied, Alone, Listed, Of
<1>8. ASSUME NEW t \in Toggles, NEW p \in Toggles, ClosePane(t, p) PROVE Emptied(solo)' /\ Alone(solo)'
  <2>1. /\ t \in Running /\ pc[t] \in Closing /\ UNCHANGED <<pc, name, solo>>
        /\ queue'[t] = queue[t] \ {p}
        /\ \/ open' = open \ {p} /\ retitled' = retitled \ {p} /\ failed' = failed
           \/ UNCHANGED <<open, retitled>> /\ failed'[t] = TRUE
    BY <1>8 DEF ClosePane, Fail, Running, FilesInv, TypeOK
  <2>2. solo = t
    BY <1>4, <2>1
  <2>3. QED
    BY <1>2, <2>1, <2>2 DEF Emptied, Alone, Listed, Of
<1>9. ASSUME NEW t \in Toggles, OpenTmp(t) PROVE Emptied(solo)' /\ Alone(solo)'
  <2>1. /\ t \in Running /\ UNCHANGED <<open, retitled, name, failed, solo>>
        /\ \/ pc'[t] = "save-last"
           \/ pc'[t] = "save" /\ pc[t] = "close" /\ queue[t] = {}
    BY <1>9 DEF OpenTmp, ReadyToSave, Running, FilesInv, TypeOK
  <2>2. solo = t
    BY <1>4, <2>1
  <2>3. QED
    BY <1>2, <2>1, <2>2 DEF Emptied, Alone, Listed, Of
<1>10. ASSUME NEW t \in Toggles, Rename(t) PROVE Emptied(solo)' /\ Alone(solo)'
  <2>1. /\ t \in Running /\ UNCHANGED <<open, retitled, name, solo>>
        /\ \/ pc'[t] = "done"
           \/ pc'[t] = "overlay" /\ pc[t] = "save" /\ ~failed[t]
    BY <1>10 DEF Rename, NoCloseError, Running, FilesInv, TypeOK
  <2>2. solo = t
    BY <1>4, <2>1
  <2>3. QED
    BY <1>2, <2>1, <2>2 DEF Emptied, Alone, Listed, Of
<1>11. ASSUME NEW t \in Toggles, OpenOverlay(t) PROVE Emptied(solo)' /\ Alone(solo)'
  <2>1. /\ t \in Running /\ pc[t] = "overlay" /\ pc'[t] = "opened"
        /\ open' = open \cup {t} /\ UNCHANGED <<retitled, name, solo>>
    BY <1>11 DEF OpenOverlay, Running, FilesInv, TypeOK
  <2>2. solo = t
    BY <1>4, <2>1
  <2>3. Listed(name[t]) = {}
    BY <1>2, <1>3, <2>1, <2>2 DEF Emptied
  <2>4. Alone(t)'
    BY <1>3, <2>1, <2>3 DEF Alone, Listed, Of
  <2>5. QED
    BY <2>1, <2>2, <2>4 DEF Emptied
<1>12. ASSUME NEW p \in Toggles, Quit(p) \/ Retitle(p) PROVE Emptied(solo)' /\ Alone(solo)'
  <2>1. /\ UNCHANGED <<pc, name, queue, failed, solo>> /\ open' \subseteq open
        /\ open' \ retitled' \subseteq open \ retitled
    BY <1>12 DEF Quit, Retitle
  <2>2. QED
    BY <1>2, <2>1 DEF Emptied, Alone, Listed, Of
<1>13. CASE Focus \/ UNCHANGED vars
  <2>1. UNCHANGED <<pc, name, queue, failed, open, retitled, solo>>
    BY <1>13 DEF Focus, vars
  <2>2. QED
    BY <1>2, <2>1 DEF Emptied, Alone, Listed, Of
<1>14. QED
  BY <1>5, <1>6, <1>7, <1>8, <1>9, <1>10, <1>11, <1>12, <1>13 DEF Next, Step

\* Whatever overlapping toggles, failures and kills left behind, a toggle that
\* opens its popup with herdr and the file to itself leaves no other of its name.
THEOREM ToggleHeals == Spec => []NextToggleHeals
<1>1. FilesInv /\ Clearing => NextToggleHeals
  <2> SUFFICES ASSUME FilesInv, Clearing, solo \in open PROVE NextToggleHeals
    BY DEF NextToggleHeals
  <2>1. solo # None
    BY PopupAssumption DEF FilesInv, TypeOK
  <2>2. QED
    BY <2>1 DEF Clearing
<1>2. QED
  BY FilesInvariant, InitClearing, ClearingSteps, <1>1, PTL DEF Spec

-----------------------------------------------------------------------------
\* Whatever runs is the watcher's child.
ChildRuns == ~lost => Alive \subseteq {child}

\* There is no child between a stop and the next start, and none at the end;
\* there is one to wait for while stop waits.
ChildAt ==
    /\ wpc \in {"start", "ended"} => child = NoChild
    /\ wpc \in {"stopping", "killing"} => child # NoChild

\* Where stop waits, the exit is still to be received: from a process that
\* runs, or that has exited and was not reaped.
ChildThere == child # NoChild => child \in Alive \cup done
ExitComes ==
    /\ wpc \in {"stopping", "killing"} => child \in Alive \cup done
    /\ wpc = "killing" => child \in killed

\* Between starts the watcher compares the focus with what it saw last.
NextIsCWD == ~lost /\ wpc \in {"loop", "query"} => next = cwd

WatchInv ==
    WatchTypeOK /\ ChildRuns /\ ChildAt /\ ChildThere /\ ExitComes /\ NextIsCWD /\ ChildInCWD

LEMMA InitWatchInv == WatchInit => WatchInv
<1> SUFFICES ASSUME WatchInit PROVE WatchInv
  OBVIOUS
<1>1. Root[focus] \in Roots /\ 0 \in 0..EventCap
  BY WatchAssumption DEF WatchInit
<1>2. \A c \in Children : proc[c] = "free"
  BY DEF WatchInit
<1>3. WatchTypeOK
  BY <1>1, <1>2 DEF WatchInit, WatchTypeOK
<1>4. ChildRuns /\ ChildAt /\ ChildThere /\ ExitComes /\ NextIsCWD /\ ChildInCWD
  BY <1>2 DEF WatchInit, ChildRuns, ChildAt, ChildThere, ExitComes, NextIsCWD, ChildInCWD, Alive
<1>5. QED
  BY <1>3, <1>4 DEF WatchInv

\* The watcher's own steps.
LEMMA WatcherKeeps == WatchInv /\ Watcher => WatchInv'
<1> SUFFICES ASSUME WatchInv, Watcher PROVE WatchInv'
  OBVIOUS
<1> USE WatchAssumption DEF WatchInv, WatchTypeOK, ChildRuns, ChildAt, ChildThere, ExitComes, NextIsCWD, ChildInCWD, Alive,
        Move, procVars, chanVars
<1>1. CASE OnEvent
  <2>1. events' \in 0..EventCap
    BY <1>1 DEF OnEvent
  <2>2. QED
    BY <1>1, <2>1 DEF OnEvent
<1>9. CASE OnTick
  BY <1>9 DEF OnTick
<1>10. CASE OnStreamEnd
  BY <1>10 DEF OnStreamEnd
<1>2. CASE OnChildDone
  BY <1>2 DEF OnChildDone, Reap, AfterFailure, CleanExit
<1>3. CASE Query
  <2>1. NextCWD \in Roots
    BY DEF NextCWD
  <2>2. /\ wpc' \in {"loop", "stop"} /\ wpc = "query" /\ (wpc' = "loop" => next' = next)
        /\ next' \in Roots /\ then' \in {"restart", "quit"}
        /\ UNCHANGED <<child, cwd, proc, done, dir, killed, events, tick, signalled, closed, focus, lost>>
    BY <1>3, <2>1 DEF Query
  <2>3. QED
    BY <2>2
<1>4. CASE Terminate
  BY <1>4 DEF Terminate, Stopped, StopFails
<1>5. CASE StopDone
  BY <1>5 DEF StopDone, Reap, Stopped
<1>6. CASE Timeout
  BY <1>6 DEF Timeout, AfterKill, StopFails
<1>7. CASE Start
  BY <1>7 DEF Start, StartedCWD, Free
<1>8. QED
  BY <1>1, <1>2, <1>3, <1>4, <1>5, <1>6, <1>7, <1>9, <1>10 DEF Watcher

LEMMA NextWatchInv == WatchInv /\ [WatchNext]_watchVars => WatchInv'
<1> SUFFICES ASSUME WatchInv, [WatchNext]_watchVars PROVE WatchInv'
  OBVIOUS
<1> USE WatchAssumption DEF WatchInv, WatchTypeOK, ChildRuns, ChildAt, ChildThere, ExitComes, NextIsCWD, ChildInCWD, Alive
<1>1. CASE Watcher
  BY <1>1, WatcherKeeps
<1>2. ASSUME NEW c \in Children, Exit(c) PROVE WatchInv'
  BY <1>2 DEF Exit, Reap, loopVars, chanVars
<1>3. ASSUME NEW w \in Workspaces, FocusWorkspace(w) PROVE WatchInv'
  <2>1. events' \in 0..EventCap
    BY <1>3 DEF FocusWorkspace, Sent
  <2>2. QED
    BY <1>3, <2>1 DEF FocusWorkspace, loopVars, procVars
<1>4. CASE Tick \/ Signal \/ StreamEnds
  BY <1>4 DEF Tick, Signal, StreamEnds, loopVars, procVars
<1>5. CASE UNCHANGED watchVars
  BY <1>5 DEF watchVars, loopVars, procVars, chanVars
<1>6. QED
  BY <1>1, <1>2, <1>3, <1>4, <1>5 DEF WatchNext

\* Type correctness of the watcher, its processes and its channels.
THEOREM WatchTypeCorrect == WatchSpec => []WatchTypeOK
<1>1. WatchInv => WatchTypeOK
  BY DEF WatchInv
<1>2. QED
  BY <1>1, InitWatchInv, NextWatchInv, PTL DEF WatchSpec

\* Two lazygit processes never share the terminal, and none outlives the
\* watcher, however events, exits, timeouts and signals interleave.
THEOREM OneRuns == WatchSpec => []OneLazygit
<1>1. WatchInv => OneLazygit
  <2> SUFFICES ASSUME WatchInv, ~lost PROVE Cardinality(Alive) <= 1 /\ (wpc = "ended" => Alive = {})
    BY DEF OneLazygit
  <2>1. Alive \subseteq {child}
    BY DEF WatchInv, ChildRuns
  <2>2. Alive = {} \/ Alive = {child}
    BY <2>1
  <2>3. Cardinality(Alive) <= 1
    <3>1. Cardinality({}) = 0 /\ Cardinality({child}) = 1
      BY FS_EmptySet, FS_Singleton
    <3>2. Cardinality(Alive) \in {0, 1}
      BY <2>2, <3>1, Zenon
    <3>3. QED
      BY <3>2
  <2>4. wpc = "ended" => Alive = {}
    BY <2>1, WatchAssumption DEF WatchInv, ChildAt, Alive
  <2>5. QED
    BY <2>3, <2>4
<1>2. QED
  BY <1>1, InitWatchInv, NextWatchInv, PTL DEF WatchSpec

\* The cwd the loop compares the focused root with is where its child runs.
THEOREM CWDTrue == WatchSpec => []ChildInCWD
<1>1. WatchInv => ChildInCWD
  BY DEF WatchInv
<1>2. QED
  BY <1>1, InitWatchInv, NextWatchInv, PTL DEF WatchSpec

\* No exit is received twice: while stop waits, the exit it waits for can
\* still come, and after SIGKILL nothing but the kernel is needed for it.
THEOREM StopIsAnswered == WatchSpec => []ExitComes
<1>1. WatchInv => ExitComes
  BY DEF WatchInv
<1>2. QED
  BY <1>1, InitWatchInv, NextWatchInv, PTL DEF WatchSpec

\* Every step of the watcher, of its processes and of herdr is a step of
\* Supervisor or none of its business.
LEMMA WatcherSupervises == ASSUME WatchInv, Watcher, ~lost' PROVE [Keeper!Next]_(Keeper!vars)
<1> USE WatchAssumption DEF WatchInv, WatchTypeOK, Alive, Owed, Move, procVars, chanVars
<1>1. ~lost
  BY DEF Watcher, OnEvent, OnTick, OnChildDone, OnStreamEnd, Query, Terminate, StopFails, StopDone,
         Timeout, Start
<1>2. Alive \subseteq {child} /\ \A c \in done : c \notin Alive
  BY <1>1 DEF ChildRuns
<1>3. CASE OnEvent \/ OnTick
  BY <1>3 DEF OnEvent, OnTick, Keeper!vars
<1>4. CASE OnChildDone
  <2>1. Alive' = {} /\ Alive = {} /\ UNCHANGED <<dir, next, then, focus, lost>> /\ wpc = "loop"
    BY <1>2, <1>4 DEF OnChildDone, Reap
  <2> QED
    BY <1>1, <1>4, <2>1 DEF OnChildDone, AfterFailure, Keeper!Next, Keeper!Leave, Keeper!vars
<1>5. CASE OnStreamEnd
  BY <1>5 DEF OnStreamEnd, Keeper!vars
<1>6. CASE Query
  BY <1>1, <1>6 DEF Query, NextCWD, NextIsCWD, Keeper!Next, Keeper!Ask, Keeper!vars
<1>7. CASE Terminate
  <2>1. child = NoChild => Alive = {}
    BY <1>2
  <2> QED
    BY <1>1, <1>7, <2>1 DEF Terminate, Stopped, StopFails, Keeper!Next, Keeper!Leave, Keeper!vars
<1>8. CASE StopDone
  <2>1. Alive' = {} /\ Alive = {} /\ UNCHANGED <<dir, next, then, focus, lost>>
    BY <1>2, <1>8 DEF StopDone, Reap
  <2> QED
    BY <1>1, <1>8, <2>1 DEF StopDone, Stopped, Keeper!Next, Keeper!Leave, Keeper!vars
<1>9. CASE Timeout
  BY <1>1, <1>9 DEF Timeout, AfterKill, StopFails, Keeper!vars
<1>10. CASE Start
  <2>1. Alive = {} /\ wpc = "start" /\ UNCHANGED <<next, focus, lost>> /\ wpc' = "loop"
    BY <1>2, <1>10 DEF Start, ChildAt
  <2>2. CASE \E c \in Free : proc' = [proc EXCEPT ![c] = "running"] /\ dir' = [dir EXCEPT ![c] = next]
    <3>1. PICK c \in Free : proc' = [proc EXCEPT ![c] = "running"] /\ dir' = [dir EXCEPT ![c] = next]
      BY <2>2
    <3>2. c \in Children /\ Alive' = {c}
      BY <2>1, <3>1 DEF Free
    <3> QED
      BY <2>1, <3>1, <3>2 DEF Keeper!Next, Keeper!Begin
  <2>3. CASE UNCHANGED <<proc, dir>>
    BY <2>1, <2>3 DEF Keeper!Next, Keeper!Begin
  <2> QED
    BY <1>10, <2>2, <2>3 DEF Start
<1> QED
  BY <1>3, <1>4, <1>5, <1>6, <1>7, <1>8, <1>9, <1>10 DEF Watcher

\* lg-herdr-watch keeps what Supervisor promises.
THEOREM WatchImplements == WatchSpec => Supervises
<1>1. WatchInit => Keeper!Init
  <2> SUFFICES ASSUME WatchInit PROVE Keeper!Init
    OBVIOUS
  <2>1. Alive = {} /\ Root[focus] \in Roots /\ dir \in [Children -> Roots]
    BY WatchAssumption DEF WatchInit, Alive
  <2> QED
    BY <2>1 DEF WatchInit, Owed, Keeper!Init
<1>2. ASSUME WatchInv, [WatchNext]_watchVars PROVE [Keeper!Next]_(Keeper!vars)
  <2>1. CASE lost'
    <3>1. lost' = TRUE
      BY <1>2, <2>1, NextWatchInv DEF WatchInv, WatchTypeOK
    <3> QED
      BY <3>1 DEF Keeper!Next
  <2>2. CASE Watcher /\ ~lost'
    BY <1>2, <2>2, WatcherSupervises
  <2>3. ASSUME NEW c \in Children, Exit(c) PROVE [Keeper!Next]_(Keeper!vars)
    <3>1. Alive' = Alive \ {c} /\ c \in Alive
      BY <1>2, <2>3 DEF Exit, Reap, Alive, WatchInv, WatchTypeOK
    <3>2. UNCHANGED <<dir, focus, next, wpc, then, lost>>
      BY <2>3 DEF Exit, Reap, loopVars
    <3> QED
      BY <3>1, <3>2 DEF Owed, Keeper!Next, Keeper!End
  <2>4. ASSUME NEW w \in Workspaces, FocusWorkspace(w) PROVE [Keeper!Next]_(Keeper!vars)
    <3>1. Root[focus]' \in Roots /\ UNCHANGED <<proc, dir, next, wpc, then, lost>>
      BY <2>4, WatchAssumption DEF FocusWorkspace, loopVars, procVars
    <3> QED
      BY <3>1 DEF Alive, Owed, Keeper!Next, Keeper!Move
  <2>5. CASE Tick \/ Signal \/ StreamEnds \/ UNCHANGED watchVars
    <3>1. UNCHANGED <<proc, dir, next, wpc, then, focus, lost>>
      BY <2>5 DEF Tick, Signal, StreamEnds, watchVars, loopVars, procVars
    <3> QED
      BY <3>1 DEF Alive, Owed, Keeper!vars
  <2> QED
    BY <1>2, <2>1, <2>2, <2>3, <2>4, <2>5 DEF WatchNext
<1>3. QED
  BY <1>1, <1>2, InitWatchInv, NextWatchInv, PTL DEF WatchSpec, Supervises, Keeper!Spec
=============================================================================
