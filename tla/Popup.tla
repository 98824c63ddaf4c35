------------------------------- MODULE Popup -------------------------------
(***************************************************************************)
(* herdr's popup overlays (pkgs/herdr-keybinds/popup.go, state.go).  Every *)
(* key press runs one "herdrctl toggle-popup" process; it asks herdr for   *)
(* the current pane, reads state.json, closes panes, saves, opens a new    *)
(* overlay and saves again.  Processes overlap when keys are pressed       *)
(* quickly (AtOnce); they may be killed and herdr's calls may fail         *)
(* (Faults).                                                               *)
(*                                                                         *)
(* A toggle opens at most one pane, so the pane is named after it.  The    *)
(* state file holds the popup names it has keys for and the panes tracked. *)
(***************************************************************************)
EXTENDS FiniteSets, Naturals

CONSTANTS
    Toggles,   \* key presses, and the panes they open
    Names,     \* popup names
    Lazygit,   \* the name loadPopupNames falls back to
    None,      \* a pane that is no popup; no file; no open descriptor
    Empty,     \* the contents of a truncated file
    Torn,      \* the contents of a file that is not JSON
    AtOnce,    \* bound: toggles that run at the same time
    Together,  \* bound: the names whose toggles do
    Faults     \* whether processes are killed and calls fail

States == [names : SUBSET Names, panes : SUBSET Toggles]

ASSUME PopupAssumption ==
    /\ Lazygit \in Names
    /\ None \notin Toggles
    /\ {None, Empty, Torn} \cap States = {}
    /\ Empty # Torn /\ None \notin {Empty, Torn, "tmp", "file", "gone", "closed"}
    /\ AtOnce \in Nat /\ Together \subseteq Names
    /\ Faults \in BOOLEAN

VARIABLES
    pc,        \* where each toggle is
    name,      \* the popup it toggles
    caller,    \* the pane it was pressed in
    state,     \* its copy of the plugin state
    queue,     \* panes it still has to close
    failed,    \* the error it will return
    fd,        \* where the file it is writing is linked now
    open,      \* herdr: the open popup panes
    retitled,  \* herdr: those whose title is no longer the popup's name
    current,   \* herdr: the focused pane
    file, tmp, \* state.json and state.json.tmp
    solo,      \* history: the last toggle, if no other has run beside it
    clean,     \* history: no call has failed and no toggle was killed
    apart      \* history: no two toggles have run beside each other

toggleVars == <<name, caller, state, queue, failed>>
herdrVars == <<open, retitled, current>>
fileVars == <<fd, file, tmp>>
history == <<solo, clean, apart>>
vars == <<pc, toggleVars, herdrVars, fileVars, history>>

NoState == [names |-> {}, panes |-> {}]
Contents == States \cup {Empty, Torn, None}

Running == {t \in Toggles : pc[t] \notin {"new", "done"}}
Of(n) == {p \in Toggles : name[p] = n}

Init ==
    /\ pc = [t \in Toggles |-> "new"]
    /\ name = [t \in Toggles |-> Lazygit]
    /\ caller = [t \in Toggles |-> None]
    /\ state = [t \in Toggles |-> NoState]
    /\ queue = [t \in Toggles |-> {}]
    /\ failed = [t \in Toggles |-> FALSE]
    /\ fd = [t \in Toggles |-> None]
    /\ open = {}
    /\ retitled = {}
    /\ current = None
    /\ file = None
    /\ tmp = None
    /\ solo = None
    /\ clean = TRUE
    /\ apart = TRUE

Goto(t, label) == pc' = [pc EXCEPT ![t] = label]
Fail(t) == failed' = [failed EXCEPT ![t] = TRUE]

-----------------------------------------------------------------------------
\* A key press: herdr puts the focused pane into the environment.
Press(t) ==
    /\ pc[t] = "new"
    /\ Cardinality(Running) < AtOnce
    /\ \E n \in Names :
          /\ Running # {} => {n} \cup {name[r] : r \in Running} \subseteq Together
          /\ name' = [name EXCEPT ![t] = n]
    /\ caller' = [caller EXCEPT ![t] = current]
    /\ solo' = IF Running = {} THEN t ELSE None
    /\ apart' = (apart /\ Running = {})
    /\ Goto(t, "current")
    /\ UNCHANGED <<state, queue, failed, herdrVars, fileVars, clean>>

\* isPopupPane: by label, else by title.
IsPopupPane(p, n) == p \in (open \ retitled) \cap Of(n)

\* CurrentPane, then loadPluginState.  A caller that has closed is an error,
\* and so is a state file that does not decode.
CurrentPane(t) ==
    /\ pc[t] = "current"
    /\ IF caller[t] \in open \cup {None}
         THEN /\ queue' = [queue EXCEPT ![t] = {p \in {caller[t]} : IsPopupPane(p, name[t])}]
              /\ Goto(t, "load")
              /\ UNCHANGED failed
         ELSE Goto(t, "done") /\ Fail(t) /\ UNCHANGED queue
    /\ UNCHANGED <<name, caller, state, herdrVars, fileVars, history>>

LoadPluginState(t) ==
    /\ pc[t] = "load"
    /\ IF file = Torn
         THEN Goto(t, "done") /\ Fail(t) /\ UNCHANGED state
         ELSE /\ state' = [state EXCEPT ![t] = IF file \in {None, Empty} THEN NoState ELSE file]
              /\ Goto(t, IF queue[t] = {} THEN "list" ELSE "close-active")
              /\ UNCHANGED failed
    /\ UNCHANGED <<name, caller, queue, herdrVars, fileVars, history>>

\* popupPaneIDs: the tracked panes and the listed ones of the name.
TrackedOnly(t) == state[t].panes \cap Of(name[t])   \* fault: nothing is listed
ListedOnly(t) == {p \in open : IsPopupPane(p, name[t])}  \* fault: none tracked
CallerToo(t) == (state[t].panes \cap Of(name[t])) \cup {caller[t]}  \* fault: "" is closed
PopupPaneIDs(t) == (state[t].panes \cap Of(name[t])) \cup {p \in open : IsPopupPane(p, name[t])}

ListPanes(t) ==
    /\ pc[t] = "list"
    /\ queue' = [queue EXCEPT ![t] = PopupPaneIDs(t)]
    /\ Goto(t, "close")
    /\ UNCHANGED <<name, caller, state, failed, herdrVars, fileVars, history>>

\* closeTrackedPopupPanes: one plugin.pane.close per pane.  A missing pane is
\* no error; a pane is dropped from the state also when its close failed.
Closing == {"close-active", "close"}

ClosePane(t, p) ==
    /\ pc[t] \in Closing
    /\ p \in queue[t]
    /\ queue' = [queue EXCEPT ![t] = @ \ {p}]
    /\ state' = [state EXCEPT ![t].panes = @ \ {p}]
    /\ \/ /\ open' = open \ {p}
          /\ retitled' = retitled \ {p}
          /\ current' \in IF current = p THEN {None} \cup open' ELSE {current}
          /\ UNCHANGED <<failed, clean>>
       \/ /\ Faults /\ p \in open
          /\ Fail(t)
          /\ clean' = FALSE
          /\ UNCHANGED herdrVars
    /\ UNCHANGED <<pc, name, caller, fileVars, solo, apart>>

-----------------------------------------------------------------------------
\* savePluginState: os.WriteFile opens state.json.tmp and truncates it ...
Saving == {"save", "save-last"}
ReadyToSave(t) == pc[t] = "opened" \/ (pc[t] \in Closing /\ queue[t] = {})

OpenTmp(t) ==
    /\ ReadyToSave(t)
    /\ Goto(t, IF pc[t] = "close" THEN "save" ELSE "save-last")
    /\ fd' = [fd EXCEPT ![t] = "tmp"]
    /\ tmp' = Empty
    /\ UNCHANGED <<toggleVars, herdrVars, file, history>>

\* ... writes at offset 0: a longer text of another process shows behind it
\* (lengths are not modelled, so any other text may).
Over(old, s) == {s} \cup IF old \in {None, Empty, s} THEN {} ELSE {Torn}

\* The file written to may have been renamed to state.json or replaced since.
WriteTmp(t) ==
    /\ pc[t] \in Saving
    /\ fd[t] \in {"tmp", "file", "gone"}
    /\ tmp' \in IF fd[t] = "tmp" THEN Over(tmp, state[t]) ELSE {tmp}
    /\ file' \in IF fd[t] = "file" THEN Over(file, state[t]) ELSE {file}
    /\ fd' = [fd EXCEPT ![t] = "closed"]
    /\ UNCHANGED <<pc, toggleVars, herdrVars, history>>

\* After the first save the errors are returned, a close before a save error.
NoCloseError(t) == ~failed[t]

\* os.Rename moves what the temporary name holds now; it fails if another
\* process has moved it.
RenameEarly(t) == fd[t] # None          \* fault: renamed before it is written
Written(t) == fd[t] = "closed"

Rename(t) ==
    /\ pc[t] \in Saving
    /\ Written(t)
    /\ IF tmp = None
         THEN /\ Fail(t)
              /\ Goto(t, "done")
              /\ fd' = [fd EXCEPT ![t] = None]
              /\ UNCHANGED <<file, tmp>>
         ELSE /\ file' = tmp
              /\ tmp' = None
              /\ fd' = [u \in Toggles |-> IF u = t THEN None
                                          ELSE IF fd[u] = "tmp" THEN "file"
                                          ELSE IF fd[u] = "file" THEN "gone" ELSE fd[u]]
              /\ Goto(t, IF pc[t] = "save" /\ NoCloseError(t) THEN "overlay" ELSE "done")
              /\ UNCHANGED failed
    /\ UNCHANGED <<name, caller, state, queue, herdrVars, history>>

-----------------------------------------------------------------------------
\* The state after a popup opened: it replaces what was tracked of its name.
                                        \* fault: an absent name is not added
Tracked(t) == [names |-> state[t].names \cup {name[t]},
               panes |-> (state[t].panes \ Of(name[t])) \cup {t}]

\* openOverlay: the pane opens with the focus; the nudge after it may fail,
\* which is returned, but only after the pane has been recorded.
OpenOverlay(t) ==
    /\ pc[t] = "overlay"
    /\ open' = open \cup {t}
    /\ current' = t
    /\ state' = [state EXCEPT ![t] = Tracked(t)]
    /\ failed' \in {failed, [failed EXCEPT ![t] = TRUE]}
    /\ Goto(t, "opened")
    /\ UNCHANGED <<name, caller, queue, retitled, fileVars, history>>

\* Errors that end a toggle: pane.current, reading the state, pane.list,
\* writing, no workspace directory, plugin.pane.open.
CallFails(t) ==
    /\ Faults
    /\ pc[t] \in {"current", "load", "list", "overlay"} \/ ReadyToSave(t)
    /\ Goto(t, "done")
    /\ Fail(t)
    /\ clean' = FALSE
    /\ UNCHANGED <<name, caller, state, queue, herdrVars, fileVars, solo, apart>>

Kill(t) ==
    /\ Faults
    /\ t \in Running
    /\ Goto(t, "done")
    /\ Fail(t)
    /\ clean' = FALSE
    /\ fd' = [fd EXCEPT ![t] = None]
    /\ UNCHANGED <<name, caller, state, queue, herdrVars, file, tmp, solo, apart>>

\* The user quits a popup's program or focuses another pane, and a program
\* changes its terminal's title.
Quit(p) ==
    /\ p \in open
    /\ open' = open \ {p}
    /\ retitled' = retitled \ {p}
    /\ current' \in IF current = p THEN {None} \cup open' ELSE {current}
    /\ UNCHANGED <<pc, toggleVars, fileVars, history>>

Focus ==
    /\ current' \in ({None} \cup open) \ {current}
    /\ UNCHANGED <<pc, toggleVars, open, retitled, fileVars, history>>

Retitle(p) ==
    /\ p \in open \ retitled
    /\ retitled' = retitled \cup {p}
    /\ UNCHANGED <<pc, toggleVars, open, current, fileVars, history>>

Step(t) ==
    \/ CurrentPane(t) \/ LoadPluginState(t) \/ ListPanes(t)
    \/ \E p \in Toggles : ClosePane(t, p)
    \/ OpenTmp(t) \/ WriteTmp(t) \/ Rename(t) \/ OpenOverlay(t) \/ CallFails(t)

Next ==
    \/ \E t \in Toggles : Press(t) \/ Step(t) \/ Kill(t) \/ Quit(t) \/ Retitle(t)
    \/ Focus

Spec == Init /\ [][Next]_vars

-----------------------------------------------------------------------------
TypeOK ==
    /\ pc \in [Toggles -> {"new", "current", "load", "list", "overlay", "opened", "done"} \cup Closing \cup Saving]
    /\ name \in [Toggles -> Names]
    /\ caller \in [Toggles -> Toggles \cup {None}]
    /\ state \in [Toggles -> States]
    /\ queue \in [Toggles -> SUBSET Toggles]
    /\ failed \in [Toggles -> BOOLEAN]
    /\ fd \in [Toggles -> {None, "tmp", "file", "gone", "closed"}]
    /\ open \in SUBSET Toggles
    /\ retitled \in SUBSET open
    /\ current \in open \cup {None}
    /\ file \in Contents
    /\ tmp \in Contents
    /\ solo \in Toggles \cup {None}
    /\ clean \in BOOLEAN /\ apart \in BOOLEAN

\* "savePluginState atomically writes helper state to disk" (state.go:55):
\* whoever reads state.json finds a whole state.
FileWhole == file \notin {Empty, Torn}

\* It does as long as no two toggles overlap, also after one died between the
\* write and the rename.
ApartWhole == apart => FileWhole

\* Whatever overlapping key presses left behind, the next toggle that opens
\* its popup, and has herdr and the file to itself, leaves no other of the name.
NextToggleHeals ==
    solo \in open => \A p \in open \ retitled : name[p] = name[solo] => p = solo

LoadPopupNames ==
    IF file = Torn THEN {Lazygit} ELSE IF file \in {None, Empty} THEN {} ELSE file.names

\* A toggle "replaces all popups of the same kind with one" (popup.go:12):
\* while toggles do not overlap there are never two, also when a program has
\* changed the title by which popups are listed, or the geometry nudge failed.
\* And "isActivePopupOverlay prevents navigation bindings from escaping any
\* popup" (popup.go:151): once no toggle runs, the name of the focused popup
\* is among those loadPopupNames returns.
OnePopup ==
    clean /\ apart =>
        /\ \A p, q \in open : name[p] = name[q] => p = q
        /\ Running = {} /\ current \in open \ retitled => name[current] \in LoadPopupNames
=============================================================================
