--------------------------- MODULE MonitorProfile ---------------------------
(***************************************************************************)
(* Monitor profiles.  hypr-monitor-profile processes ("requesters") create *)
(* or remove the tablet's headless output through hyprctl and then write   *)
(* one request file; the Lua applier inside Hyprland polls that file and   *)
(* applies the profile (monitor_profiles.lua).                             *)
(*                                                                         *)
(* Lua runs on the compositor's only thread, so hyprctl commands wait for  *)
(* a callback to end, while file accesses of other processes do not.  The  *)
(* request file is truncated, then written; a reader of the truncated file *)
(* sees the same as one who finds no file.                                 *)
(***************************************************************************)
CONSTANTS
    Requesters,  \* hypr-monitor-profile processes, each with its time_ns id
    Labels,      \* every profile label that is ever configured
    Default,     \* the label "default"
    Tablet,      \* labels whose profile sets useTablet
    Faults,      \* whether requesters are killed and Hyprland exits
    None         \* no request, no label

ASSUME MonitorProfileAssumption ==
    /\ Default \in Labels \ Tablet
    /\ Tablet \subseteq Labels
    /\ Faults \in BOOLEAN
    /\ None \notin Requesters \cup Labels

VARIABLES
    rpc,       \* where each requester is
    want,      \* the label it chose
    request,   \* hyprmonitor-profile-request: whose request it holds
    lua,       \* Hyprland: "off", "idle", or "save" within apply_profile
    lastId,    \* last_profile_request_id
    active,    \* state.active_profile
    stateFile, \* hyprmonitor-state.lua
    deployed,  \* labels of the installed configuration
    known,     \* labels of the configuration Hyprland has loaded
    headless,  \* whether the headless output exists
    sunshine,  \* whether sunshine-tablet.service runs
    shown,     \* history: the profile whose monitor rules are in force
    served,    \* history: requests the poll applied since the last load
    calm       \* history: requesters ran one at a time, in a running Hyprland,
               \* and neither was killed nor did it exit

reqVars == <<rpc, want, request, calm>>
luaVars == <<lua, lastId, active, stateFile, known, headless, sunshine, shown, served>>
mpVars == <<rpc, want, request, lua, lastId, active, stateFile, deployed, known,
            headless, sunshine, shown, served, calm>>

Init ==
    /\ rpc = [r \in Requesters |-> "new"]
    /\ want = [r \in Requesters |-> None]
    /\ request = None
    /\ lua = "off"
    /\ lastId = None
    /\ active = Default
    /\ stateFile = None
    /\ deployed = Labels
    /\ known = Labels
    /\ headless = FALSE
    /\ sunshine = FALSE
    /\ shown = None
    /\ served = {}
    /\ calm = TRUE

-----------------------------------------------------------------------------
Running == {r \in Requesters : rpc[r] \notin {"new", "done"}}

\* main: an unknown label ends the process before it changes anything.  The
\* selector is a key binding of Hyprland, which runs unless it failed.
Launch(r, label) ==
    /\ rpc[r] = "new"
    /\ Faults \/ lua # "off"
    /\ want' = [want EXCEPT ![r] = label]
    /\ rpc' = [rpc EXCEPT ![r] = IF label \in deployed THEN "output" ELSE "done"]
    /\ calm' = (calm /\ Running = {} /\ lua # "off")
    /\ UNCHANGED <<request, deployed, luaVars>>

\* set_tablet_headless: hyprctl is answered between two Lua callbacks.
CreateAlways(r) == TRUE                     \* fault: useTablet is not read
WantsHeadless(r) == want[r] \in Tablet

SetHeadless(r) ==
    /\ rpc[r] = "output"
    /\ lua # "save"
    /\ headless' = IF lua = "off" THEN headless ELSE WantsHeadless(r)
    /\ rpc' = [rpc EXCEPT ![r] = "open"]
    /\ UNCHANGED <<want, request, deployed, lua, lastId, active, stateFile, known,
                   sunshine, shown, served, calm>>

\* queue_profile_request: write_text truncates ...
OpenRequest(r) ==
    /\ rpc[r] = "open"
    /\ request' = None
    /\ rpc' = [rpc EXCEPT ![r] = "write"]
    /\ UNCHANGED <<want, deployed, calm, luaVars>>

\* ... and writes the id and the label.
WriteRequest(r) ==
    /\ rpc[r] = "write"
    /\ request' = r
    /\ rpc' = [rpc EXCEPT ![r] = "done"]
    /\ UNCHANGED <<want, deployed, calm, luaVars>>

KillRequester(r) ==
    /\ Faults
    /\ r \in Running
    /\ rpc' = [rpc EXCEPT ![r] = "done"]
    /\ calm' = FALSE
    /\ UNCHANGED <<want, request, deployed, luaVars>>

-----------------------------------------------------------------------------
\* start_sunshine finds the headless output or gives up after 3 seconds, in
\* which the blocked compositor cannot create one.
Serves(label) == label \in Tablet /\ headless

\* apply_profile for a label of the configuration, up to io.open in
\* save_state: the state file is truncated.
ApplyKnown(label) ==
    /\ sunshine' = Serves(label)
    /\ shown' = label
    /\ active' = label
    /\ stateFile' = None
    /\ lua' = "save"

\* poll_profile_request
NewRequest == request # None /\ request # lastId

Poll ==
    /\ lua = "idle"
    /\ NewRequest
    /\ lastId' = request
    /\ served' = served \cup {request}
    /\ \/ /\ want[request] \in known
          /\ ApplyKnown(want[request])
       \/ /\ want[request] \notin known      \* notify "unknown monitor profile"
          /\ UNCHANGED <<lua, active, stateFile, sunshine, shown>>
    /\ UNCHANGED <<reqVars, deployed, known, headless>>

RequestedLabel == IF lastId = None THEN None ELSE want[lastId]
                                            \* fault: not state.active_profile
SavedLabel == active

\* The rest of save_state, settle_monitor_layout and switch_audio.
SaveState ==
    /\ lua = "save"
    /\ stateFile' = SavedLabel
    /\ lua' = "idle"
    /\ UNCHANGED <<reqVars, deployed, lastId, active, known, headless, sunshine, shown, served>>

\* load_state, then load_desired_profile: what a fresh Lua state starts from.
Saved == IF stateFile = None THEN Default ELSE stateFile
StateFileOnly == Saved                      \* fault: the request is not read
RequestOnly == IF request = None THEN Default ELSE want[request]
                                            \* fault: the state is not read
Desired == IF request = None THEN Saved ELSE want[request]

\* The module is loaded, at start or when the configuration is reloaded.  A
\* reload drops the monitor rules of the configuration before.
Load ==
    /\ known' = deployed
    /\ lastId' = request
    /\ served' = {}
    /\ \/ /\ Desired \in deployed
          /\ ApplyKnown(Desired)
       \/ /\ Desired \notin deployed
          /\ active' = Desired
          /\ lua' = "idle"
          /\ shown' = None
          /\ UNCHANGED <<stateFile, sunshine>>
    /\ UNCHANGED <<reqVars, deployed, headless>>

Boot == lua = "off" /\ Load
Reload == lua = "idle" /\ Load

\* A rebuild installs other profiles; is_valid_profile_label always accepts
\* "default".
Rebuild ==
    /\ \E labels \in SUBSET Labels : deployed' = labels \cup {Default}
    /\ UNCHANGED <<reqVars, luaVars>>

\* Hyprland ends, perhaps within save_state; its headless outputs go with it.
\* The files in XDG_RUNTIME_DIR and the sunshine unit stay.
Exit ==
    /\ Faults
    /\ lua # "off"
    /\ lua' = "off"
    /\ headless' = FALSE
    /\ shown' = None
    /\ calm' = FALSE
    /\ UNCHANGED <<rpc, want, request, deployed, lastId, active, stateFile, known, sunshine, served>>

RequesterStep(r) == SetHeadless(r) \/ OpenRequest(r) \/ WriteRequest(r)
LuaStep == Poll \/ SaveState \/ Boot

Next ==
    \/ \E r \in Requesters : \/ \E label \in Labels : Launch(r, label)
                             \/ RequesterStep(r)
                             \/ KillRequester(r)
    \/ LuaStep
    \/ Reload
    \/ Rebuild
    \/ Exit

Spec == Init /\ [][Next]_mpVars

-----------------------------------------------------------------------------
TypeOK ==
    /\ rpc \in [Requesters -> {"new", "output", "open", "write", "done"}]
    /\ want \in [Requesters -> Labels \cup {None}]
    /\ request \in Requesters \cup {None}
    /\ lua \in {"off", "idle", "save"}
    /\ lastId \in Requesters \cup {None}
    /\ active \in Labels
    /\ stateFile \in Labels \cup {None}
    /\ deployed \in SUBSET Labels
    /\ known \in SUBSET Labels
    /\ headless \in BOOLEAN
    /\ sunshine \in BOOLEAN
    /\ shown \in Labels \cup {None}
    /\ served \in SUBSET Requesters
    /\ calm \in BOOLEAN

\* Between two loads the poll applies no request twice, whatever is written
\* to the request file and whenever the timer fires.
AppliedOnce == [][Poll => request \notin served]_mpVars

\* game-mode reads the state file to know what to restore: while Lua is idle
\* it names the profile in force.
StateFileTells == lua = "idle" /\ shown # None => stateFile = shown

\* Reloading an unchanged configuration keeps the profile in force, also when
\* a requester was killed between truncating the file and writing it.
ReloadKeepsProfile ==
    [][/\ Reload
       /\ known' = known
       /\ shown # None
       /\ request = None \/ (request = lastId /\ want[request] \in known)
       => shown' = shown]_mpVars

\* Everything requested is applied, and the running configuration knew it.
Quiet ==
    /\ lua = "idle"
    /\ Running = {}
    /\ request = lastId
    /\ request # None => want[request] \in known

\* When the user picks one profile at a time, the headless output and the
\* sunshine unit exist exactly for a tablet profile: the output is created
\* before the request that needs it is queued.
TabletServed ==
    calm /\ Quiet => /\ headless <=> shown \in Tablet
                     /\ sunshine <=> shown \in Tablet

\* No request is lost: as long as Hyprland runs again and again, what the file
\* holds is applied, by the poll, a reload or the next start, as requests
\* replace each other, unless a rebuild drops its profile.
RequestsTaken ==
    []<>(lua # "off")
    => []<>(request # None => shown = want[request] \/ want[request] \notin known \cap deployed)
=============================================================================
