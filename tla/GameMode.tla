------------------------------ MODULE GameMode ------------------------------
(***************************************************************************)
(* The game-mode command (pkgs/game-mode) over the monitor profiles: quit  *)
(* the desktop's Steam, start game-mode.service on the TV, move the sound  *)
(* there, wait for the session to end and restore the desktop by asking    *)
(* for the profile in Hyprland's state file again, which also brings the   *)
(* sound back.                                                             *)
(*                                                                         *)
(* A game invocation is a requester of MonitorProfile once it restores; a  *)
(* requester that is not one is the user choosing a profile.               *)
(* Sound is what was asked for last: SwitchAudio shows that the newest     *)
(* request wins. The applier only spawns its switchaudio, which queues its *)
(* request some time later: the requests of two profiles, or of a profile  *)
(* and game mode, are queued in any order. A command of the script that    *)
(* fails and is not piped to `complete` ends it                            *)
(* (modules/terminal/scripts/prunegit.nu:4-5).                             *)
(***************************************************************************)
EXTENDS MonitorProfile, Naturals

CONSTANTS
    Games,   \* requesters that may be invocations of game-mode
    TV,      \* the sound of the game session
    Silent,  \* labels for which neither profile nor host names a sink
    MaxSwitches  \* bound: switchaudio commands of one profile on their way

ASSUME GameModeAssumption ==
    /\ Games \subseteq Requesters
    /\ TV \notin Labels \cup {None}
    /\ Silent \subseteq Labels
    /\ MaxSwitches \in Nat \ {0}

VARIABLES
    gpc,       \* where each invocation is
    steamWas,  \* steam_was_running
    steam,     \* the user's Steam: "none", "desktop" or "session"
    quitting,  \* whether Steam was asked to shut down
    unit,      \* ActiveState of game-mode.service
    audio,     \* the profile, or TV, whose sound was queued last
    switching, \* per profile, switchaudio commands spawned and not yet queued
    raced      \* history: another profile's command was on its way when the
               \* last one was spawned

gameVars == <<gpc, steamWas>>
soundVars == <<audio, switching, raced>>
sysVars == <<steam, quitting, unit, soundVars>>
gmVars == <<mpVars, gameVars, sysVars>>

Busy == {"active", "deactivating"}
Ended == {"done", "refused", "aborted", "unrestored"}

GMInit ==
    /\ Init
    /\ gpc = [g \in Games |-> "new"]
    /\ steamWas = [g \in Games |-> FALSE]
    /\ steam \in {"none", "desktop"}
    /\ quitting = FALSE
    /\ unit = "inactive"
    /\ audio = None
    /\ switching = [l \in Labels |-> 0]
    /\ raced = FALSE

GotoG(g, label) == gpc' = [gpc EXCEPT ![g] = label]

\* main: the unit must be idle and the TV connected.
CheckUnit(g) ==
    /\ gpc[g] = "new"
    /\ rpc[g] = "new"
    /\ lua # "off"
    /\ \/ GotoG(g, "refused")
       \/ unit \notin Busy /\ GotoG(g, "steam")
    /\ UNCHANGED <<mpVars, steamWas, sysVars>>

\* steam-running; a running Steam is asked to shut down, and a client that
\* does not return within 20 seconds ends the script.
CheckSteam(g) ==
    /\ gpc[g] = "steam"
    /\ steamWas' = [steamWas EXCEPT ![g] = steam # "none"]
    /\ \/ /\ steam = "none"
          /\ GotoG(g, "start")
          /\ UNCHANGED quitting
       \/ /\ steam # "none"
          /\ quitting' = TRUE
          /\ GotoG(g, "quit") \/ GotoG(g, "aborted")
    /\ UNCHANGED <<mpVars, steam, unit, soundVars>>

\* Wait 30 seconds for Steam to quit, or give up.
AwaitForever == "quit"                      \* fault: no deadline
GivesUp == "refused"

AwaitQuit(g) ==
    /\ gpc[g] = "quit"
    /\ GotoG(g, IF steam = "none" THEN "start" ELSE GivesUp)
    /\ UNCHANGED <<mpVars, steamWas, sysVars>>

\* systemctl start joins a running session and waits for one that stops.
StartUnit(g) ==
    /\ gpc[g] = "start"
    /\ unit # "deactivating"
    /\ \/ /\ GotoG(g, "up")
          /\ unit' = "active"
          /\ steam' = IF steam = "none" THEN "session" ELSE steam
       \/ /\ unit = "inactive"
          /\ GotoG(g, "restore")
          /\ UNCHANGED <<unit, steam>>
    /\ UNCHANGED <<mpVars, steamWas, quitting, soundVars>>

\* gamescope is up within 20 seconds, or the sound is left alone.
AwaitGamescope(g) ==
    /\ gpc[g] = "up"
    /\ GotoG(g, "audio") \/ GotoG(g, "wait")
    /\ UNCHANGED <<mpVars, steamWas, sysVars>>

\* switchaudio --wait 120 queues its request ...
AskAudio(g) ==
    /\ gpc[g] = "audio"
    /\ audio' = TV
    /\ GotoG(g, "audiowait")
    /\ UNCHANGED <<mpVars, steamWas, steam, quitting, unit, switching, raced>>

\* ... and blocks: it switched or was superseded, or it timed out or failed,
\* which exits 1
\* and ends the script before restore.
AwaitAudio(g) ==
    /\ gpc[g] = "audiowait"
    /\ GotoG(g, "wait") \/ GotoG(g, "unrestored")
    /\ UNCHANGED <<mpVars, steamWas, sysVars>>

\* wait-until the unit is no longer active, activating or deactivating.
AwaitEnd(g) ==
    /\ gpc[g] = "wait"
    /\ unit \notin Busy
    /\ GotoG(g, "restore")
    /\ UNCHANGED <<mpVars, steamWas, sysVars>>

\* active-monitor-profile, then hypr-monitor-profile with that label.
ActiveMonitorProfile == IF stateFile = None THEN Default ELSE stateFile
Restore(g) ==
    /\ gpc[g] = "restore"
    /\ Launch(g, ActiveMonitorProfile)
    /\ GotoG(g, IF ActiveMonitorProfile \in deployed THEN "profile" ELSE "aborted")
    /\ UNCHANGED <<steamWas, sysVars>>

\* hypr-monitor-profile exited 0 (it exits 1 for an unknown label): Steam is
\* started again if it ran before.
RestoreSteam(g) ==
    /\ gpc[g] = "profile"
    /\ rpc[g] = "done"
    /\ steam' = IF steamWas[g] /\ steam = "none" THEN "desktop" ELSE steam
    /\ quitting' = (quitting /\ steam # "none")
    /\ GotoG(g, "done")
    /\ UNCHANGED <<mpVars, steamWas, unit, soundVars>>

-----------------------------------------------------------------------------
\* Steam does what it was asked; gamescope ends when its Steam is gone.
SteamQuits ==
    /\ quitting
    /\ quitting' = FALSE
    /\ steam' = "none"
    /\ unit' = IF steam = "session" /\ unit = "active" THEN "deactivating" ELSE unit
    /\ UNCHANGED <<mpVars, gameVars, soundVars>>

\* The user leaves the session (game-mode-exit, "Switch to Desktop"), or it
\* crashes: the stop command shuts Steam down.
SessionEnds ==
    /\ unit = "active"
    /\ unit' = "deactivating"
    /\ steam' = "none"
    /\ quitting' = FALSE
    /\ UNCHANGED <<mpVars, gameVars, soundVars>>

\* ExecStopPost has run.
UnitStopped ==
    /\ unit = "deactivating"
    /\ unit' = "inactive"
    /\ UNCHANGED <<mpVars, gameVars, steam, quitting, soundVars>>

\* The desktop goes on meanwhile.  switch_audio ends every apply_profile: it
\* spawns a switchaudio command where the configuration names a sink.
NoSwitch == switching                       \* fault: the profile brings no sound
SpawnSwitch ==
    IF active \in Silent THEN switching ELSE [switching EXCEPT ![active] = @ + 1]

ApplyEnds ==
    /\ SaveState
    /\ switching[active] < MaxSwitches
    /\ switching' = SpawnSwitch
    /\ raced' = \E l \in Labels \ {active} : switching[l] > 0
    /\ UNCHANGED <<gameVars, steam, quitting, unit, audio>>

\* switchaudio --wait of a profile queues its request.
SwitchQueues(l) ==
    /\ switching[l] > 0
    /\ switching' = [switching EXCEPT ![l] = @ - 1]
    /\ audio' = l
    /\ UNCHANGED <<mpVars, gameVars, steam, quitting, unit, raced>>

\* A killed hypr-monitor-profile ends the script that waits for it; the
\* user's own counts as aborted, too.
Killed(r) ==
    /\ KillRequester(r)
    /\ gpc' = [g \in Games |-> IF g = r THEN "aborted" ELSE gpc[g]]
    /\ UNCHANGED <<steamWas, sysVars>>

Desktop ==
    /\ \/ \E r \in Requesters, label \in Labels :
              (r \in Games => gpc[r] = "new") /\ Launch(r, label)
       \/ \E r \in Requesters : RequesterStep(r)
       \/ Poll \/ Boot \/ Reload \/ Rebuild \/ Exit
    /\ UNCHANGED <<gameVars, sysVars>>

GameStep(g) ==
    \/ CheckSteam(g) \/ AwaitQuit(g) \/ StartUnit(g) \/ AwaitGamescope(g)
    \/ AskAudio(g) \/ AwaitAudio(g) \/ AwaitEnd(g) \/ Restore(g) \/ RestoreSteam(g)

GMNext ==
    \/ \E g \in Games : CheckUnit(g) \/ GameStep(g)
    \/ SteamQuits \/ SessionEnds \/ UnitStopped
    \/ ApplyEnds
    \/ \E l \in Labels : SwitchQueues(l)
    \/ Desktop
    \/ \E r \in Requesters : Killed(r)

GMSpec == GMInit /\ [][GMNext]_gmVars

\* Processes run on, systemd finishes a stop (TimeoutStopSec), Hyprland's
\* timer fires.  hyprctl is answered between two callbacks however often the
\* configuration is reloaded: strong fairness.  Nothing makes the user end a
\* session, or start Hyprland again once it ended.
GMFairSpec ==
    /\ GMSpec
    /\ \A g \in Games : WF_gmVars(GameStep(g))
    /\ \A r \in Requesters : SF_gmVars(RequesterStep(r) /\ UNCHANGED <<gameVars, sysVars>>)
    /\ WF_gmVars(UnitStopped)
    /\ WF_gmVars(ApplyEnds)
    /\ \A l \in Labels : WF_gmVars(SwitchQueues(l))
    /\ WF_gmVars(Poll /\ UNCHANGED <<gameVars, sysVars>>)

-----------------------------------------------------------------------------
GMTypeOK ==
    /\ TypeOK
    /\ gpc \in [Games -> {"new", "steam", "quit", "start", "up", "audio",
                          "audiowait", "wait", "restore", "profile"} \cup Ended]
    /\ steamWas \in [Games -> BOOLEAN]
    /\ steam \in {"none", "desktop", "session"}
    /\ quitting \in BOOLEAN
    /\ unit \in Busy \cup {"inactive"}
    /\ audio \in Labels \cup {TV, None}
    /\ switching \in [Labels -> 0..MaxSwitches]
    /\ raced \in BOOLEAN

\* "Re-applying the profile also switches audio back" (game-mode.nu:50): when
\* no invocation runs or was cut short, the applier has caught up and every
\* command it spawned has queued its request, the sound of the TV is not the
\* last one asked for, and it is that of the profile in force unless a command
\* of another profile was overtaken.  A profile without a sink brings no sound.
Settled == Quiet /\ \A l \in Labels : switching[l] = 0

AudioBack ==
    /\ \A g \in Games : gpc[g] \in {"new", "done", "refused"}
    /\ Settled
    /\ shown \notin Silent \cup {None}
    => audio # TV /\ (~raced => audio = shown)

\* Once sessions end, every invocation that started one ends too: it does not
\* wait forever for Steam, gamescope, the sound or the unit.
GamesEnd ==
    []<>(unit # "active") => <>[](\A g \in Games : gpc[g] \in {"new"} \cup Ended)

\* "... wait for it to end, then restore the desktop's monitor profile, audio,
\* and Steam" (game-mode.nu:3-4): an invocation that started the session does
\* not end before it restored the profile.
RestoresDesktop == \A g \in Games : gpc[g] # "unrestored"
=============================================================================
