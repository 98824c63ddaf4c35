--------------------------- MODULE GameModeProofs ---------------------------
(***************************************************************************)
(* MonitorProfile and GameMode for any requesters, labels and invocations, *)
(* with kills and exits.  First the monitor profiles by themselves: the    *)
(* state file is right whenever Lua is idle, and no request is applied     *)
(* twice between two loads.  The second needs that a request in the file   *)
(* that was served already is the last one polled, which holds because     *)
(* every requester writes its id once.                                     *)
(*                                                                         *)
(* Composed with game mode, the monitor profiles still do what             *)
(* MonitorProfile allows, so that what is proved of them holds there, too. *)
(* The sound comes back because whoever took it away is still to queue a   *)
(* request, or has, and every request that is applied spawns the command   *)
(* that asks for the sound of its profile.                                 *)
(***************************************************************************)
EXTENDS GameMode, TLAPS

\* Only requesters that have written are in the file, were polled or served.
WrittenOnce ==
    /\ request # None => rpc[request] = "done"
    /\ lastId # None => rpc[lastId] = "done"
    /\ \A r \in served : rpc[r] = "done"
    /\ \A r \in Requesters : rpc[r] \in {"open", "write", "done"} => want[r] # None
    /\ \A r \in Requesters : rpc[r] = "output" => want[r] # None

\* A served request that is still in the file is the last one polled.
ServedIsLast == request # None /\ request \in served => request = lastId

\* While the state file is being written, it is the applied profile's turn.
SavesShown == lua = "save" => active = shown

MPInv ==
    /\ TypeOK
    /\ WrittenOnce
    /\ ServedIsLast
    /\ SavesShown
    /\ StateFileTells

LEMMA InitMPInv == Init => MPInv
BY MonitorProfileAssumption
   DEF Init, MPInv, TypeOK, WrittenOnce, ServedIsLast, SavesShown, StateFileTells

\* The steps of the requesters leave Lua and the state file alone.
LEMMA RequesterKeeps ==
    ASSUME MPInv, NEW r \in Requesters,
           (\E label \in Labels : Launch(r, label)) \/ RequesterStep(r) \/ KillRequester(r)
    PROVE  MPInv'
<1> USE MonitorProfileAssumption DEF MPInv, reqVars, luaVars
<1>1. CASE \E label \in Labels : Launch(r, label)
  BY <1>1 DEF Launch, Running, TypeOK, WrittenOnce, ServedIsLast, SavesShown, StateFileTells
<1>2. CASE SetHeadless(r)
  <2>1. headless' \in BOOLEAN
    <3>1. WantsHeadless(r) \in BOOLEAN
      BY DEF WantsHeadless
    <3>2. headless \in BOOLEAN
      BY DEF TypeOK
    <3>3. CASE lua = "off"
      BY <1>2, <3>2, <3>3, Zenon DEF SetHeadless
    <3>4. CASE lua # "off"
      BY <1>2, <3>1, <3>4, Zenon DEF SetHeadless
    <3>5. QED BY <3>3, <3>4
  <2>2. /\ rpc' = [rpc EXCEPT ![r] = "open"]
        /\ rpc[r] = "output"
        /\ UNCHANGED <<want, request, deployed, lua, lastId, active, stateFile,
                       known, sunshine, shown, served, calm>>
    BY <1>2 DEF SetHeadless
  <2>3. QED
    BY <2>1, <2>2 DEF TypeOK, WrittenOnce, ServedIsLast, SavesShown, StateFileTells
<1>3. CASE OpenRequest(r)
  BY <1>3 DEF OpenRequest, TypeOK, WrittenOnce, ServedIsLast, SavesShown, StateFileTells
<1>4. CASE WriteRequest(r)
  BY <1>4 DEF WriteRequest, TypeOK, WrittenOnce, ServedIsLast, SavesShown, StateFileTells
<1>5. CASE KillRequester(r)
  BY <1>5 DEF KillRequester, Running, TypeOK, WrittenOnce, ServedIsLast, SavesShown,
              StateFileTells
<1>6. QED
  BY <1>1, <1>2, <1>3, <1>4, <1>5 DEF RequesterStep

LEMMA LuaKeeps ==
    ASSUME MPInv, LuaStep \/ Reload \/ Rebuild \/ Exit PROVE MPInv'
<1> USE MonitorProfileAssumption DEF MPInv, reqVars, luaVars
<1>1. CASE Poll
  BY <1>1 DEF Poll, NewRequest, ApplyKnown, Serves, TypeOK, WrittenOnce, ServedIsLast,
              SavesShown, StateFileTells
<1>2. CASE SaveState
  BY <1>2 DEF SaveState, SavedLabel, TypeOK, WrittenOnce, ServedIsLast, SavesShown,
              StateFileTells
<1>3. CASE Boot \/ Reload
  <2>1. Desired \in Labels
    BY DEF Desired, Saved, TypeOK, WrittenOnce
  <2>2. Load
    BY <1>3 DEF Boot, Reload
  <2>3. QED
    BY <2>1, <2>2 DEF Load, ApplyKnown, Serves, TypeOK, WrittenOnce, ServedIsLast,
                      SavesShown, StateFileTells
<1>4. CASE Rebuild
  BY <1>4 DEF Rebuild, TypeOK, WrittenOnce, ServedIsLast, SavesShown, StateFileTells
<1>5. CASE Exit
  BY <1>5 DEF Exit, TypeOK, WrittenOnce, ServedIsLast, SavesShown, StateFileTells
<1>6. QED
  BY <1>1, <1>2, <1>3, <1>4, <1>5 DEF LuaStep

LEMMA MPSteps == MPInv /\ [Next]_mpVars => MPInv'
<1>1. MPInv /\ UNCHANGED mpVars => MPInv'
  BY DEF MPInv, mpVars, TypeOK, WrittenOnce, ServedIsLast, SavesShown, StateFileTells
<1>2. QED
  BY <1>1, RequesterKeeps, LuaKeeps DEF Next

\* The inductive invariant holds in every reachable state.
THEOREM Inductive == Spec => []MPInv
BY InitMPInv, MPSteps, PTL DEF Spec

\* Every variable of the applier, the requesters and the files keeps its type.
THEOREM TypeCorrect == Spec => []TypeOK
<1>1. MPInv => TypeOK BY DEF MPInv
<1>2. QED BY Inductive, <1>1, PTL

\* monitor_profiles.lua:300-301: an idle Lua has saved the profile in force.
THEOREM StateFileCorrect == Spec => []StateFileTells
<1>1. MPInv => StateFileTells BY DEF MPInv
<1>2. QED BY Inductive, <1>1, PTL

\* monitor_profiles.lua:334-342: the poll applies no request a second time.
THEOREM NeverTwice == Spec => AppliedOnce
<1>1. MPInv /\ Poll => request \notin served
  BY DEF MPInv, ServedIsLast, Poll, NewRequest
<1>2. MPInv /\ [Next]_mpVars => [Poll => request \notin served]_mpVars
  BY <1>1
<1>3. QED
  BY Inductive, <1>2, PTL DEF Spec, AppliedOnce

-----------------------------------------------------------------------------
\* What a loaded configuration has applied.
Applied ==
    lua # "off" /\ request # None /\ request = lastId /\ want[request] \in known => shown = want[request]
ShownKnown == shown # None => shown \in known
DefaultStays == Default \in deployed

AppliedInv == Applied /\ ShownKnown /\ DefaultStays

LEMMA AppliedSteps == MPInv /\ AppliedInv /\ [Next]_mpVars => AppliedInv'
<1> SUFFICES ASSUME MPInv, AppliedInv, [Next]_mpVars PROVE AppliedInv'
  OBVIOUS
<1> USE MonitorProfileAssumption DEF AppliedInv, Applied, ShownKnown, DefaultStays, reqVars, luaVars
<1>1. CASE UNCHANGED mpVars
  BY <1>1 DEF mpVars
<1>2. ASSUME NEW r \in Requesters, NEW label \in Labels, Launch(r, label) PROVE AppliedInv'
  BY <1>2 DEF Launch, MPInv, WrittenOnce, TypeOK
<1>3. ASSUME NEW r \in Requesters, SetHeadless(r) \/ OpenRequest(r) \/ WriteRequest(r) \/ KillRequester(r)
      PROVE  AppliedInv'
  BY <1>3 DEF SetHeadless, OpenRequest, WriteRequest, KillRequester, MPInv, WrittenOnce, TypeOK
<1>4. CASE Poll
  BY <1>4 DEF Poll, NewRequest, ApplyKnown, MPInv, TypeOK
<1>5. CASE SaveState
  BY <1>5 DEF SaveState
<1>6. CASE Boot \/ Reload
  BY <1>6 DEF Boot, Reload, Load, ApplyKnown, Desired, Saved
<1>7. CASE Rebuild
  BY <1>7 DEF Rebuild
<1>8. CASE Exit
  BY <1>8 DEF Exit
<1>9. QED
  BY <1>1, <1>2, <1>3, <1>4, <1>5, <1>6, <1>7, <1>8 DEF Next, RequesterStep, LuaStep

LEMMA InvariantApplied == Spec => [](MPInv /\ AppliedInv)
<1>1. Init => AppliedInv
  BY MonitorProfileAssumption DEF Init, AppliedInv, Applied, ShownKnown, DefaultStays
<1>2. QED
  BY Inductive, AppliedSteps, <1>1, PTL DEF Spec

\* The safety half of RequestsTaken (monitor_profiles.lua:334-349): the request
\* in the file is in force once Lua has seen it, and stays so through reloads and
\* rebuilds that keep its profile, until another replaces it.
THEOREM TakenIsShown == Spec => []Applied
BY InvariantApplied, PTL DEF AppliedInv

\* monitor_profiles.lua:344-349: a reload of the configuration starts from the
\* request file and the state file, which together name the profile in force.
THEOREM ReloadKeeps == Spec => ReloadKeepsProfile
<1> DEFINE Kept == /\ Reload
                   /\ known' = known
                   /\ shown # None
                   /\ request = None \/ (request = lastId /\ want[request] \in known)
                   => shown' = shown
<1>1. MPInv /\ AppliedInv => Kept
  <2> SUFFICES ASSUME MPInv, AppliedInv, Reload, known' = known, shown # None,
                      request = None \/ (request = lastId /\ want[request] \in known)
               PROVE  shown' = shown
    OBVIOUS
  <2>1. Desired = shown
    BY DEF MPInv, StateFileTells, AppliedInv, Applied, Reload, Desired, Saved
  <2>2. shown \in deployed
    BY DEF AppliedInv, ShownKnown, Reload, Load
  <2>3. QED
    BY <2>1, <2>2 DEF Reload, Load, ApplyKnown
<1>2. MPInv /\ AppliedInv /\ [Next]_mpVars => [Kept]_mpVars
  BY <1>1
<1>3. QED
  BY InvariantApplied, <1>2, PTL DEF Spec, ReloadKeepsProfile

-----------------------------------------------------------------------------
\* A requester has set the output and not yet written its request.
Between == {r \in Requesters : rpc[r] \in {"open", "write"}}

\* What holds while the user picks one profile at a time: the output is that of
\* the one requester that is between, else that of the request in the file, and
\* Sunshine was started for the request that was applied with it.
CalmOne == \A r, q \in Running : r = q
CalmOff == lua = "off" => Running = {} /\ request = None
CalmBetween == \A r \in Between : headless <=> want[r] \in Tablet
CalmOutput == Between = {} => (headless <=> request # None /\ want[request] \in Tablet)
CalmSunshine ==
    Between = {} /\ request # None /\ request = lastId /\ want[request] \in known
    => (sunshine <=> want[request] \in Tablet)
CalmUnasked ==
    Between = {} /\ request = None
    => shown \in {None, Default} /\ stateFile \in {None, Default} /\ active = Default /\ ~sunshine
CalmInv == calm => CalmOne /\ CalmOff /\ CalmBetween /\ CalmOutput /\ CalmSunshine /\ CalmUnasked

LEMMA CalmRequester ==
    ASSUME MPInv, CalmInv, NEW r \in Requesters,
           (\E label \in Labels : Launch(r, label)) \/ RequesterStep(r) \/ KillRequester(r)
    PROVE  CalmInv'
<1> SUFFICES ASSUME calm' PROVE (CalmOne /\ CalmOff /\ CalmBetween /\ CalmOutput /\ CalmSunshine /\ CalmUnasked)'
  BY DEF CalmInv
<1>1. DOMAIN rpc = Requesters /\ DOMAIN want = Requesters /\ (request # None => request \in Requesters /\ rpc[request] = "done")
  BY DEF MPInv, TypeOK, WrittenOnce
<1> USE <1>1, MonitorProfileAssumption DEF reqVars, luaVars
<1>2. CASE \E label \in Labels : Launch(r, label)
  <2>1. /\ calm /\ Running = {} /\ lua # "off" /\ rpc[r] = "new"
        /\ UNCHANGED <<request, luaVars>>
    BY <1>2 DEF Launch
  <2>2. Between = {} /\ Between' = {} /\ Running' \subseteq {r}
    BY <1>2, <2>1 DEF Launch, Between, Running
  <2>3. request # None => want'[request] = want[request]
    BY <1>2, <2>1 DEF Launch
  <2>4. QED
    BY <2>1, <2>2, <2>3 DEF CalmInv, CalmOne, CalmOff, CalmBetween, CalmOutput, CalmSunshine, CalmUnasked
<1>3. CASE SetHeadless(r)
  <2>1. calm /\ Running = {r} /\ Between = {} /\ Between' = {r} /\ Running' = {r}
    BY <1>3 DEF SetHeadless, CalmInv, CalmOne, Between, Running
  <2>2. lua # "off"
    BY <2>1 DEF CalmInv, CalmOff
  <2>3. headless' <=> want[r] \in Tablet
    BY <2>2, <1>3 DEF SetHeadless, WantsHeadless
  <2>4. UNCHANGED <<want, lua>>
    BY <1>3 DEF SetHeadless
  <2>5. QED
    BY <2>1, <2>2, <2>3, <2>4 DEF CalmOne, CalmOff, CalmBetween, CalmOutput, CalmSunshine, CalmUnasked
<1>4. CASE OpenRequest(r)
  <2>1. calm /\ Running = {r} /\ Between = {r} /\ Between' = {r} /\ Running' = {r}
    BY <1>4 DEF OpenRequest, CalmInv, CalmOne, Between, Running
  <2>2. QED
    BY <1>4, <2>1 DEF OpenRequest, CalmInv, CalmOne, CalmOff, CalmBetween, CalmOutput, CalmSunshine, CalmUnasked
<1>5. CASE WriteRequest(r)
  <2>1. calm /\ Running = {r} /\ Between = {r} /\ Between' = {} /\ Running' = {}
    BY <1>5 DEF WriteRequest, CalmInv, CalmOne, Between, Running
  <2>2. lastId # r
    BY <1>5 DEF WriteRequest, MPInv, WrittenOnce
  <2>3. QED
    BY <1>5, <2>1, <2>2 DEF WriteRequest, CalmInv, CalmOne, CalmOff, CalmBetween, CalmOutput, CalmSunshine, CalmUnasked
<1>6. CASE KillRequester(r)
  BY <1>6 DEF KillRequester
<1>7. QED
  BY <1>2, <1>3, <1>4, <1>5, <1>6 DEF RequesterStep

LEMMA CalmLua ==
    ASSUME MPInv, AppliedInv, CalmInv, LuaStep \/ Reload \/ Rebuild \/ Exit PROVE CalmInv'
<1> SUFFICES ASSUME calm' PROVE (CalmOne /\ CalmOff /\ CalmBetween /\ CalmOutput /\ CalmSunshine /\ CalmUnasked)'
  BY DEF CalmInv
<1>1. ~Exit
  BY DEF Exit
<1>2. /\ calm /\ UNCHANGED <<rpc, want, request, headless>>
      /\ Running' = Running /\ Between' = Between
  BY <1>1 DEF LuaStep, Poll, SaveState, Boot, Reload, Load, Rebuild, reqVars, luaVars, Running, Between
<1>3. CalmOne' /\ CalmBetween' /\ CalmOutput'
  BY <1>2 DEF CalmInv, CalmOne, CalmBetween, CalmOutput
<1>4. ASSUME Between = {} PROVE headless <=> request # None /\ want[request] \in Tablet
  BY <1>2, <1>4 DEF CalmInv, CalmOutput
<1> USE <1>2, <1>4, MonitorProfileAssumption
        DEF CalmInv, CalmOff, CalmSunshine, CalmUnasked, luaVars, ApplyKnown, Serves
<1>5. CASE Poll
  BY <1>3, <1>5 DEF Poll, NewRequest
<1>6. CASE SaveState
  BY <1>3, <1>6 DEF SaveState, SavedLabel
<1>7. CASE Boot \/ Reload
  <2>1. Load /\ lua' # "off"
    BY <1>7 DEF Boot, Reload, Load
  <2>2. Between = {} /\ request = None => Desired = Default
    BY DEF Desired, Saved
  <2>3. QED
    BY <1>3, <2>1, <2>2 DEF Load, Desired, AppliedInv, DefaultStays
<1>8. CASE Rebuild
  BY <1>3, <1>8 DEF Rebuild
<1>9. QED
  BY <1>1, <1>5, <1>6, <1>7, <1>8 DEF LuaStep

LEMMA InvariantCalm == Spec => [](MPInv /\ AppliedInv /\ CalmInv)
<1>1. Init => CalmInv
  BY MonitorProfileAssumption
     DEF Init, CalmInv, CalmOne, CalmOff, CalmBetween, CalmOutput, CalmSunshine, CalmUnasked, Between, Running
<1>2. CalmInv /\ UNCHANGED mpVars => CalmInv'
  BY DEF mpVars, CalmInv, CalmOne, CalmOff, CalmBetween, CalmOutput, CalmSunshine, CalmUnasked, Between, Running
<1>3. MPInv /\ AppliedInv /\ CalmInv /\ [Next]_mpVars => CalmInv'
  BY <1>2, CalmRequester, CalmLua DEF Next
<1>4. QED
  BY InvariantApplied, <1>1, <1>3, PTL DEF Spec

\* hypr-monitor-profile.py:124-128: creating the output before the request is
\* queued is enough for Sunshine to find it, for any number of profiles picked
\* one after the other, reloads and rebuilds in between included.
THEOREM TabletIsServed == Spec => []TabletServed
<1>1. MPInv /\ AppliedInv /\ CalmInv => TabletServed
  <2> SUFFICES ASSUME MPInv, AppliedInv, CalmInv, calm, Quiet
               PROVE  (headless <=> shown \in Tablet) /\ (sunshine <=> shown \in Tablet)
    BY DEF TabletServed
  <2>1. Between = {}
    BY DEF Quiet, Running, Between
  <2>2. CASE request = None
    BY <2>1, <2>2, MonitorProfileAssumption DEF CalmInv, CalmOutput, CalmUnasked
  <2>3. CASE request # None
    BY <2>1, <2>3 DEF Quiet, AppliedInv, Applied, CalmInv, CalmOutput, CalmSunshine
  <2>4. QED
    BY <2>2, <2>3
<1>2. QED
  BY InvariantCalm, <1>1, PTL

-----------------------------------------------------------------------------
\* A step of game mode is a step of the monitor profiles or none of theirs.
LEMMA StepsCompose == MPInv /\ [GMNext]_gmVars => [Next]_mpVars
<1> SUFFICES ASSUME MPInv, [GMNext]_gmVars PROVE Next \/ UNCHANGED mpVars
  OBVIOUS
<1>1. CASE UNCHANGED gmVars
  BY <1>1 DEF gmVars
<1>2. ASSUME NEW g \in Games, CheckUnit(g) \/ GameStep(g) PROVE Next \/ UNCHANGED mpVars
  <2>1. CASE Restore(g)
    <3>1. ActiveMonitorProfile \in Labels
      BY MonitorProfileAssumption DEF ActiveMonitorProfile, MPInv, TypeOK
    <3>2. g \in Requesters
      BY GameModeAssumption
    <3>3. QED
      BY <2>1, <3>1, <3>2 DEF Restore, Next
  <2>2. CASE ~Restore(g)
    BY <1>2, <2>2 DEF CheckUnit, GameStep, CheckSteam, AwaitQuit, StartUnit, AwaitGamescope, AskAudio,
                      AwaitAudio, AwaitEnd, RestoreSteam
  <2>3. QED
    BY <2>1, <2>2
<1>3. CASE SteamQuits \/ SessionEnds \/ UnitStopped \/ \E l \in Labels : SwitchQueues(l)
  BY <1>3 DEF SteamQuits, SessionEnds, UnitStopped, SwitchQueues
<1>4. CASE ApplyEnds
  BY <1>4 DEF ApplyEnds, Next, LuaStep
<1>5. CASE Desktop
  BY <1>5 DEF Desktop, Next, LuaStep
<1>6. CASE \E r \in Requesters : Killed(r)
  BY <1>6 DEF Killed, Next
<1>7. QED
  BY <1>1, <1>2, <1>3, <1>4, <1>5, <1>6 DEF GMNext

LEMMA MonitorInvariant == GMSpec => []MPInv
<1>1. GMInit => MPInv
  BY InitMPInv DEF GMInit
<1>2. MPInv /\ [GMNext]_gmVars => MPInv'
  BY StepsCompose, MPSteps
<1>3. QED
  BY <1>1, <1>2, PTL DEF GMSpec

\* game-mode.nu:49-51: the script asks for a profile as anybody else does, so
\* monitor profiles with game mode around them still behave as MonitorProfile
\* says.
THEOREM Composes == GMSpec => Spec
<1>1. GMInit => Init
  BY DEF GMInit
<1>2. QED
  BY <1>1, MonitorInvariant, StepsCompose, PTL DEF GMSpec, Spec

\* The file that game-mode.nu:40-47 reads to know what to restore is right, the
\* tablet is served and a reload keeps the profile, whatever game mode does.
THEOREM DesktopKept == GMSpec => []StateFileTells /\ []TabletServed /\ ReloadKeepsProfile
BY Composes, StateFileCorrect, TabletIsServed, ReloadKeeps

-----------------------------------------------------------------------------
\* The types of what game mode adds.
GameTypes ==
    /\ gpc \in [Games -> {"new", "steam", "quit", "start", "up", "audio",
                          "audiowait", "wait", "restore", "profile"} \cup Ended]
    /\ steamWas \in [Games -> BOOLEAN]
    /\ steam \in {"none", "desktop", "session"}
    /\ quitting \in BOOLEAN
    /\ unit \in Busy \cup {"inactive"}
    /\ audio \in Labels \cup {TV, None}
    /\ switching \in [Labels -> 0..MaxSwitches]
    /\ raced \in BOOLEAN

LEMMA GameTypesKept == MPInv /\ GameTypes /\ [GMNext]_gmVars => GameTypes'
<1> SUFFICES ASSUME MPInv, GameTypes, [GMNext]_gmVars PROVE GameTypes'
  OBVIOUS
<1> USE DEF GameTypes, Ended, gameVars, sysVars, soundVars, GotoG
<1>1. CASE UNCHANGED gmVars
  BY <1>1 DEF gmVars
<1>2. ASSUME NEW g \in Games, CheckUnit(g) PROVE GameTypes'
  BY <1>2 DEF CheckUnit
<1>3. ASSUME NEW g \in Games, CheckSteam(g) PROVE GameTypes'
  <2>1. steamWas' \in [Games -> BOOLEAN]
    BY <1>3 DEF CheckSteam
  <2>2. gpc' \in [Games -> {"new", "steam", "quit", "start", "up", "audio",
                            "audiowait", "wait", "restore", "profile"} \cup Ended]
    BY <1>3 DEF CheckSteam
  <2>3. quitting' \in BOOLEAN /\ UNCHANGED <<steam, unit, soundVars>>
    BY <1>3, Zenon DEF CheckSteam
  <2>4. QED
    BY <2>1, <2>2, <2>3
<1>4. ASSUME NEW g \in Games, AwaitQuit(g) PROVE GameTypes'
  BY <1>4 DEF AwaitQuit, GivesUp
<1>5. ASSUME NEW g \in Games, StartUnit(g) PROVE GameTypes'
  BY <1>5 DEF StartUnit, Busy
<1>6. ASSUME NEW g \in Games, AwaitGamescope(g) \/ AskAudio(g) \/ AwaitAudio(g) \/ AwaitEnd(g)
      PROVE  GameTypes'
  BY <1>6 DEF AwaitGamescope, AskAudio, AwaitAudio, AwaitEnd
<1>7. ASSUME NEW g \in Games, Restore(g) PROVE GameTypes'
  BY <1>7 DEF Restore
<1>8. ASSUME NEW g \in Games, RestoreSteam(g) PROVE GameTypes'
  <2>1. /\ gpc' = [gpc EXCEPT ![g] = "done"] /\ UNCHANGED <<steamWas, unit, soundVars>>
        /\ steam' \in {"desktop", steam}
    BY <1>8 DEF RestoreSteam
  <2>2. quitting' \in BOOLEAN
    BY <1>8, Zenon DEF RestoreSteam
  <2>3. QED
    BY <2>1, <2>2
<1>9. CASE SteamQuits \/ SessionEnds \/ UnitStopped
  BY <1>9 DEF SteamQuits, SessionEnds, UnitStopped, Busy
<1>10. CASE ApplyEnds
  <2>1. /\ active \in Labels /\ switching[active] < MaxSwitches /\ switching' = SpawnSwitch
        /\ UNCHANGED <<gpc, steamWas, steam, quitting, unit, audio>>
    BY <1>10 DEF ApplyEnds, MPInv, TypeOK
  <2>2. switching' \in [Labels -> 0..MaxSwitches]
    BY <2>1, GameModeAssumption DEF SpawnSwitch
  <2>3. raced' \in BOOLEAN
    BY <1>10, Zenon DEF ApplyEnds
  <2>4. QED
    BY <2>1, <2>2, <2>3
<1>11. CASE Desktop
  BY <1>11 DEF Desktop
<1>12. CASE \E r \in Requesters : Killed(r)
  BY <1>12 DEF Killed
<1>13. ASSUME NEW l \in Labels, SwitchQueues(l) PROVE GameTypes'
  <2>1. /\ switching[l] > 0 /\ switching' = [switching EXCEPT ![l] = @ - 1] /\ audio' = l
        /\ UNCHANGED <<gpc, steamWas, steam, quitting, unit, raced>>
    BY <1>13 DEF SwitchQueues
  <2>2. switching' \in [Labels -> 0..MaxSwitches]
    BY <2>1, GameModeAssumption
  <2>3. QED
    BY <2>1, <2>2
<1>14. QED
  BY <1>1, <1>2, <1>3, <1>4, <1>5, <1>6, <1>7, <1>8, <1>9, <1>10, <1>11, <1>12, <1>13 DEF GMNext, GameStep

LEMMA GameInvariant == GMSpec => [](MPInv /\ GameTypes)
<1>1. GMInit => GameTypes
  <2>1. 0 \in 0..MaxSwitches
    BY GameModeAssumption
  <2>2. QED
    BY <2>1 DEF GMInit, GameTypes
<1>2. QED
  BY MonitorInvariant, GameTypesKept, <1>1, PTL DEF GMSpec

\* Every invocation, the unit, Steam and the sound stay in the states the script
\* and the unit know.
THEOREM GameTypeCorrect == GMSpec => []GMTypeOK
<1>1. MPInv /\ GameTypes => GMTypeOK
  BY DEF MPInv, GameTypes, GMTypeOK
<1>2. QED
  BY GameInvariant, <1>1, PTL

-----------------------------------------------------------------------------
\* An invocation has taken the sound and not queued the request that brings it
\* back, or never will.
Away(g) ==
    \/ gpc[g] \in {"audiowait", "wait", "restore", "aborted", "unrestored"}
    \/ gpc[g] = "profile" /\ rpc[g] # "done"

\* A request that is not applied yet, or that the configuration does not know.
Pending == Running # {} \/ request # lastId \/ (request # None /\ want[request] \notin known)

\* A command that asks for a profile's sound is on its way.
OnTheWay == \E l \in Labels : switching[l] > 0

\* The TV has the sound only while something that ends that is still to come.
TVOwed ==
    shown \notin Silent \cup {None} /\ lua # "save" /\ audio = TV
    => Pending \/ OnTheWay \/ \E g \in Games : Away(g)

\* Unless commands of two profiles overlapped, only those of the profile in force
\* are on their way, and it has the sound or one of them is still to come.
OwnOnly ==
    shown \notin Silent \cup {None} /\ lua # "save" /\ ~raced
    => /\ \A l \in Labels \ {shown} : switching[l] = 0
       /\ audio = shown \/ audio = TV \/ switching[shown] > 0

SoundInv == TVOwed /\ OwnOnly

\* Only ApplyEnds, SwitchQueues and what applies a profile disturb OwnOnly, since
\* game mode only ever gives the sound to the TV.
LEMMA OwnOnlyKept == MPInv /\ GameTypes /\ OwnOnly /\ [GMNext]_gmVars => OwnOnly'
<1> SUFFICES ASSUME MPInv, GameTypes, OwnOnly, [GMNext]_gmVars,
                    shown' \notin Silent \cup {None}, lua' # "save", ~raced'
             PROVE  /\ \A l \in Labels \ {shown'} : switching'[l] = 0
                    /\ audio' = shown' \/ audio' = TV \/ switching'[shown'] > 0
  BY DEF OwnOnly
<1>1. switching \in [Labels -> Nat] /\ shown \in Labels \cup {None}
  BY GameModeAssumption DEF GameTypes, MPInv, TypeOK
<1> USE DEF gameVars, sysVars, soundVars, reqVars, luaVars
<1>2. CASE UNCHANGED <<shown, lua, audio, switching, raced>>
  BY <1>2 DEF OwnOnly
<1>3. CASE UNCHANGED <<shown, lua, switching, raced>> /\ audio' = TV
  BY <1>3 DEF OwnOnly
<1>4. ASSUME NEW g \in Games, CheckUnit(g) \/ GameStep(g)
      PROVE  UNCHANGED <<shown, lua, switching, raced>> /\ audio' \in {audio, TV}
  BY <1>4 DEF CheckUnit, GameStep, CheckSteam, AwaitQuit, StartUnit, AwaitGamescope, AskAudio, AwaitAudio,
              AwaitEnd, Restore, Launch, RestoreSteam, mpVars
<1>5. CASE SteamQuits \/ SessionEnds \/ UnitStopped
  BY <1>2, <1>5 DEF SteamQuits, SessionEnds, UnitStopped, mpVars
<1>6. CASE ApplyEnds
  <2>1. active = shown /\ shown' = shown /\ switching' = SpawnSwitch /\ shown \in Labels
    BY <1>1, <1>6 DEF ApplyEnds, SaveState, MPInv, SavesShown
  <2>2. \A l \in Labels \ {shown} : ~(switching[l] > 0)
    BY <1>6, <2>1 DEF ApplyEnds
  <2>3. switching' = [switching EXCEPT ![shown] = @ + 1]
    BY <2>1 DEF SpawnSwitch
  <2>4. QED
    BY <1>1, <2>1, <2>2, <2>3
<1>7. ASSUME NEW l \in Labels, SwitchQueues(l)
      PROVE  /\ \A m \in Labels \ {shown'} : switching'[m] = 0
             /\ audio' = shown' \/ audio' = TV \/ switching'[shown'] > 0
  <2>1. /\ switching[l] > 0 /\ switching' = [switching EXCEPT ![l] = @ - 1] /\ audio' = l
        /\ UNCHANGED <<shown, lua, raced>>
    BY <1>7 DEF SwitchQueues, mpVars
  <2>2. l = shown
    BY <1>1, <2>1 DEF OwnOnly
  <2>3. QED
    BY <1>1, <2>1, <2>2 DEF OwnOnly
<1>8. CASE Desktop
  <2>1. UNCHANGED <<audio, switching, raced>>
    BY <1>8 DEF Desktop
  <2>2. UNCHANGED <<shown, lua>> \/ lua' = "save" \/ shown' = None
    BY <1>8 DEF Desktop, Launch, RequesterStep, SetHeadless, OpenRequest, WriteRequest, Poll, Boot, Reload,
                Load, ApplyKnown, Rebuild, Exit
  <2>3. QED
    BY <1>2, <2>1, <2>2
<1>9. CASE \E r \in Requesters : Killed(r)
  BY <1>2, <1>9 DEF Killed, KillRequester
<1>10. CASE UNCHANGED gmVars
  BY <1>2, <1>10 DEF gmVars, mpVars
<1>11. QED
  BY <1>2, <1>3, <1>4, <1>5, <1>6, <1>7, <1>8, <1>9, <1>10 DEF GMNext

LEMMA TVOwedKept ==
    Games = Requesters => (MPInv /\ GameTypes /\ TVOwed /\ [GMNext]_gmVars => TVOwed')
<1> SUFFICES ASSUME Games = Requesters, MPInv, GameTypes, TVOwed, [GMNext]_gmVars,
                    shown' \notin Silent \cup {None}, lua' # "save", audio' = TV
             PROVE  Pending' \/ OnTheWay' \/ \E g \in Games : Away(g)'
  BY DEF TVOwed
<1>1. /\ DOMAIN gpc = Games /\ DOMAIN rpc = Requesters /\ DOMAIN want = Requesters
      /\ request # None => request \in Requesters /\ rpc[request] = "done"
      /\ lastId # None => rpc[lastId] = "done"
  BY DEF MPInv, TypeOK, WrittenOnce, GameTypes
<1> USE <1>1 DEF GotoG, gameVars, sysVars, soundVars
<1>2. CASE UNCHANGED gmVars
  BY <1>2 DEF gmVars, mpVars, TVOwed, Pending, OnTheWay, Running, Away
<1>3. ASSUME NEW g \in Games, CheckUnit(g) \/ CheckSteam(g) \/ AwaitQuit(g) \/ StartUnit(g) \/ AwaitGamescope(g)
                              \/ AwaitAudio(g) \/ AwaitEnd(g) \/ RestoreSteam(g)
      PROVE  Pending' \/ OnTheWay' \/ \E h \in Games : Away(h)'
  <2>1. UNCHANGED <<mpVars, audio, switching>>
    BY <1>3 DEF CheckUnit, CheckSteam, AwaitQuit, StartUnit, AwaitGamescope, AwaitAudio, AwaitEnd, RestoreSteam
  <2>2. \A h \in Games : Away(h) => Away(h)'
    <3> SUFFICES ASSUME NEW h \in Games, Away(h) PROVE Away(h)'
      OBVIOUS
    <3>1. CASE h # g
      BY <1>3, <2>1, <3>1 DEF CheckUnit, CheckSteam, AwaitQuit, StartUnit, AwaitGamescope, AwaitAudio, AwaitEnd,
                              RestoreSteam, Away, mpVars
    <3>2. CASE h = g
      BY <1>3, <2>1, <3>2 DEF CheckUnit, CheckSteam, AwaitQuit, StartUnit, AwaitGamescope, AwaitAudio, AwaitEnd,
                              RestoreSteam, Away, mpVars
    <3>3. QED
      BY <3>1, <3>2
  <2>3. QED
    BY <2>1, <2>2 DEF TVOwed, Pending, OnTheWay, Running, mpVars
<1>4. ASSUME NEW g \in Games, AskAudio(g) PROVE Away(g)'
  BY <1>4 DEF AskAudio, Away
<1>5. ASSUME NEW g \in Games, Restore(g) PROVE Away(g)'
  BY <1>5 DEF Restore, Launch, Away
<1>6. CASE SteamQuits \/ SessionEnds \/ UnitStopped
  BY <1>6 DEF SteamQuits, SessionEnds, UnitStopped, mpVars, TVOwed, Pending, OnTheWay, Running, Away
<1>7. CASE ApplyEnds
  <2>1. active = shown /\ shown' = shown /\ switching' = SpawnSwitch /\ shown \in Labels
    BY <1>7 DEF ApplyEnds, SaveState, MPInv, SavesShown, TypeOK
  <2>2. switching' = [switching EXCEPT ![shown] = @ + 1] /\ switching \in [Labels -> Nat]
    BY <2>1, GameModeAssumption DEF SpawnSwitch, GameTypes
  <2>3. QED
    BY <2>1, <2>2 DEF OnTheWay
<1>8. ASSUME NEW l \in Labels, SwitchQueues(l) PROVE FALSE
  BY <1>8, GameModeAssumption DEF SwitchQueues
<1>9. ASSUME NEW r \in Requesters, NEW label \in Labels, gpc[r] = "new", Launch(r, label),
             UNCHANGED <<gameVars, sysVars>>
      PROVE  Pending' \/ OnTheWay' \/ \E h \in Games : Away(h)'
  <2>1. \A h \in Games : Away(h) => Away(h)'
    BY <1>9 DEF Launch, Away
  <2>2. Pending => Pending'
    BY <1>9 DEF Launch, Pending, Running, luaVars
  <2>3. OnTheWay => OnTheWay'
    BY <1>9 DEF OnTheWay
  <2>4. QED
    BY <1>9, <2>1, <2>2, <2>3 DEF Launch, luaVars, TVOwed
<1>10. ASSUME NEW r \in Requesters, RequesterStep(r) PROVE Pending'
  <2>1. CASE SetHeadless(r)
    BY <2>1 DEF SetHeadless, Pending, Running
  <2>2. CASE OpenRequest(r)
    BY <2>2 DEF OpenRequest, Pending, Running
  <2>3. CASE WriteRequest(r)
    BY <2>3, MonitorProfileAssumption DEF WriteRequest, Pending, luaVars
  <2>4. QED
    BY <1>10, <2>1, <2>2, <2>3 DEF RequesterStep
<1>11. CASE Poll
  BY <1>11 DEF Poll, ApplyKnown, NewRequest, Pending, reqVars
<1>12. CASE Boot \/ Reload
  BY <1>12 DEF Boot, Reload, Load, ApplyKnown
<1>13. CASE Rebuild /\ UNCHANGED <<gameVars, sysVars>>
  BY <1>13 DEF Rebuild, reqVars, luaVars, TVOwed, Pending, OnTheWay, Running, Away
<1>14. CASE Exit
  BY <1>14 DEF Exit
<1>15. ASSUME NEW r \in Requesters, Killed(r) PROVE Away(r)'
  BY <1>15 DEF Killed, Away
<1>16. QED
  BY <1>2, <1>3, <1>4, <1>5, <1>6, <1>7, <1>8, <1>9, <1>10, <1>11, <1>12, <1>13, <1>14, <1>15
     DEF GMNext, GameStep, Desktop

\* "Re-applying the profile also switches audio back" (game-mode.nu:50), for any
\* number of invocations, profiles picked meanwhile, reloads, rebuilds and
\* restarts of Hyprland, and whenever the switchaudio commands they spawned queue
\* their requests.  Every requester may be an invocation here, so that one the
\* user started counts as cut short when it is killed.
THEOREM SoundComesBack == Games = Requesters => (GMSpec => []AudioBack)
<1> SUFFICES ASSUME Games = Requesters PROVE GMSpec => []AudioBack
  OBVIOUS
<1>1. GMInit => SoundInv
  BY DEF GMInit, Init, SoundInv, TVOwed, OwnOnly
<1>2. MPInv /\ GameTypes /\ SoundInv /\ [GMNext]_gmVars => SoundInv'
  BY TVOwedKept, OwnOnlyKept DEF SoundInv
<1>3. GameTypes /\ MPInv /\ SoundInv => AudioBack
  <2> SUFFICES ASSUME GameTypes, MPInv, SoundInv, Settled, shown \notin Silent \cup {None},
                      \A g \in Games : gpc[g] \in {"new", "done", "refused"}
               PROVE  audio # TV /\ (~raced => audio = shown)
    BY DEF AudioBack
  <2>1. ~Pending /\ lua # "save" /\ ~OnTheWay /\ \A g \in Games : ~Away(g)
    BY DEF Settled, Quiet, Pending, OnTheWay, Away
  <2>2. audio # TV
    BY <2>1 DEF SoundInv, TVOwed
  <2>3. shown \in Labels
    BY DEF MPInv, TypeOK
  <2>4. QED
    BY <2>1, <2>2, <2>3 DEF SoundInv, OwnOnly, OnTheWay
<1>4. QED
  BY GameInvariant, <1>1, <1>2, <1>3, PTL DEF GMSpec
=============================================================================
