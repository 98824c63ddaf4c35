----------------------------- MODULE FetchCache -----------------------------
(***************************************************************************)
(* The fetch cache of herdrctl (internal/fetchcache/cache.go) and the way  *)
(* sheer's picker uses it (internal/sheer/picker.go): any number of        *)
(* processes read one entry, ask the network, and replace the entry, each  *)
(* with its own mode.  A value is the version of the remote list it shows; *)
(* the list changes at any time, fetches fail, processes are killed, and   *)
(* the clock may be set back.                                              *)
(***************************************************************************)
EXTENDS Integers

CONSTANTS
    Procs,       \* runs of herdrctl at one time
    TTL,         \* ticks a value is reused for
    Latency,     \* bound: ticks from asking the network to the answer's use
    MaxTime,     \* bound on time
    MaxVersion,  \* bound on changes of the list
    MaxBack,     \* bound on how far the clock is set back
    None,        \* no entry
    Empty        \* an entry that does not decode

ASSUME CacheAssumption ==
    /\ TTL \in Nat \ {0}
    /\ Latency \in Nat /\ MaxTime \in Nat /\ MaxVersion \in Nat /\ MaxBack \in Nat
    /\ None # Empty

Times == 0..MaxTime
Versions == 0..MaxVersion
Envelopes == [at : (0 - MaxBack)..MaxTime, value : Versions]
Results == [value : Versions, stale : BOOLEAN]

ASSUME SentinelAssumption == {None, Empty} \cap (Envelopes \cup Results) = {}

VARIABLES
    pc,       \* where each run is
    mode,     \* "Fresh", "Stale" or "Refresh"
    picks,    \* whether it is the picker
    entry,    \* the cached entry it read
    value,    \* the value it fetched
    begun,    \* when it began a Refresh, or asked the network
    temp,     \* the entry in its temporary file
    out,      \* what Fetch returned; None before, Empty for an error
    file,     \* the entry on disk
    server,   \* the list's version
    replaced, \* when each version was replaced by the next
    time,     \* true time
    back,     \* how far the clock is behind it
    had       \* history: an entry was on disk when the run's Fetch began

runVars == <<mode, picks, entry, value, begun, temp>>
worldVars == <<server, replaced, time, back>>
vars == <<pc, runVars, out, file, worldVars, had>>

Now == time - back
Goto(p, label) == pc' = [pc EXCEPT ![p] = label]

Init ==
    /\ pc = [p \in Procs |-> "new"]
    /\ mode = [p \in Procs |-> "Fresh"]
    /\ picks = [p \in Procs |-> FALSE]
    /\ entry = [p \in Procs |-> None]
    /\ value = [p \in Procs |-> 0]
    /\ begun = [p \in Procs |-> 0]
    /\ temp = [p \in Procs |-> None]
    /\ out = [p \in Procs |-> None]
    /\ file \in {None, Empty}
    /\ server = 0 /\ replaced = [v \in Versions |-> MaxTime]
    /\ time = 0 /\ back = 0
    /\ had = [p \in Procs |-> FALSE]

-----------------------------------------------------------------------------
\* list, open or, for the picker, pick: Fresh becomes Stale there.
Begin(p) ==
    /\ pc[p] = "new"
    /\ \E m \in {"Fresh", "Stale", "Refresh"} :
         /\ mode' = [mode EXCEPT ![p] = m]
         /\ picks' = [picks EXCEPT ![p] = (m = "Stale")]
    /\ begun' = [begun EXCEPT ![p] = IF mode'[p] = "Refresh" THEN time ELSE 0]
    /\ had' = [had EXCEPT ![p] = file \in Envelopes]
    /\ Goto(p, "read")
    /\ UNCHANGED <<entry, value, temp, out, file, worldVars>>

\* Fetch returns and its variables are gone; the picker chooses again from
\* fresh data when what it showed was stale.
Returns(p, result) ==
    /\ out' = [out EXCEPT ![p] = result]
    /\ entry' = [entry EXCEPT ![p] = None]
    /\ value' = [value EXCEPT ![p] = 0]
    /\ begun' = [begun EXCEPT ![p] = 0]
    /\ Goto(p, IF picks[p] /\ result \in Results /\ result.stale THEN "choose" ELSE "done")

ExpiresLate(e) == Now - e.at < 0 \/ Now - e.at > TTL     \* fault: > for >=
Expired(e) == Now - e.at < 0 \/ Now - e.at >= TTL
Usable(p, e) == mode[p] = "Stale" \/ (mode[p] = "Fresh" /\ ~Expired(e))

Read(p) ==
    /\ pc[p] = "read"
    /\ IF file \in Envelopes /\ Usable(p, file)
         THEN Returns(p, [value |-> file.value, stale |-> Expired(file)])
         ELSE /\ entry' = [entry EXCEPT ![p] = IF file \in Envelopes THEN file ELSE None]
              /\ begun' = [begun EXCEPT ![p] = time]
              /\ Goto(p, "fetch")
              /\ UNCHANGED <<value, out>>
    /\ UNCHANGED <<mode, picks, temp, file, worldVars, had>>

\* fetch(previous): the list is what it is at one moment of the request.
Ask(p) ==
    /\ pc[p] = "fetch"
    /\ value' = [value EXCEPT ![p] = server]
    /\ Goto(p, "answer")
    /\ UNCHANGED <<mode, picks, entry, begun, temp, out, file, worldVars, had>>

FetchFails(p) ==
    /\ pc[p] \in {"fetch", "answer"}
    /\ Returns(p, IF entry[p] # None THEN [value |-> entry[p].value, stale |-> TRUE] ELSE Empty)
    /\ UNCHANGED <<mode, picks, temp, file, worldVars, had>>

-----------------------------------------------------------------------------
\* write: stamp the value, write a temporary file of the run's own ...
InPlace == Empty                        \* fault: os.WriteFile on the entry itself
WhileWriting == file
Stamped(p) == [at |-> Now, value |-> value[p]]

Stamp(p) ==
    /\ pc[p] = "answer"
    /\ temp' = [temp EXCEPT ![p] = Stamped(p)]
    /\ file' = WhileWriting
    /\ Goto(p, "rename")
    /\ UNCHANGED <<mode, picks, entry, value, begun, out, worldVars, had>>

\* ... and rename it; failing to write is a warning only.
Rename(p) ==
    /\ pc[p] = "rename"
    /\ \/ file' = temp[p]
       \/ UNCHANGED file
    /\ temp' = [temp EXCEPT ![p] = None]
    /\ Returns(p, [value |-> value[p], stale |-> FALSE])
    /\ UNCHANGED <<mode, picks, worldVars, had>>

\* pick: the user has chosen while a reload may have run; open resolves the
\* choice with Fresh.
StaleAgain == "Stale"                   \* fault: the stale list resolves it
OpenMode == "Fresh"

Open(p) ==
    /\ pc[p] = "choose"
    /\ mode' = [mode EXCEPT ![p] = OpenMode]
    /\ picks' = [picks EXCEPT ![p] = FALSE]
    /\ had' = [had EXCEPT ![p] = file \in Envelopes]
    /\ Goto(p, "read")
    /\ UNCHANGED <<entry, value, begun, temp, out, file, worldVars>>

Kill(p) ==
    /\ pc[p] \notin {"new", "done"}
    /\ Returns(p, None)
    /\ temp' = [temp EXCEPT ![p] = None]
    /\ UNCHANGED <<mode, picks, file, worldVars, had>>

\* A run ends; the slot is free for another.
Exit(p) ==
    /\ pc[p] = "done"
    /\ Goto(p, "new")
    /\ mode' = [mode EXCEPT ![p] = "Fresh"]
    /\ picks' = [picks EXCEPT ![p] = FALSE]
    /\ out' = [out EXCEPT ![p] = None]
    /\ had' = [had EXCEPT ![p] = FALSE]
    /\ UNCHANGED <<entry, value, begun, temp, file, worldVars>>

-----------------------------------------------------------------------------
\* A stack or branch is created, changed or closed.
Publish ==
    /\ server < MaxVersion
    /\ server' = server + 1
    /\ replaced' = [replaced EXCEPT ![server] = time]
    /\ UNCHANGED <<pc, runVars, out, file, time, back, had>>

Tick ==
    /\ time < MaxTime
    /\ \A p \in Procs : pc[p] \in {"fetch", "answer", "rename"} => time < begun[p] + Latency
    /\ time' = time + 1
    /\ UNCHANGED <<pc, runVars, out, file, server, replaced, back, had>>

SetBack ==
    /\ back < MaxBack
    /\ back' = back + 1
    /\ UNCHANGED <<pc, runVars, out, file, server, replaced, time, had>>

Run(p) == Begin(p) \/ Read(p) \/ Ask(p) \/ FetchFails(p) \/ Stamp(p) \/ Rename(p) \/ Open(p) \/ Exit(p)

Next == (\E p \in Procs : Run(p) \/ Kill(p)) \/ Publish \/ Tick \/ SetBack

Spec == Init /\ [][Next]_vars

-----------------------------------------------------------------------------
TypeOK ==
    /\ pc \in [Procs -> {"new", "read", "fetch", "answer", "rename", "choose", "done"}]
    /\ mode \in [Procs -> {"Fresh", "Stale", "Refresh"}]
    /\ picks \in [Procs -> BOOLEAN]
    /\ entry \in [Procs -> Envelopes \cup {None}]
    /\ value \in [Procs -> 0..server]
    /\ begun \in [Procs -> 0..time]
    /\ temp \in [Procs -> Envelopes \cup {None}]
    /\ out \in [Procs -> Results \cup {None, Empty}]
    /\ file \in Envelopes \cup {None, Empty}
    /\ server \in Versions
    /\ replaced \in [Versions -> Times]
    /\ time \in Times
    /\ back \in 0..MaxBack
    /\ had \in [Procs -> BOOLEAN]

Returned(p) == out[p] # out'[p] /\ out'[p] \in Results
Current(v, from) == v = server \/ replaced[v] >= from

\* "TTL bounds how long results are reused without contacting the network"
\* (cache.go:19): whatever is returned as not stale was the list less than a
\* TTL and a request ago, also when a slow run overwrites a newer value with
\* an older one; a clock set back adds what it was set back.
FreshIsYoung ==
    [][\A p \in Procs : Returned(p) /\ ~out'[p].stale =>
            Current(out'[p].value, time - TTL - Latency - back + 1)]_vars

\* "concurrent herdrctl processes never read a partially written entry"
\* (cache.go:70): once there is an entry every run returns a value, whatever
\* other runs write, fail at or are killed in.
CacheNeverFails == \A p \in Procs : out[p] = Empty => ~had[p]

\* "Refresh always refetches" (cache.go:32): what it returns was the list
\* after the run began, unless it says that it is stale.  And "Resolve against
\* current data ... so a stack created since the stale fetch is still found"
\* (picker.go:45): the picker ends with a list that is young, or with what
\* was left after asking failed.
AsksAgain ==
    [][\A p \in Procs : Returned(p) =>
          /\ mode[p] = "Refresh" /\ ~out'[p].stale => Current(out'[p].value, begun[p])
          /\ pc[p] = "read" /\ ~picks[p] /\ out[p] # None =>
                Current(out'[p].value, time - TTL - Latency - back + 1)]_vars
=============================================================================
