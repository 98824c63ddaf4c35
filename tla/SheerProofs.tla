---------------------------- MODULE SheerProofs ----------------------------
(***************************************************************************)
(* The stack picker, for any number of runs: FetchCache, for any times,    *)
(* and SheerOpen, for any branches, stacks and worktrees.                  *)
(*                                                                         *)
(* Of FetchCache: that a fresh result is young rests on what a stamp says: *)
(* a value stamped "at" was the list Latency before "at" or later, whoever *)
(* wrote it and in whatever order the writers' renames come.               *)
(*                                                                         *)
(* Of SheerOpen: what an entry of the catalog says of a stack (EntriesAre) *)
(* and so where a branch leads (Leads), that no branch is in two stacks    *)
(* (Apart), and what a listing that still holds says of the run that goes  *)
(* by it, until it creates a worktree or begins a stack (StillHolds).      *)
(***************************************************************************)
EXTENDS FetchCache, SheerOpen, FiniteSetTheorems, SequenceTheorems, TLAPS

-----------------------------------------------------------------------------
\* v was the list at from, or later.
Honest(e) == Current(e.value, e.at - Latency)

\* What is asked is used in time; what was answered was the list since then.
InTime ==
    \A p \in Procs :
        /\ pc[p] \in {"fetch", "answer", "rename"} => time <= begun[p] + Latency
        /\ pc[p] \in {"answer", "rename"} => Current(value[p], begun[p])

\* Every stamp tells the truth, in the entry and in the temporary files.
StampsHonest ==
    /\ file \in Envelopes => Honest(file) /\ file.at <= time /\ file.value <= server
    /\ \A p \in Procs : pc[p] = "rename" =>
            /\ temp[p] \in Envelopes
            /\ Honest(temp[p]) /\ temp[p].at <= time /\ temp[p].value <= server
    /\ \A p \in Procs : entry[p] # None => entry[p].value <= server

\* An entry that was there when a run began is there for it, or in its hands.
EntryStays ==
    \A p \in Procs : had[p] =>
        /\ file \in Envelopes
        /\ pc[p] \in {"fetch", "answer"} => entry[p] # None

\* A run begins, and the picker goes on, without an error behind it.
NoErrorYet ==
    \A p \in Procs :
        /\ pc[p] = "new" => out[p] = None
        /\ pc[p] = "choose" => out[p] # Empty

CacheInv == TypeOK /\ InTime /\ StampsHonest /\ EntryStays /\ NoErrorYet /\ CacheNeverFails

LEMMA InitCacheInv == Init => CacheInv
<1> SUFFICES ASSUME Init PROVE CacheInv
  OBVIOUS
<1> USE CacheAssumption, SentinelAssumption DEF Versions, Times
<1>1. TypeOK
  BY DEF Init, TypeOK, Versions, Times
<1>2. file \notin Envelopes /\ None # Empty
  BY DEF Init
<1>3. InTime /\ StampsHonest /\ EntryStays /\ NoErrorYet /\ CacheNeverFails
  BY <1>2 DEF Init, InTime, StampsHonest, EntryStays, NoErrorYet, CacheNeverFails
<1>4. QED
  BY <1>1, <1>3 DEF CacheInv

\* A result of a Fetch leaves the other runs and the entry alone.
LEMMA ReturnKeeps ==
    ASSUME CacheInv, NEW p \in Procs, NEW result \in Results \cup {None, Empty},
           Returns(p, result), UNCHANGED <<mode, picks, worldVars, had>>,
           UNCHANGED temp \/ temp' = [temp EXCEPT ![p] = None],
           UNCHANGED file \/ (pc[p] = "rename" /\ file' = temp[p]),
           result = Empty => ~had[p]
    PROVE  CacheInv'
<1> USE CacheAssumption, SentinelAssumption DEF worldVars, Versions, Times
<1>1. /\ pc' = [pc EXCEPT ![p] = pc'[p]] /\ pc'[p] \in {"choose", "done"}
      /\ out' = [out EXCEPT ![p] = result]
      /\ entry' = [entry EXCEPT ![p] = None]
      /\ value' = [value EXCEPT ![p] = 0]
      /\ begun' = [begun EXCEPT ![p] = 0]
  BY DEF Returns, Goto, CacheInv, TypeOK
<1>2. file' = file \/ (file' \in Envelopes /\ Honest(file') /\ file'.at <= time /\ file'.value <= server)
  BY DEF CacheInv, StampsHonest
<1>3. TypeOK'
  <2>1. pc' \in [Procs -> {"new", "read", "fetch", "answer", "rename", "choose", "done"}]
    BY <1>1 DEF CacheInv, TypeOK
  <2>2. value' \in [Procs -> 0..server] /\ begun' \in [Procs -> 0..time]
    BY <1>1 DEF CacheInv, TypeOK
  <2>3. entry' \in [Procs -> Envelopes \cup {None}] /\ out' \in [Procs -> Results \cup {None, Empty}]
    BY <1>1, Zenon DEF CacheInv, TypeOK
  <2>4. temp' \in [Procs -> Envelopes \cup {None}] /\ file' \in Envelopes \cup {None, Empty}
    BY <1>2 DEF CacheInv, TypeOK
  <2>5. QED
    BY <2>1, <2>2, <2>3, <2>4 DEF CacheInv, TypeOK
<1>4. InTime'
  BY <1>1 DEF CacheInv, InTime, TypeOK, Current
<1>5. StampsHonest'
  BY <1>1, <1>2 DEF CacheInv, StampsHonest, TypeOK, Honest, Current
<1>6. EntryStays' /\ CacheNeverFails'
  BY <1>1, <1>2 DEF CacheInv, EntryStays, CacheNeverFails, TypeOK
<1>8. NoErrorYet'
  <2>1. pc'[p] = "choose" => result # Empty
    BY DEF Returns, Goto, CacheInv, TypeOK
  <2>2. QED
    BY <1>1, <2>1 DEF CacheInv, NoErrorYet, TypeOK
<1>7. QED
  BY <1>8, <1>3, <1>4, <1>5, <1>6 DEF CacheInv

LEMMA RunKeeps ==
    ASSUME CacheInv, NEW p \in Procs, Run(p) \/ Kill(p)
    PROVE  CacheInv'
<1> USE CacheAssumption, SentinelAssumption DEF Versions, Times
<1>1. CASE Begin(p)
  <2>1. TypeOK'
    BY <1>1 DEF Begin, Goto, worldVars, CacheInv, TypeOK
  <2>2. InTime' /\ StampsHonest'
    BY <1>1 DEF Begin, Goto, worldVars, CacheInv, TypeOK, InTime, StampsHonest, Honest, Current
  <2>3. EntryStays' /\ NoErrorYet' /\ CacheNeverFails'
    <3>1. \A q \in Procs : had'[q] => had[q] \/ (q = p /\ file \in Envelopes)
      BY <1>1, Zenon DEF Begin, CacheInv, TypeOK
    <3>2. /\ pc[p] = "new" /\ pc' = [pc EXCEPT ![p] = "read"]
          /\ UNCHANGED <<entry, out, file>>
      BY <1>1 DEF Begin, Goto
    <3>3. pc \in [Procs -> {"new", "read", "fetch", "answer", "rename", "choose", "done"}]
      BY DEF CacheInv, TypeOK
    <3>4. EntryStays'
      BY <3>1, <3>2, <3>3 DEF CacheInv, EntryStays
    <3>5. NoErrorYet'
      BY <3>2, <3>3 DEF CacheInv, NoErrorYet
    <3>6. CacheNeverFails'
      <4>0. out' = out
        BY <3>2
      <4>1. out[p] # Empty
        BY <3>2, CacheAssumption, Zenon DEF CacheInv, NoErrorYet
      <4>2. \A q \in Procs : out[q] = Empty => ~had[q]
        BY DEF CacheInv, CacheNeverFails
      <4>3. \A q \in Procs : out'[q] = Empty => ~had'[q]
        BY <3>1, <4>0, <4>1, <4>2, Zenon
      <4>4. QED
        BY <4>3 DEF CacheNeverFails
    <3>7. QED
      BY <3>4, <3>5, <3>6
  <2>4. QED
    BY <2>1, <2>2, <2>3 DEF CacheInv
<1>2. CASE Read(p)
  <2>1. CASE file \in Envelopes /\ Usable(p, file)
    <3>1. [value |-> file.value, stale |-> Expired(file)] \in Results
      BY <2>1 DEF Envelopes, Results, Expired
    <3>2. QED
      BY <1>2, <2>1, <3>1, ReturnKeeps DEF Read
  <2>2. CASE ~(file \in Envelopes /\ Usable(p, file))
    <3>1. /\ pc[p] = "read" /\ pc' = [pc EXCEPT ![p] = "fetch"]
          /\ begun' = [begun EXCEPT ![p] = time]
          /\ UNCHANGED <<mode, picks, value, temp, out, file, server, replaced, time, back, had>>
          /\ entry' = [entry EXCEPT ![p] = IF file \in Envelopes THEN file ELSE None]
      BY <1>2, <2>2 DEF Read, Goto, worldVars
    <3>5. TypeOK'
      <4>1. entry' \in [Procs -> Envelopes \cup {None}]
        BY <3>1, Zenon DEF CacheInv, TypeOK
      <4>2. QED
        BY <3>1, <4>1 DEF CacheInv, TypeOK
    <3>2. InTime' /\ StampsHonest'
      BY <3>1 DEF CacheInv, TypeOK, InTime, StampsHonest, Honest, Current
    <3>3. EntryStays' /\ NoErrorYet' /\ CacheNeverFails'
      BY <3>1 DEF CacheInv, TypeOK, EntryStays, NoErrorYet, CacheNeverFails
    <3>4. QED
      BY <3>5, <3>2, <3>3 DEF CacheInv
  <2>3. QED
    BY <2>1, <2>2
<1>3. CASE Ask(p)
  BY <1>3 DEF Ask, Goto, worldVars, CacheInv, TypeOK, InTime, StampsHonest, EntryStays, NoErrorYet,
              CacheNeverFails, Honest, Current
<1>4. CASE FetchFails(p)
  <2>1. entry[p] # None => [value |-> entry[p].value, stale |-> TRUE] \in Results
    BY DEF CacheInv, TypeOK, Envelopes, Results
  <2>2. entry[p] = None => ~had[p]
    BY <1>4 DEF FetchFails, CacheInv, EntryStays
  <2>3. QED
    BY <1>4, <2>1, <2>2, ReturnKeeps DEF FetchFails
<1>5. CASE Stamp(p)
  <2>1. /\ Stamped(p) \in Envelopes
        /\ Stamped(p).at <= time /\ Stamped(p).value <= server
        /\ Honest(Stamped(p))
    <3>1. value[p] \in 0..server /\ begun[p] \in 0..time /\ back \in 0..MaxBack /\ time \in 0..MaxTime
      BY DEF CacheInv, TypeOK
    <3>2. time <= begun[p] + Latency /\ Current(value[p], begun[p])
      BY <1>5 DEF Stamp, CacheInv, InTime
    <3>3. Stamped(p) \in Envelopes /\ Stamped(p).at = time - back /\ Stamped(p).value = value[p]
      BY <3>1 DEF Stamped, Now, Envelopes, CacheInv, TypeOK
    <3>4. Current(value[p], (time - back) - Latency)
      BY <3>1, <3>2 DEF Current, CacheInv, TypeOK
    <3>5. QED
      BY <3>1, <3>3, <3>4 DEF Honest
  <2>2. QED
    BY <1>5, <2>1 DEF Stamp, WhileWriting, Goto, worldVars, CacheInv, TypeOK, InTime,
                      StampsHonest, EntryStays, NoErrorYet, CacheNeverFails, Honest, Current
<1>6. CASE Rename(p)
  <2>1. [value |-> value[p], stale |-> FALSE] \in Results
    BY DEF CacheInv, TypeOK, Results, Versions
  <2>2. QED
    BY <1>6, <2>1, ReturnKeeps DEF Rename
<1>7. CASE Open(p)
  <2>1. TypeOK'
    BY <1>7 DEF Open, OpenMode, Goto, worldVars, CacheInv, TypeOK
  <2>2. InTime' /\ StampsHonest'
    BY <1>7 DEF Open, OpenMode, Goto, worldVars, CacheInv, TypeOK, InTime, StampsHonest, Honest, Current
  <2>3. EntryStays' /\ NoErrorYet' /\ CacheNeverFails'
    <3>1. \A q \in Procs : had'[q] => had[q] \/ (q = p /\ file \in Envelopes)
      BY <1>7, Zenon DEF Open, CacheInv, TypeOK
    <3>2. /\ pc[p] = "choose" /\ pc' = [pc EXCEPT ![p] = "read"]
          /\ UNCHANGED <<entry, out, file>>
      BY <1>7 DEF Open, Goto
    <3>3. pc \in [Procs -> {"new", "read", "fetch", "answer", "rename", "choose", "done"}]
      BY DEF CacheInv, TypeOK
    <3>4. EntryStays'
      BY <3>1, <3>2, <3>3 DEF CacheInv, EntryStays
    <3>5. NoErrorYet'
      BY <3>2, <3>3 DEF CacheInv, NoErrorYet
    <3>6. CacheNeverFails'
      <4>0. out' = out
        BY <3>2
      <4>1. out[p] # Empty
        BY <3>2, CacheAssumption, Zenon DEF CacheInv, NoErrorYet
      <4>2. \A q \in Procs : out[q] = Empty => ~had[q]
        BY DEF CacheInv, CacheNeverFails
      <4>3. \A q \in Procs : out'[q] = Empty => ~had'[q]
        BY <3>1, <4>0, <4>1, <4>2, Zenon
      <4>4. QED
        BY <4>3 DEF CacheNeverFails
    <3>7. QED
      BY <3>4, <3>5, <3>6
  <2>4. QED
    BY <2>1, <2>2, <2>3 DEF CacheInv
<1>8. CASE Exit(p)
  BY <1>8 DEF Exit, Goto, worldVars, CacheInv, TypeOK, InTime, StampsHonest, EntryStays, NoErrorYet,
              CacheNeverFails, Honest, Current
<1>9. CASE Kill(p)
  BY <1>9, ReturnKeeps DEF Kill
<1>10. QED
  BY <1>1, <1>2, <1>3, <1>4, <1>5, <1>6, <1>7, <1>8, <1>9 DEF Run

LEMMA NextCacheInv == CacheInv /\ [Next]_vars => CacheInv'
<1> SUFFICES ASSUME CacheInv, [Next]_vars PROVE CacheInv'
  OBVIOUS
<1> USE CacheAssumption, SentinelAssumption DEF Versions, Times
<1>1. ASSUME NEW p \in Procs, Run(p) \/ Kill(p) PROVE CacheInv'
  BY <1>1, RunKeeps
<1>2. CASE Publish
  <2>1. \A v, from \in Int : 0 <= v /\ v <= server /\ from <= time /\ Current(v, from) => Current(v, from)'
    BY <1>2 DEF Publish, Current, CacheInv, TypeOK
  <2>2. TypeOK'
    BY <1>2 DEF Publish, runVars, CacheInv, TypeOK
  <2>3. InTime'
    <3>1. ASSUME NEW p \in Procs, pc[p] \in {"answer", "rename"} PROVE Current(value[p], begun[p])'
      <4>1. value[p] \in 0..server /\ begun[p] \in 0..time /\ time \in Nat /\ server \in Nat
        BY DEF CacheInv, TypeOK
      <4>2. Current(value[p], begun[p])
        BY <3>1 DEF CacheInv, InTime
      <4>3. QED
        BY <1>2, <2>1, <4>1, <4>2 DEF Publish, runVars, Current
    <3>2. QED
      BY <1>2, <3>1 DEF Publish, runVars, CacheInv, InTime
  <2>4. ASSUME NEW e \in Envelopes, Honest(e), e.at <= time, e.value <= server PROVE Honest(e)'
    <3>1. e.at \in Int /\ e.value \in Int /\ 0 <= e.value /\ e.at - Latency <= time
      BY <2>4 DEF Envelopes, CacheInv, TypeOK
    <3>2. QED
      BY <2>1, <2>4, <3>1 DEF Honest, Current
  <2>5. StampsHonest'
    <3>1. /\ server' = server + 1
          /\ UNCHANGED <<pc, entry, temp, file, time>>
      BY <1>2 DEF Publish, runVars
    <3>2. \A e \in Envelopes : e.value \in Int
      BY DEF Envelopes
    <3>3. server \in Int
      BY DEF CacheInv, TypeOK
    <3>4. \A p \in Procs : entry[p] # None => entry[p] \in Envelopes
      BY DEF CacheInv, TypeOK
    <3>5. QED
      BY <2>4, <3>1, <3>2, <3>3, <3>4 DEF CacheInv, StampsHonest
  <2>6. EntryStays' /\ NoErrorYet' /\ CacheNeverFails'
    BY <1>2 DEF Publish, runVars, CacheInv, EntryStays, NoErrorYet, CacheNeverFails
  <2>7. QED
    BY <2>2, <2>3, <2>5, <2>6 DEF CacheInv
<1>3. CASE Tick
  <2>1. TypeOK'
    BY <1>3 DEF Tick, runVars, CacheInv, TypeOK
  <2>0. /\ time \in Int /\ time' = time + 1
        /\ \A p \in Procs : begun[p] \in Int /\ (pc[p] \in {"fetch", "answer", "rename"} => time < begun[p] + Latency)
        /\ UNCHANGED <<pc, entry, value, begun, temp, file, server, replaced>>
    BY <1>3 DEF Tick, runVars, CacheInv, TypeOK
  <2>5. InTime'
    BY <2>0 DEF CacheInv, InTime, Current
  <2>6. \A e \in Envelopes : e.at <= time => e.at <= time'
    BY <2>0 DEF Envelopes
  <2>2. StampsHonest'
    BY <2>0, <2>6 DEF CacheInv, StampsHonest, Honest, Current
  <2>3. EntryStays' /\ NoErrorYet' /\ CacheNeverFails'
    BY <1>3 DEF Tick, runVars, CacheInv, TypeOK, StampsHonest, EntryStays, NoErrorYet, CacheNeverFails
  <2>4. QED
    BY <2>1, <2>2, <2>3, <2>5 DEF CacheInv
<1>4. CASE SetBack
  BY <1>4 DEF SetBack, runVars, CacheInv, TypeOK, InTime, StampsHonest, EntryStays, NoErrorYet,
              CacheNeverFails, Honest, Current
<1>5. CASE UNCHANGED vars
  BY <1>5 DEF vars, runVars, worldVars, CacheInv, TypeOK, InTime, StampsHonest, EntryStays, NoErrorYet,
              CacheNeverFails, Honest, Current
<1>6. QED
  BY <1>1, <1>2, <1>3, <1>4, <1>5 DEF Next

\* Type correctness for any runs, times and versions.
THEOREM TypeCorrect == Spec => []TypeOK
<1>1. CacheInv => TypeOK
  BY DEF CacheInv
<1>2. QED
  BY <1>1, InitCacheInv, NextCacheInv, PTL DEF Spec

\* Once there is an entry every run returns a value, whatever other runs
\* write, fail at or are killed in.
THEOREM NeverFails == Spec => []CacheNeverFails
<1>1. CacheInv => CacheNeverFails
  BY DEF CacheInv
<1>2. QED
  BY <1>1, InitCacheInv, NextCacheInv, PTL DEF Spec

\* Only three steps return a value.
LEMMA WhoReturns ==
    ASSUME CacheInv, [Next]_vars, NEW p \in Procs, Returned(p)
    PROVE  Read(p) \/ FetchFails(p) \/ Rename(p)
<1> USE CacheAssumption, SentinelAssumption
<1>1. out'[p] # None /\ out'[p] # out[p]
  BY DEF Returned
<1>2. ~(Kill(p) \/ Exit(p))
  BY <1>1 DEF Kill, Exit, Returns, CacheInv, TypeOK
<1>3. \A q \in Procs : q # p => ~(Run(q) \/ Kill(q))
  BY <1>1 DEF Run, Kill, Begin, Read, Ask, FetchFails, Stamp, Rename, Open, Exit, Returns, CacheInv, TypeOK
<1>4. ~(Publish \/ Tick \/ SetBack \/ UNCHANGED vars)
  BY <1>1 DEF Publish, Tick, SetBack, vars
<1>5. ~(Begin(p) \/ Ask(p) \/ Stamp(p) \/ Open(p))
  BY <1>1 DEF Begin, Ask, Stamp, Open
<1>6. QED
  BY <1>2, <1>3, <1>4, <1>5 DEF Next, Run

\* What is fetched and kept was the list since the network was asked.
LEMMA FetchedSinceAsked ==
    ASSUME CacheInv, NEW p \in Procs, Rename(p)
    PROVE  /\ out'[p].value = value[p] /\ value[p] \in Versions
           /\ begun[p] \in 0 .. time /\ time <= begun[p] + Latency /\ Current(value[p], begun[p])
<1>1. pc[p] = "rename" /\ out'[p].value = value[p]
  BY DEF Rename, Returns, CacheInv, TypeOK
<1>2. value[p] \in Versions /\ begun[p] \in 0 .. time
  <2>1. value[p] \in 0 .. server /\ server \in 0 .. MaxVersion /\ begun[p] \in 0 .. time
    BY DEF CacheInv, TypeOK, Versions
  <2>2. QED
    BY <2>1, CacheAssumption DEF Versions
<1>3. QED
  BY <1>1, <1>2 DEF CacheInv, InTime

LEMMA YoungStep ==
    ASSUME CacheInv, [Next]_vars, NEW p \in Procs, Returned(p), ~out'[p].stale
    PROVE  Current(out'[p].value, time - TTL - Latency - back + 1)
<1> USE CacheAssumption, SentinelAssumption DEF Versions, Times
<1>1. time \in Nat /\ back \in Nat /\ server \in Nat /\ replaced \in [Versions -> Times]
  BY DEF CacheInv, TypeOK
<1>2. ASSUME NEW v, NEW from \in Int, Current(v, from), v \in Versions, from >= time - TTL - Latency - back + 1
      PROVE  Current(v, time - TTL - Latency - back + 1)
  BY <1>1, <1>2 DEF Current
<1>3. CASE Read(p)
  <2>1. /\ file \in Envelopes
        /\ out'[p].value = file.value /\ out'[p].stale = Expired(file)
    BY <1>3 DEF Read, Returns, Returned, CacheInv, TypeOK
  <2>2. file.value \in Versions /\ file.at \in Int
    BY <2>1 DEF Envelopes
  <2>3. file.at - Latency >= time - TTL - Latency - back + 1
    <3>1. ~Expired(file)
      BY <2>1
    <3>2. QED
      BY <1>1, <2>2, <3>1 DEF Expired, Now
  <2>4. Current(file.value, file.at - Latency)
    BY <2>1 DEF CacheInv, StampsHonest, Honest
  <2>5. QED
    BY <1>2, <2>1, <2>2, <2>3, <2>4
<1>4. CASE Rename(p)
  <2>1. begun[p] >= time - TTL - Latency - back + 1
    BY <1>1, <1>4, FetchedSinceAsked
  <2>2. begun[p] \in Int
    BY <1>1, <1>4, FetchedSinceAsked
  <2>3. QED
    BY <1>2, <1>4, <2>1, <2>2, FetchedSinceAsked
<1>5. CASE FetchFails(p)
  <2>1. out'[p] = Empty \/ out'[p].stale
    BY <1>5 DEF FetchFails, Returns, CacheInv, TypeOK
  <2>2. QED
    BY <2>1 DEF Returned
<1>6. QED
  BY <1>3, <1>4, <1>5, WhoReturns

\* Whatever is returned as not stale was the list less than a TTL and a
\* request ago, in whatever order slow and fast runs replace the entry.
THEOREM Young == Spec => FreshIsYoung
<1>1. CacheInv /\ [Next]_vars =>
        \A p \in Procs : Returned(p) /\ ~out'[p].stale => Current(out'[p].value, time - TTL - Latency - back + 1)
  BY YoungStep
<1>2. QED
  BY <1>1, InitCacheInv, NextCacheInv, PTL DEF Spec, FreshIsYoung

\* A run that reads again, with a result behind it, is the picker resolving the
\* choice, and reads Fresh.
Resolving == \A p \in Procs : pc[p] = "read" /\ out[p] # None => mode[p] = "Fresh"

LEMMA ResolvesFresh == Spec => [](CacheInv /\ Resolving)
<1>1. Init => Resolving
  BY DEF Init, Resolving
<1>2. CacheInv /\ Resolving /\ [Next]_vars => Resolving'
  <2> SUFFICES ASSUME CacheInv, Resolving, [Next]_vars PROVE Resolving'
    OBVIOUS
  <2>1. /\ pc \in [Procs -> {"new", "read", "fetch", "answer", "rename", "choose", "done"}]
        /\ DOMAIN mode = Procs /\ DOMAIN out = Procs
    BY DEF CacheInv, TypeOK
  <2>2. ASSUME NEW p \in Procs, Begin(p) PROVE Resolving'
    <3>1. out[p] = None
      BY <2>2 DEF Begin, CacheInv, NoErrorYet
    <3>2. \A q \in Procs \ {p} : mode'[q] = mode[q]
      BY <2>1, <2>2 DEF Begin
    <3>3. QED
      BY <2>1, <2>2, <3>1, <3>2 DEF Begin, Goto, Resolving
  <2>3. ASSUME NEW p \in Procs, Open(p) PROVE Resolving'
    BY <2>1, <2>3 DEF Open, OpenMode, Goto, Resolving
  <2>4. ASSUME NEW p \in Procs,
               Read(p) \/ Ask(p) \/ FetchFails(p) \/ Stamp(p) \/ Rename(p) \/ Exit(p) \/ Kill(p)
        PROVE  Resolving'
    <3>1. /\ pc' = [pc EXCEPT ![p] = pc'[p]] /\ pc'[p] # "read"
          /\ \A q \in Procs \ {p} : out'[q] = out[q] /\ mode'[q] = mode[q]
      BY <2>1, <2>4 DEF Read, Ask, FetchFails, Stamp, Rename, Exit, Kill, Returns, Goto
    <3>2. QED
      BY <2>1, <3>1 DEF Resolving
  <2>5. CASE Publish \/ Tick \/ SetBack \/ UNCHANGED vars
    BY <2>5 DEF Publish, Tick, SetBack, vars, runVars, Resolving
  <2>6. QED
    BY <2>2, <2>3, <2>4, <2>5 DEF Next, Run
<1>3. QED
  BY <1>1, <1>2, InitCacheInv, NextCacheInv, PTL DEF Spec

\* "Refresh always refetches" (cache.go:32) and "Resolve against current data"
\* (picker.go:45), for any runs that write at the same time: a Refresh that says
\* it is not stale was the list after it began, and what resolves a choice
\* without the network is young.
THEOREM Refetches == Spec => AsksAgain
<1>1. ASSUME CacheInv, Resolving, [Next]_vars, NEW p \in Procs, Returned(p)
      PROVE  /\ mode[p] = "Refresh" /\ ~out'[p].stale => Current(out'[p].value, begun[p])
             /\ pc[p] = "read" /\ ~picks[p] /\ out[p] # None =>
                   Current(out'[p].value, time - TTL - Latency - back + 1)
  <2> USE CacheAssumption, SentinelAssumption
  <2>1. CASE Rename(p)
    <3>1. pc[p] = "rename"
      BY <2>1 DEF Rename
    <3>2. QED
      BY <1>1, <2>1, <3>1, FetchedSinceAsked
  <2>2. CASE FetchFails(p)
    <3>1. pc[p] # "read" /\ (out'[p] = Empty \/ out'[p].stale)
      BY <1>1, <2>2 DEF FetchFails, Returns, CacheInv, TypeOK
    <3>2. QED
      BY <1>1, <3>1 DEF Returned
  <2>3. CASE Read(p)
    <3>1. file \in Envelopes /\ Usable(p, file) /\ pc[p] = "read" /\ out'[p].stale = Expired(file)
      BY <1>1, <2>3 DEF Read, Returns, Returned, CacheInv, TypeOK
    <3>2. mode[p] # "Refresh"
      BY <3>1 DEF Usable
    <3>3. out[p] # None => ~out'[p].stale
      BY <1>1, <3>1 DEF Resolving, Usable
    <3>4. QED
      BY <1>1, <3>2, <3>3, YoungStep
  <2>4. QED
    BY <1>1, <2>1, <2>2, <2>3, WhoReturns
<1>2. CacheInv /\ Resolving /\ [Next]_vars =>
        \A p \in Procs : Returned(p) =>
          /\ mode[p] = "Refresh" /\ ~out'[p].stale => Current(out'[p].value, begun[p])
          /\ pc[p] = "read" /\ ~picks[p] /\ out[p] # None =>
                Current(out'[p].value, time - TTL - Latency - back + 1)
  BY <1>1
<1>3. QED
  BY <1>2, ResolvesFresh, PTL DEF Spec, AsksAgain

-----------------------------------------------------------------------------
\* Sets of numbers have a least one, and bounded ones a greatest.
LEMMA Least == ASSUME NEW T \in SUBSET Nat, T # {} PROVE \E m \in T : \A k \in T : m <= k
<1>1. PICK n \in T : TRUE
  OBVIOUS
<1> DEFINE S == 0 .. n
           Below == {0 .. m : m \in {k \in T : k <= n}}
<1>2. IsWellFoundedOn(StrictSubsetOrdering(S), SUBSET S)
  <2>1. n \in Int /\ 0 \in Int
    BY <1>1
  <2>2. IsFiniteSet(S)
    BY <2>1, FS_Interval
  <2>3. QED
    BY <2>2, FS_FiniteSubsetsOfFinite, FS_StrictSubsetOrderingWellFounded
<1>3. Below \subseteq SUBSET S /\ Below # {}
  BY <1>1
<1>4. PICK x \in Below : \A y \in Below : ~ (<<y, x>> \in StrictSubsetOrdering(S))
  BY <1>2, <1>3, WFMin
<1>5. PICK m \in T : m <= n /\ x = 0 .. m
  BY <1>4
<1>6. ASSUME NEW k \in T, k < m PROVE FALSE
  <2>1. 0 .. k \in Below
    BY <1>1, <1>5, <1>6
  <2>2. 0 .. k \subseteq 0 .. m /\ m \in 0 .. m /\ m \notin 0 .. k
    BY <1>5, <1>6
  <2>3. <<0 .. k, x>> \in StrictSubsetOrdering(S)
    BY <1>3, <1>4, <1>5, <2>1, <2>2 DEF StrictSubsetOrdering
  <2>4. QED
    BY <1>4, <2>1, <2>3
<1>7. QED
  BY <1>6

LEMMA MaxIs == ASSUME NEW T \in SUBSET Nat, T # {}, NEW top \in Nat, \A k \in T : k <= top
               PROVE  Max(T) \in T /\ \A k \in T : k <= Max(T)
<1> DEFINE U == {u \in Nat : \A k \in T : k <= u}
<1>1. top \in U
  OBVIOUS
<1>2. PICK m \in U : \A k \in U : m <= k
  BY <1>1, Least
<1>3. m \in T
  <2>1. CASE m = 0
    <3>1. PICK k \in T : TRUE
      OBVIOUS
    <3>2. k = 0
      BY <1>2, <2>1, <3>1
    <3>3. QED
      BY <2>1, <3>1, <3>2
  <2>2. CASE m # 0 /\ m \notin T
    <3>1. m - 1 \in Nat /\ \A k \in T : k <= m - 1
      BY <2>2, <1>2
    <3>2. QED
      BY <1>2, <3>1
  <2>3. QED
    BY <2>1, <2>2
<1>4. \E x \in T : \A y \in T : x >= y
  BY <1>2, <1>3
<1>5. Max(T) \in T /\ \A y \in T : Max(T) >= y
  BY <1>4 DEF Max
<1>6. QED
  BY <1>5

-----------------------------------------------------------------------------
\* A stack has layers, as parseLocalStacks and parseRemoteStacks return them.
LayerRecords == [name : Branches, merged : BOOLEAN]
StackRecords == [number : Numbers \cup {0}, layers : Seq(LayerRecords) \ {<<>>}]
StacksTyped == github \cup tracked \cup cache.stacks \subseteq StackRecords

\* Nothing is checked out twice.
Single == \A v, w \in Trees : trees[v] = trees[w] => v = w

\* Where a run has got to, in what it knows and holds.
Reached(p) ==
    /\ stage[p] # "new" => branch[p] \in Branches
    /\ stage[p] \in {"fetch", "create"} => tree[p] = Nothing
    /\ stage[p] = "open" => tree[p] # Nothing
    /\ stage[p] \in {"ensure", "space", "create"} /\ tree[p] = Nothing /\ base[p] = "origin"
          => branch[p] \in fetched
    /\ stage[p] \in {"upstream", "checkout", "init"} => branch[p] \in local

OpenTypes == OpenTypeOK /\ StacksTyped /\ Single /\ \A p \in Openers : Reached(p)

LEMMA StackIs ==
    ASSUME NEW s \in StackRecords
    PROVE  /\ s.number \in Numbers \cup {0} /\ s.layers \in Seq(LayerRecords) /\ s.layers # <<>>
           /\ Names(s) \subseteq Branches /\ Names(s) # {} /\ StackType(s)
<1>1. s.number \in Numbers \cup {0} /\ s.layers \in Seq(LayerRecords) /\ s.layers # <<>>
  BY DEF StackRecords
<1>2. \A i \in DOMAIN s.layers : s.layers[i] \in LayerRecords
  BY <1>1
<1>3. 1 \in DOMAIN s.layers
  BY <1>1
<1>4. Names(s) \subseteq Branches /\ Names(s) # {} /\ StackType(s)
  BY <1>1, <1>2, <1>3 DEF Names, StackType, LayerRecords
<1> QED
  BY <1>1, <1>4

LEMMA StackMade ==
    ASSUME NEW n \in Numbers \cup {0}, NEW seq \in Seq(Branches) \ {<<>>}
    PROVE  /\ Stack(n, seq) \in StackRecords
           /\ Stack(n, seq).number = n
           /\ Names(Stack(n, seq)) = {seq[i] : i \in DOMAIN seq}
<1>1. seq \in [1 .. Len(seq) -> Branches] /\ Len(seq) \in Nat
  OBVIOUS
<1>2. Plain(seq) \in [1 .. Len(seq) -> LayerRecords]
  BY <1>1 DEF Plain, LayerRecords
<1>3. Plain(seq) \in Seq(LayerRecords)
  BY <1>1, <1>2, SeqDef
<1>4. Plain(seq) # <<>>
  BY <1>1 DEF Plain
<1>5. Stack(n, seq) \in StackRecords /\ Stack(n, seq).number = n /\ Stack(n, seq).layers = Plain(seq)
  BY <1>3, <1>4 DEF Stack, StackRecords
<1>6. DOMAIN Plain(seq) = DOMAIN seq /\ \A i \in DOMAIN seq : Plain(seq)[i].name = seq[i]
  BY DEF Plain
<1> QED
  BY <1>5, <1>6 DEF Names

LEMMA OnTopIs ==
    ASSUME NEW s \in StackRecords, NEW b \in Branches
    PROVE  /\ OnTop(s, b) \in StackRecords
           /\ OnTop(s, b).number = s.number
           /\ Names(OnTop(s, b)) = Names(s) \cup {b}
<1> DEFINE layer == [name |-> b, merged |-> FALSE]
           t == OnTop(s, b)
<1>1. s.number \in Numbers \cup {0} /\ s.layers \in Seq(LayerRecords)
  BY StackIs
<1>2. layer \in LayerRecords
  BY DEF LayerRecords
<1>3. t = [number |-> s.number, layers |-> Append(s.layers, layer)]
  BY DEF OnTop, StackRecords, layer
<1> HIDE DEF layer
<1>4. /\ Append(s.layers, layer) \in Seq(LayerRecords) /\ Append(s.layers, layer) # <<>>
      /\ Len(s.layers) \in Nat /\ Len(Append(s.layers, layer)) = Len(s.layers) + 1
      /\ \A i \in 1 .. Len(s.layers) : Append(s.layers, layer)[i] = s.layers[i]
      /\ Append(s.layers, layer)[Len(s.layers) + 1] = layer
  BY <1>1, <1>2, AppendProperties
<1>5. t \in StackRecords /\ t.number = s.number
  BY <1>1, <1>3, <1>4 DEF StackRecords
<1>6. DOMAIN s.layers = 1 .. Len(s.layers) /\ DOMAIN t.layers = DOMAIN s.layers \cup {Len(s.layers) + 1}
  BY <1>1, <1>3, <1>4
<1>7. Names(t) = {s.layers[i].name : i \in DOMAIN s.layers} \cup {layer.name}
  BY <1>3, <1>4, <1>6 DEF Names
<1> QED
  BY <1>5, <1>7 DEF Names, layer

\* Merging a layer keeps its stack's names.
LEMMA MergedIs ==
    ASSUME NEW s \in StackRecords, NEW i \in DOMAIN s.layers
    PROVE  LET t == [s EXCEPT !.layers[i].merged = TRUE] IN
           t \in StackRecords /\ t.number = s.number /\ Names(t) = Names(s)
<1> DEFINE t == [s EXCEPT !.layers[i].merged = TRUE]
           layer == [s.layers[i] EXCEPT !.merged = TRUE]
           layers == [s.layers EXCEPT ![i] = layer]
<1>1. s.number \in Numbers \cup {0} /\ s.layers \in Seq(LayerRecords) /\ s.layers # <<>>
  BY StackIs
<1>2. s.layers[i] \in LayerRecords
  BY <1>1
<1>3. layer \in LayerRecords /\ layer.name = s.layers[i].name
  BY <1>2 DEF LayerRecords
<1>4. t = [s EXCEPT !.layers = layers]
  BY DEF StackRecords
<1> HIDE DEF layer
<1>5. layers \in Seq(LayerRecords) /\ layers # <<>> /\ DOMAIN layers = DOMAIN s.layers
  BY <1>1, <1>3
<1>6. \A j \in DOMAIN layers : layers[j].name = s.layers[j].name
  BY <1>1, <1>3
<1> HIDE DEF layers
<1>7. t \in StackRecords /\ t.number = s.number /\ t.layers = layers
  BY <1>1, <1>4, <1>5 DEF StackRecords
<1>8. Names(t) = Names(s)
  BY <1>5, <1>6, <1>7 DEF Names
<1> QED
  BY <1>7, <1>8

-----------------------------------------------------------------------------
\* Of some worktrees one comes first.
LEMMA Listing ==
    ASSUME OpenTypeOK, Single
    PROVE  /\ Worktrees \subseteq [slot : Slots, branch : Branches, rank : 0..2]
           /\ \A v, w \in Worktrees : v.branch = w.branch => v = w
           /\ \A w \in Trees : \E v \in Worktrees : v.branch = trees[w]
<1>1. \A w \in Trees : trees[w] \in Branches
  BY DEF OpenTypeOK, Trees
<1>2. Trees \subseteq Slots
  BY DEF Trees
<1> DEFINE Shows(t) == [slot |-> t, branch |-> trees[t], rank |-> Rank(t)]
<1>3. Worktrees = {Shows(t) : t \in Trees}
  BY DEF Worktrees
<1>4. \A t \in Trees : /\ Shows(t) \in [slot : Slots, branch : Branches, rank : 0..2]
                       /\ Shows(t).branch = trees[t]
  BY <1>1, <1>2 DEF Rank
<1> HIDE DEF Shows
<1> QED
  BY <1>3, <1>4 DEF Single

LEMMA FirstIs ==
    ASSUME OpenTypeOK, Single, NEW ws \in SUBSET Worktrees, ws # {}
    PROVE  First(ws) \in ws /\ First(ws) # Nothing
<1> USE SheerAssumption, TreesAssumption
<1>1. /\ \A w \in ws : w.branch \in Nat /\ w.rank \in 0..2 /\ w # Nothing
      /\ \A v, w \in ws : v.branch = w.branch => v = w
  BY Listing
<1>2. ASSUME NEW some \in SUBSET ws, some # {}
      PROVE  \E w \in some : \A v \in some \ {w} : w.branch < v.branch
  <2> DEFINE numbers == {w.branch : w \in some}
  <2>1. numbers \in SUBSET Nat /\ numbers # {}
    BY <1>1, <1>2
  <2>2. PICK m \in numbers : \A k \in numbers : m <= k
    BY <2>1, Least
  <2>3. PICK w \in some : w.branch = m
    BY <2>2
  <2>4. ASSUME NEW v \in some \ {w} PROVE w.branch < v.branch
    <3>1. v.branch \in numbers /\ v.branch # w.branch /\ v.branch \in Nat /\ w.branch \in Nat
      BY <1>1
    <3> HIDE DEF numbers
    <3> QED
      BY <2>2, <2>3, <3>1
  <2> QED
    BY <2>4
<1>3. \E w \in ws : \A v \in ws \ {w} : Before(w, v)
  <2> DEFINE ranks == {w.rank : w \in ws}
  <2>1. ranks \in SUBSET Nat /\ ranks # {}
    BY <1>1
  <2>2. PICK r \in ranks : \A k \in ranks : r <= k
    BY <2>1, Least
  <2> DEFINE best == {w \in ws : w.rank = r}
  <2>3. best # {}
    BY <2>2
  <2>4. PICK w \in best : \A v \in best \ {w} : w.branch < v.branch
    BY <1>2, <2>3
  <2>5. ASSUME NEW v \in ws \ {w} PROVE Before(w, v)
    <3>1. r <= v.rank /\ w.rank = r /\ r \in Nat /\ v.rank \in Nat
      BY <1>1, <2>1, <2>2, <2>4
    <3>2. v.rank = r => w.branch < v.branch
      BY <2>4
    <3> QED
      BY <3>1, <3>2 DEF Before
  <2> QED
    BY <2>4, <2>5
<1> QED
  BY <1>1, <1>3 DEF First

LEMMA TopIs ==
    ASSUME NEW layers \in Seq(LayerRecords) \ {<<>>}
    PROVE  \E i \in DOMAIN layers : TopUnmergedLayer(layers) = layers[i].name
<1> DEFINE left == {i \in DOMAIN layers : ~layers[i].merged}
<1>1. Len(layers) \in Nat /\ DOMAIN layers = 1 .. Len(layers) /\ Len(layers) \in DOMAIN layers
  OBVIOUS
<1>2. left # {} => Max(left) \in left
  <2>1. left \in SUBSET Nat /\ \A k \in left : k <= Len(layers)
    BY <1>1
  <2> QED
    BY <1>1, <2>1, MaxIs
<1> QED
  BY <1>1, <1>2 DEF TopUnmergedLayer

-----------------------------------------------------------------------------
\* The entries are the stacks, each by the names it has here or on GitHub,
\* and the branches in none.
EntryRecords ==
    [kind : {"stack"}, branch : Branches \cup {0}, number : Numbers \cup {0},
     layers : Seq(LayerRecords) \ {<<>>}, tree : Worktrees \cup {Nothing}]
Elsewhere(stacks) == {r \in stacks : \A t \in tracked : t.number # 0 => t.number # r.number}
Entries(stacks, refs) ==
    BuildEntries(Worktrees, {StackEntry(s) : s \in tracked}, {StackEntry(s) : s \in stacks}, refs)

LEMMA EntryIs ==
    ASSUME NEW s \in StackRecords
    PROVE  /\ StackEntry(s) \in EntryRecords
           /\ StackEntry(s).number = s.number /\ Names(StackEntry(s)) = Names(s)
BY StackIs DEF StackEntry, EntryRecords, Names

LEMMA MergeIs ==
    ASSUME NEW l \in EntryRecords, NEW r
    PROVE  MergeStacks(l, r) \in EntryRecords /\ Names(MergeStacks(l, r)) = Names(l)
<1> DEFINE Layer(i) == [l.layers[i] EXCEPT !.merged = @ \/ MergedIn(r, l.layers[i].name)]
           layers == [i \in DOMAIN l.layers |-> Layer(i)]
<1>1. l.layers \in Seq(LayerRecords) /\ l.layers # <<>>
  BY DEF EntryRecords
<1>2. ASSUME NEW i \in DOMAIN l.layers
      PROVE  Layer(i) \in LayerRecords /\ Layer(i).name = l.layers[i].name
  <2>1. l.layers[i] \in LayerRecords
    BY <1>1
  <2>2. \A q \in LayerRecords : \A now \in BOOLEAN :
            [q EXCEPT !.merged = now] \in LayerRecords /\ [q EXCEPT !.merged = now].name = q.name
    BY DEF LayerRecords
  <2>3. (l.layers[i].merged \/ MergedIn(r, l.layers[i].name)) \in BOOLEAN
    OBVIOUS
  <2> QED
    BY <2>1, <2>2, <2>3
<1> HIDE DEF Layer
<1>3. layers \in Seq(LayerRecords) /\ layers # <<>> /\ DOMAIN layers = DOMAIN l.layers
  <2>1. layers \in [1 .. Len(l.layers) -> LayerRecords] /\ Len(l.layers) \in Nat
    BY <1>1, <1>2
  <2>2. layers \in Seq(LayerRecords)
    BY <2>1, SeqDef
  <2> QED
    BY <1>1, <2>2
<1>4. \A i \in DOMAIN l.layers : layers[i].name = l.layers[i].name
  BY <1>2
<1>5. MergeStacks(l, r) = [l EXCEPT !.layers = layers]
  BY DEF MergeStacks, Layer
<1> HIDE DEF layers
<1>6. MergeStacks(l, r) \in EntryRecords /\ MergeStacks(l, r).layers = layers
  BY <1>3, <1>5 DEF EntryRecords
<1> QED
  BY <1>3, <1>4, <1>6 DEF Names

LEMMA StacksAre ==
    ASSUME StacksTyped, NEW stacks \in SUBSET StackRecords
    PROVE  LET all == Stacks({StackEntry(s) : s \in tracked}, {StackEntry(s) : s \in stacks})
               known == tracked \cup Elsewhere(stacks)
           IN  /\ \A e \in all : e \in EntryRecords /\ \E s \in known : Names(e) = Names(s)
               /\ \A s \in known : \E e \in all : Names(e) = Names(s)
<1> DEFINE here == {StackEntry(s) : s \in tracked}
           there == {StackEntry(s) : s \in stacks}
           Same(l) == {r \in there : l.number # 0 /\ r.number = l.number}
           all == Stacks(here, there)
           known == tracked \cup Elsewhere(stacks)
<1>1. /\ \A s \in tracked \cup stacks : s \in StackRecords
      /\ \A s \in StackRecords : /\ StackEntry(s) \in EntryRecords
                                 /\ StackEntry(s).number = s.number /\ Names(StackEntry(s)) = Names(s)
  BY EntryIs DEF StacksTyped
<1>2. \A l \in EntryRecords : \A r : MergeStacks(l, r) \in EntryRecords /\ Names(MergeStacks(l, r)) = Names(l)
  BY MergeIs
<1>3. \A e : e \in all <=>
          \/ e \in here /\ Same(e) = {}
          \/ \E l \in here : \E r \in Same(l) : e = MergeStacks(l, r)
          \/ e \in there /\ \A l \in here : e \notin Same(l)
  <2> DEFINE taking == {{MergeStacks(l, r) : r \in Same(l)} : l \in here}
  <2>1. all = {l \in here : Same(l) = {}}
              \cup {r \in there : \A l \in here : r \notin Same(l)} \cup UNION taking
    BY DEF Stacks
  <2>2. \A e : e \in UNION taking <=> \E l \in here : \E r \in Same(l) : e = MergeStacks(l, r)
    OBVIOUS
  <2> HIDE DEF all, Same, here, there, taking
  <2> QED
    BY <2>1, <2>2
<1>4. \A r \in stacks : (\A l \in here : StackEntry(r) \notin Same(l)) <=> r \in Elsewhere(stacks)
  BY <1>1 DEF Elsewhere
<1> HIDE DEF Same, all
<1>5. ASSUME NEW e \in all PROVE e \in EntryRecords /\ \E s \in known : Names(e) = Names(s)
  <2>1. CASE e \in here
    BY <1>1, <2>1
  <2>2. CASE \E l \in here : \E r \in Same(l) : e = MergeStacks(l, r)
    BY <1>1, <1>2, <2>2
  <2>3. CASE e \in there /\ \A l \in here : e \notin Same(l)
    BY <1>1, <1>4, <2>3
  <2> QED
    BY <1>3, <1>5, <2>1, <2>2, <2>3
<1>6. ASSUME NEW s \in known PROVE \E e \in all : Names(e) = Names(s)
  <2>1. CASE s \in tracked /\ Same(StackEntry(s)) = {}
    BY <1>1, <1>3, <2>1
  <2>2. CASE s \in tracked /\ Same(StackEntry(s)) # {}
    <3>1. PICK r \in Same(StackEntry(s)) : TRUE
      BY <2>2
    <3>2. MergeStacks(StackEntry(s), r) \in all
      BY <1>3, <2>2
    <3> QED
      BY <1>1, <1>2, <2>2, <3>2
  <2>3. CASE s \in Elsewhere(stacks)
    <3>1. s \in stacks
      BY <2>3 DEF Elsewhere
    <3>2. StackEntry(s) \in all
      BY <1>3, <1>4, <2>3, <3>1
    <3> QED
      BY <1>1, <3>1, <3>2
  <2> QED
    BY <1>6, <2>1, <2>2, <2>3
<1> QED
  BY <1>5, <1>6 DEF all

\* What is found for a branch, in any listing: an entry of its stack, or of the
\* branch if it is in no stack; with a worktree of the stack if there is one.
OfStack(e, s) ==
    /\ Names(e) = Names(s)
    /\ e.tree \in Worktrees \cup {Nothing}
    /\ e.tree = Nothing => \A w \in Worktrees : w.branch \notin Names(s)

LEMMA EntriesAre ==
    ASSUME OpenTypeOK, Single, StacksTyped, NEW stacks \in SUBSET StackRecords, NEW refs,
           NEW b \in Branches, NEW e \in Found(Entries(stacks, refs), b)
    PROVE  LET known == tracked \cup Elsewhere(stacks) IN
           \/ e.kind = "branch" /\ \A s \in known : b \notin Names(s)
           \/ e.kind = "stack" /\ \E s \in known : b \in Names(s) /\ OfStack(e, s)
<1> DEFINE all == Stacks({StackEntry(s) : s \in tracked}, {StackEntry(s) : s \in stacks})
           known == tracked \cup Elsewhere(stacks)
           Topped(s) == [s EXCEPT !.branch = TopUnmergedLayer(s.layers)]
           topped == {Topped(s) : s \in all}
           free == refs \ UNION {Names(s) : s \in topped}
           Placed(s) == [s EXCEPT !.tree = StackWorktree(Worktrees, s)]
           Alone(c) == BranchEntry(c, IF OnBranch(Worktrees, c) = {} THEN Nothing ELSE First(OnBranch(Worktrees, c)))
<1>1. /\ \A s \in all : s \in EntryRecords /\ \E t \in known : Names(s) = Names(t)
      /\ \A t \in known : \E s \in all : Names(s) = Names(t)
  BY StacksAre
<1> HIDE DEF all, known
<1>2. ASSUME NEW s \in EntryRecords
      PROVE  /\ Topped(s) \in EntryRecords
             /\ Names(Topped(s)) = Names(s) /\ Topped(s).branch \in Names(s)
  <2>1. s.layers \in Seq(LayerRecords) \ {<<>>}
    BY DEF EntryRecords
  <2>2. PICK i \in DOMAIN s.layers : TopUnmergedLayer(s.layers) = s.layers[i].name
    BY <2>1, TopIs
  <2>3. s.layers[i] \in LayerRecords
    BY <2>1
  <2>4. s.layers[i].name \in Branches
    BY <2>3 DEF LayerRecords
  <2> QED
    BY <2>2, <2>4 DEF EntryRecords, Names
<1> HIDE DEF Topped
<1>3. /\ \A s \in topped : /\ s \in EntryRecords /\ s.branch \in Names(s)
                           /\ \E t \in known : Names(s) = Names(t)
      /\ \A t \in known : \E s \in topped : Names(s) = Names(t)
  BY <1>1, <1>2
<1> HIDE DEF topped
<1>4. Entries(stacks, refs) = {Placed(s) : s \in topped} \cup {Alone(c) : c \in free}
  BY DEF Entries, BuildEntries, topped, Topped, all
<1>5. /\ e \in Entries(stacks, refs) \cup {BranchEntry(b, Nothing)} /\ Contains(e, b)
      /\ e \notin Entries(stacks, refs) => \A f \in Entries(stacks, refs) : ~Contains(f, b)
  <2>1. Contains(BranchEntry(b, Nothing), b)
    BY DEF Contains, BranchEntry
  <2> QED
    BY <2>1 DEF Found
<1>6. ASSUME NEW s \in topped
      PROVE  /\ Placed(s).kind = "stack" /\ Placed(s).branch = s.branch
             /\ Names(Placed(s)) = Names(s)
             /\ Placed(s).tree = StackWorktree(Worktrees, s)
  BY <1>3 DEF EntryRecords, Names
<1>7. ASSUME NEW s \in topped
      PROVE  /\ StackWorktree(Worktrees, s) \in Worktrees \cup {Nothing}
             /\ StackWorktree(Worktrees, s) = Nothing => \A w \in Worktrees : w.branch \notin Names(s)
  <2> DEFINE layers == {w \in Worktrees : Contains(s, w.branch)}
  <2>1. OnBranch(Worktrees, s.branch) \subseteq Worktrees
    BY DEF OnBranch
  <2>2. CASE OnBranch(Worktrees, s.branch) # {}
    BY <2>1, <2>2, FirstIs DEF StackWorktree
  <2>3. CASE OnBranch(Worktrees, s.branch) = {} /\ layers # {}
    <3>1. StackWorktree(Worktrees, s) = First(layers)
      BY <2>3 DEF StackWorktree
    <3> QED
      BY <2>3, <3>1, FirstIs
  <2>4. CASE OnBranch(Worktrees, s.branch) = {} /\ layers = {}
    <3>1. StackWorktree(Worktrees, s) = Nothing
      BY <2>4 DEF StackWorktree
    <3> QED
      BY <2>4, <3>1 DEF Contains
  <2> QED
    BY <2>2, <2>3, <2>4
<1>8. \A c, w : /\ BranchEntry(c, w).kind = "branch" /\ BranchEntry(c, w).branch = c
                /\ Names(BranchEntry(c, w)) = {}
  BY DEF BranchEntry, Names
<1> HIDE DEF Placed, Alone
<1>9. CASE \E s \in topped : e = Placed(s)
  <2>1. PICK s \in topped : e = Placed(s)
    BY <1>9
  <2>2. b \in Names(s)
    BY <1>3, <1>5, <1>6, <2>1 DEF Contains
  <2>3. PICK t \in known : Names(s) = Names(t)
    BY <1>3
  <2>4. OfStack(e, t)
    BY <1>6, <1>7, <2>1, <2>3 DEF OfStack
  <2> QED
    BY <1>6, <2>1, <2>2, <2>3, <2>4 DEF known
<1>10. CASE \E c \in free : e = Alone(c)
  <2>1. PICK c \in free : e = Alone(c)
    BY <1>10
  <2>2. e.kind = "branch" /\ e.branch = c /\ Names(e) = {}
    BY <1>8, <2>1 DEF Alone
  <2>3. c = b
    BY <1>5, <2>2 DEF Contains
  <2>4. \A s \in known : b \notin Names(s)
    BY <1>3, <2>3
  <2> QED
    BY <2>2, <2>4 DEF known
<1>11. CASE e = BranchEntry(b, Nothing) /\ e \notin Entries(stacks, refs)
  <2>1. ASSUME NEW s \in topped PROVE b \notin Names(s)
    BY <1>4, <1>5, <1>6, <1>11 DEF Contains
  <2>2. \A s \in known : b \notin Names(s)
    BY <1>3, <2>1
  <2> QED
    BY <1>8, <1>11, <2>2 DEF known
<1> QED
  BY <1>4, <1>5, <1>9, <1>10, <1>11
-----------------------------------------------------------------------------
\* A branch is in one stack here and in one on GitHub, which are the same one
\* if it is in both; a stack on GitHub is known by its number.
OneHolder(stacks) == \A s, t \in stacks : Names(s) \cap Names(t) # {} => s = t
Apart ==
    /\ OneHolder(tracked) /\ OneHolder(github)
    /\ \A s \in github : s.number \in Numbers
    /\ \A s, t \in github : s.number = t.number => s = t
    /\ \A t \in tracked, s \in github : Names(t) \cap Names(s) # {} => t.number = s.number

NoTreeOf(b) ==
    \A s \in Holding(tracked \cup Elsewhere(github), b), w \in Trees : trees[w] \notin Names(s)

LEMMA Leads ==
    ASSUME OpenTypeOK, Single, StacksTyped, NEW stacks \in SUBSET StackRecords, NEW refs,
           NEW b \in Branches, NEW e \in Found(Entries(stacks, refs), b)
    PROVE  /\ WorktreeFor(Worktrees, b, e) \in Worktrees \cup {Nothing}
           /\ Apart /\ stacks = github /\ WorktreeFor(Worktrees, b, e) = Nothing => NoTreeOf(b)
<1> DEFINE known == tracked \cup Elsewhere(stacks)
<1>1. \/ e.kind = "branch" /\ \A s \in known : b \notin Names(s)
      \/ e.kind = "stack" /\ \E s \in known : b \in Names(s) /\ OfStack(e, s)
  BY EntriesAre
<1>2. OnBranch(Worktrees, b) \subseteq Worktrees
  BY DEF OnBranch
<1>3. CASE OnBranch(Worktrees, b) # {}
  <2>1. WorktreeFor(Worktrees, b, e) \in Worktrees /\ WorktreeFor(Worktrees, b, e) # Nothing
    BY <1>2, <1>3, FirstIs DEF WorktreeFor
  <2> QED
    BY <2>1
<1>4. CASE OnBranch(Worktrees, b) = {} /\ e.kind = "branch"
  <2>1. WorktreeFor(Worktrees, b, e) = Nothing
    BY <1>4 DEF WorktreeFor
  <2> QED
    BY <1>1, <1>4, <2>1 DEF NoTreeOf, Holding
<1>5. CASE OnBranch(Worktrees, b) = {} /\ e.kind = "stack"
  <2>1. PICK s \in known : b \in Names(s) /\ OfStack(e, s)
    BY <1>1, <1>5
  <2>2. WorktreeFor(Worktrees, b, e) = e.tree
    BY <1>5 DEF WorktreeFor
  <2>3. ASSUME Apart, stacks = github, e.tree = Nothing,
               NEW t \in Holding(tracked \cup Elsewhere(github), b), NEW w \in Trees
        PROVE  trees[w] \notin Names(t)
    <3>1. PICK v \in Worktrees : v.branch = trees[w]
      BY Listing
    <3>2. trees[w] \notin Names(s)
      BY <2>1, <2>3, <3>1 DEF OfStack
    <3>3. t \in known /\ b \in Names(t) \cap Names(s)
      BY <2>1, <2>3 DEF Holding
    <3>4. t = s
      <4>1. CASE t \in tracked /\ s \in tracked
        BY <2>3, <3>3, <4>1 DEF Apart, OneHolder
      <4>2. CASE t \in Elsewhere(github) /\ s \in Elsewhere(github)
        BY <2>3, <3>3, <4>2 DEF Apart, OneHolder, Elsewhere
      <4>3. ASSUME NEW u \in tracked, NEW r \in Elsewhere(github), b \in Names(u) \cap Names(r) PROVE FALSE
        <5>1. r \in github /\ r.number \in Numbers /\ u.number = r.number
          BY <2>3, <4>3 DEF Apart, Elsewhere
        <5> QED
          BY <5>1, SheerAssumption DEF Elsewhere
      <4> QED
        BY <2>1, <2>3, <3>3, <4>1, <4>2, <4>3
    <3> QED
      BY <3>2, <3>4
  <2> QED
    BY <2>1, <2>2, <2>3 DEF NoTreeOf, OfStack
<1> QED
  BY <1>1, <1>3, <1>4, <1>5

-----------------------------------------------------------------------------
LEMMA OpenInitTypes == OpenInit => OpenTypes
<1> SUFFICES ASSUME OpenInit PROVE OpenTypes
  OBVIOUS
<1> USE SheerAssumption DEF OpenInit
<1>1. PICK n \in Numbers : github = {Stack(n, Begun)}
  OBVIOUS
<1>2. Stack(n, Begun) \in StackRecords
  BY <1>1, StackMade
<1>3. origin \subseteq Branches
  OBVIOUS
<1>4. StacksTyped
  BY <1>1, <1>2 DEF StacksTyped
<1>5. local \subseteq Branches /\ tracked \subseteq github
  BY <1>3
<1>6. trees \in [Slots -> local \cup {Nothing}] /\ Single
  BY DEF Single, Trees
<1>7. OpenTypeOK
  <2>1. \A s \in github \cup tracked \cup cache.stacks : StackType(s)
    BY <1>4, StackIs DEF StacksTyped
  <2> QED
    BY <1>3, <1>5, <1>6, <2>1 DEF OpenTypeOK, Trees
<1>8. \A p \in Openers : Reached(p)
  BY DEF Reached
<1> QED
  BY <1>4, <1>6, <1>7, <1>8 DEF OpenTypes

\* Steps of a run that leave the stacks and the worktrees alone.
LEMMA QuietTypes ==
    ASSUME OpenTypes, NEW p \in Openers,
           Start(p) \/ Fetch(p) \/ FindSpace(p) \/ CreateSpace(p) \/ OpenWorktree(p)
               \/ ClearUpstream(p) \/ Fail(p)
    PROVE  OpenTypes'
<1> USE SheerAssumption DEF OpenTypes, Enters
<1>1. /\ UNCHANGED <<github, tracked, cache, trees, local, origin, changes, fresh, tree, base>>
      /\ fetched \subseteq fetched' /\ fetched' \subseteq Branches
      /\ onMain' \subseteq Branches
      /\ spaces' \in Nat
  BY DEF Start, Fetch, FindSpace, CreateSpace, OpenWorktree, ClearUpstream, Fail, OpenTypeOK,
         hubVars, gitVars, herdrVars, Wanted, Reached
<1>2. shown' \subseteq Trees' /\ Trees' = Trees
  BY <1>1 DEF Start, Fetch, FindSpace, CreateSpace, OpenWorktree, ClearUpstream, Fail, OpenTypeOK,
              herdrVars, Trees, Reached
<1>3. /\ stage' \in [Openers -> {"new", "load", "fetch", "ensure", "space", "open", "create",
                                 "upstream", "checkout", "init", "done"}]
      /\ branch' \in [Openers -> Branches \cup {Nothing}]
  BY DEF Start, Fetch, FindSpace, CreateSpace, OpenWorktree, ClearUpstream, Fail, OpenTypeOK, Present
<1>4. ASSUME NEW q \in Openers PROVE Reached(q)'
  <2>1. CASE q # p
    BY <1>1, <2>1 DEF Start, Fetch, FindSpace, CreateSpace, OpenWorktree, ClearUpstream, Fail,
                      OpenTypeOK, Reached
  <2>2. CASE q = p
    BY <1>1, <2>2 DEF Start, Fetch, FindSpace, CreateSpace, OpenWorktree, ClearUpstream, Fail,
                      OpenTypeOK, Reached, Present, Wanted
  <2> QED
    BY <2>1, <2>2
<1>5. StacksTyped' /\ Single'
  BY <1>1 DEF StacksTyped, Single, Trees
<1>6. OpenTypeOK'
  BY <1>1, <1>2, <1>3, <1>4 DEF OpenTypeOK, Reached
<1> QED
  BY <1>4, <1>5, <1>6

LEMMA LoadTypes == ASSUME OpenTypes, NEW p \in Openers, LoadCatalog(p) PROVE OpenTypes'
<1> USE SheerAssumption DEF OpenTypes
<1>1. PICK stacks \in ListedStacks, heads \in ListedHeads :
        LET entries == BuildEntries(Worktrees, {StackEntry(s) : s \in tracked},
                           {StackEntry(s) : s \in stacks}, local \cup RemoteSet(heads))
        IN
        /\ \E e \in Found(entries, branch[p]) :
             LET w == WorktreeFor(Worktrees, branch[p], e)
             IN  tree' = [tree EXCEPT ![p] = IF w = Nothing THEN Nothing ELSE w.slot]
        /\ base' = [base EXCEPT ![p] = CASE branch[p] \in RemoteSet(heads) -> "origin"
                                         [] branch[p] \in local \ RemoteSet(heads) -> "own"
                                         [] OTHER -> "main"]
        /\ cache' = [stacks |-> IF stacks = {} THEN cache.stacks ELSE stacks, heads |-> heads]
        /\ fresh' = [fresh EXCEPT ![p] = (stacks = github /\ heads = origin)]
  BY DEF LoadCatalog, Looks
<1>2. /\ stage[p] = "load" /\ stage' = [stage EXCEPT ![p] = IF tree'[p] = Nothing THEN "fetch" ELSE "ensure"]
      /\ UNCHANGED <<branch, github, origin, local, fetched, tracked, trees, onMain, shown, spaces, changes>>
  BY DEF LoadCatalog, Enters, hubVars, gitVars, herdrVars
<1>3. stacks \subseteq StackRecords /\ heads \subseteq Branches
  BY DEF ListedStacks, ListedHeads, StacksTyped, OpenTypeOK
<1>4. PICK e \in Found(Entries(stacks, local \cup RemoteSet(heads)), branch[p]) :
        tree' = [tree EXCEPT ![p] = IF WorktreeFor(Worktrees, branch[p], e) = Nothing THEN Nothing
                                    ELSE WorktreeFor(Worktrees, branch[p], e).slot]
  BY <1>1 DEF Entries
<1>5. branch[p] \in Branches
  BY <1>2 DEF Reached
<1>6. WorktreeFor(Worktrees, branch[p], e) \in Worktrees \cup {Nothing}
  BY <1>3, <1>4, <1>5, Leads
<1>7. tree' \in [Openers -> Slots \cup {Nothing}]
  BY <1>4, <1>6, Listing DEF OpenTypeOK
<1>8. base' \in [Openers -> {"origin", "own", "main"}] /\ fresh' \in [Openers -> BOOLEAN]
  BY <1>1 DEF OpenTypeOK
<1>9. cache'.stacks \subseteq github \cup cache.stacks /\ cache'.heads \subseteq Branches
  BY <1>1, <1>3 DEF ListedStacks
<1>10. StacksTyped' /\ Single'
  BY <1>2, <1>9 DEF StacksTyped, Single, Trees
<1>11. ASSUME NEW q \in Openers PROVE Reached(q)'
  <2>1. CASE q # p
    BY <1>1, <1>2, <1>4, <2>1 DEF OpenTypeOK, Reached
  <2>2. CASE q = p
    BY <1>2, <1>5, <1>7, <2>2 DEF OpenTypeOK, Reached
  <2> QED
    BY <2>1, <2>2
<1>12. stage' \in [Openers -> {"new", "load", "fetch", "ensure", "space", "open", "create",
                               "upstream", "checkout", "init", "done"}]
  BY <1>2 DEF OpenTypeOK
<1>13. \A s \in (github \cup tracked \cup cache.stacks)' : StackType(s)
  BY <1>10, StackIs DEF StacksTyped
<1>14. \A q \in Openers : stage'[q] = "create" /\ base'[q] = "origin" => branch'[q] \in fetched'
  BY <1>11 DEF Reached
<1>15. OpenTypeOK'
  BY <1>2, <1>3, <1>7, <1>8, <1>9, <1>12, <1>13, <1>14 DEF OpenTypeOK, Trees, StackType
<1> QED
  BY <1>10, <1>11, <1>15

LEMMA CreateTypes == ASSUME OpenTypes, NEW p \in Openers, CreateWorktree(p) PROVE OpenTypes'
<1> USE SheerAssumption DEF OpenTypes
<1>1. PICK w \in Slots \ Trees : trees' = [trees EXCEPT ![w] = branch[p]] /\ shown' = shown \cup {w}
  BY DEF CreateWorktree
<1>2. /\ stage[p] = "create" /\ stage' = [stage EXCEPT ![p] = "upstream"]
      /\ ~CheckedOut(branch[p]) /\ local' = local \cup {branch[p]}
      /\ onMain' \subseteq onMain \cup {branch[p]}
      /\ fresh' = [q \in Openers |-> q = p /\ fresh[q]]
      /\ UNCHANGED <<branch, tree, base, github, origin, cache, fetched, tracked, spaces, changes>>
  BY DEF CreateWorktree, Enters, Disturbs, hubVars
<1>3. branch[p] \in Branches /\ branch[p] # Nothing
  BY <1>2 DEF Reached
<1>4. /\ trees' \in [Slots -> local' \cup {Nothing}] /\ Trees' = Trees \cup {w}
      /\ \A v \in Trees : trees'[v] = trees[v] /\ trees[v] # branch[p]
      /\ trees'[w] = branch[p]
  BY <1>1, <1>2, <1>3 DEF OpenTypeOK, Trees, CheckedOut
<1>5. StacksTyped' /\ Single'
  BY <1>2, <1>4 DEF StacksTyped, Single
<1>6. ASSUME NEW q \in Openers PROVE Reached(q)'
  BY <1>2 DEF OpenTypeOK, Reached
<1>7. OpenTypeOK'
  <2>1. \A s \in (github \cup tracked \cup cache.stacks)' : StackType(s)
    BY <1>5, StackIs DEF StacksTyped
  <2>2. \A q \in Openers : stage'[q] = "create" /\ base'[q] = "origin" => branch'[q] \in fetched'
    BY <1>6, <1>2 DEF OpenTypeOK
  <2> QED
    BY <1>1, <1>2, <1>3, <1>4, <2>1, <2>2 DEF OpenTypeOK
<1> QED
  BY <1>5, <1>6, <1>7

LEMMA CheckoutTypes ==
    ASSUME OpenTypes, NEW p \in Openers, Checkout(p) \/ InitStack(p) PROVE OpenTypes'
<1> USE SheerAssumption DEF OpenTypes
<1>1. /\ stage[p] \in {"checkout", "init"} /\ \E next \in {"init", "done"} : stage' = [stage EXCEPT ![p] = next]
      /\ stage[p] = "init" => stage' = [stage EXCEPT ![p] = "done"]
      /\ UNCHANGED <<branch, tree, base, github, origin, cache, fetched, trees, onMain, shown, spaces, changes>>
      /\ fresh' \in [Openers -> BOOLEAN]
  BY DEF Checkout, InitStack, CheckedOutWith, Enters, Disturbs, Looks, hubVars, herdrVars, OpenTypeOK
<1>2. branch[p] \in local /\ local \subseteq Branches /\ origin \subseteq Branches
  BY <1>1 DEF Reached, OpenTypeOK
<1>3. tracked' \subseteq StackRecords /\ local \subseteq local' /\ local' \subseteq Branches
  <2>1. CASE Checkout(p)
    BY <1>2, <2>1 DEF Checkout, Holding, StacksTyped
  <2>2. CASE InitStack(p)
    <3>1. tracked' = tracked \cup {Stack(0, <<branch[p]>>)} /\ local' = local
      BY <2>2 DEF InitStack
    <3>2. <<branch[p]>> \in Seq(Branches) \ {<<>>}
      <4>1. \A b \in Branches : <<b>> \in Seq(Branches) /\ <<b>> # <<>>
        OBVIOUS
      <4> QED
        BY <1>2, <4>1
    <3> QED
      BY <1>2, <3>1, <3>2, StackMade DEF StacksTyped
  <2> QED
    BY <2>1, <2>2
<1>4. StacksTyped' /\ Single'
  BY <1>1, <1>3 DEF StacksTyped, Single, Trees
<1>5. ASSUME NEW q \in Openers PROVE Reached(q)'
  BY <1>1, <1>3 DEF OpenTypeOK, Reached
<1>6. OpenTypeOK'
  <2>1. \A s \in (github \cup tracked \cup cache.stacks)' : StackType(s)
    BY <1>4, StackIs DEF StacksTyped
  <2>2. \A q \in Openers : stage'[q] = "create" /\ base'[q] = "origin" => branch'[q] \in fetched'
    BY <1>1 DEF OpenTypeOK
  <2>3. trees' \in [Slots -> local' \cup {Nothing}] /\ shown' \subseteq Trees'
    BY <1>1, <1>3 DEF OpenTypeOK, Trees
  <2>4. stage' \in [Openers -> {"new", "load", "fetch", "ensure", "space", "open", "create",
                                "upstream", "checkout", "init", "done"}]
    BY <1>1 DEF OpenTypeOK
  <2> QED
    BY <1>1, <1>3, <2>1, <2>2, <2>3, <2>4 DEF OpenTypeOK
<1> QED
  BY <1>4, <1>5, <1>6

LEMMA NumberedIs ==
    ASSUME NEW s \in StackRecords, NEW n \in Numbers
    PROVE  LET t == [s EXCEPT !.number = n] IN
           t \in StackRecords /\ t.number = n /\ Names(t) = Names(s)
BY DEF StackRecords, Names

\* What others do to the stacks and the worktrees.
LEMMA OthersTypes == ASSUME OpenTypes, Others PROVE OpenTypes'
<1> USE SheerAssumption DEF OpenTypes
<1>1. /\ changes' \in 0 .. Changes /\ shown' \subseteq Trees'
      /\ fresh' \in [Openers -> BOOLEAN]
      /\ UNCHANGED <<stage, branch, tree, base, cache, fetched, onMain, spaces>>
  BY DEF Others, OpenTypeOK, Trees, procVars
<1>2. /\ github \subseteq StackRecords /\ tracked \subseteq StackRecords
      /\ origin \subseteq Branches /\ local \subseteq Branches
      /\ trees \in [Slots -> local \cup {Nothing}]
  BY DEF StacksTyped, OpenTypeOK
<1>3. \A s \in StackRecords : Names(s) \subseteq Branches
  BY StackIs
<1>4. /\ github' \subseteq StackRecords /\ tracked' \subseteq StackRecords
      /\ origin' \subseteq Branches /\ local \subseteq local' /\ local' \subseteq Branches
      /\ trees' \in [Slots -> local' \cup {Nothing}] /\ Single'
  <2>1. CASE Push
    <3>1. PICK b \in Unused :
            /\ origin' = origin \cup {b} /\ UNCHANGED <<local, tracked, trees>>
            /\ \/ github' = github
               \/ \E n \in Numbers : github' = github \cup {Stack(n, <<b>>)}
               \/ \E s \in github : github' = (github \ {s}) \cup {OnTop(s, b)}
      BY <2>1 DEF Push
    <3>2. b \in Branches
      BY DEF Unused
    <3>3. <<b>> \in Seq(Branches) \ {<<>>}
      BY <3>2
    <3>4. /\ \A n \in Numbers : Stack(n, <<b>>) \in StackRecords
          /\ \A s \in github : OnTop(s, b) \in StackRecords
      BY <1>2, <3>2, <3>3, StackMade, OnTopIs
    <3> QED
      BY <1>2, <3>1, <3>2, <3>4 DEF Single, Trees
  <2>2. CASE MergeBottom
    <3>1. PICK s \in github, i \in 1 .. 2 :
            /\ i \in DOMAIN s.layers
            /\ github' = (github \ {s}) \cup {[s EXCEPT !.layers[i].merged = TRUE]}
            /\ origin' = origin \ {s.layers[i].name} /\ UNCHANGED <<local, tracked, trees>>
      BY <2>2 DEF MergeBottom
    <3>2. [s EXCEPT !.layers[i].merged = TRUE] \in StackRecords
      BY <1>2, <3>1, MergedIs
    <3> QED
      BY <1>2, <3>1, <3>2 DEF Single, Trees
  <2>3. CASE Submit
    <3>1. PICK s \in tracked, n \in Numbers :
            /\ github' = github \cup {[s EXCEPT !.number = n]}
            /\ tracked' = (tracked \ {s}) \cup {[s EXCEPT !.number = n]}
            /\ origin' = origin \cup Names(s) /\ UNCHANGED <<local, trees>>
      BY <2>3 DEF Submit
    <3>2. [s EXCEPT !.number = n] \in StackRecords
      BY <1>2, NumberedIs
    <3> QED
      BY <1>2, <1>3, <3>1, <3>2 DEF Single, Trees
  <2>4. CASE AddLayer
    <3>1. PICK s \in tracked, w \in Trees, b \in Unused :
            /\ tracked' = (tracked \ {s}) \cup {OnTop(s, b)}
            /\ local' = local \cup {b} /\ trees' = [trees EXCEPT ![w] = b]
            /\ UNCHANGED <<github, origin>>
      BY <2>4 DEF AddLayer, hubVars
    <3>2. b \in Branches \ local
      BY DEF Unused
    <3>3. OnTop(s, b) \in StackRecords
      BY <1>2, <3>2, OnTopIs
    <3>4. trees' \in [Slots -> local' \cup {Nothing}] /\ Single'
      BY <1>2, <3>1, <3>2 DEF Single, Trees
    <3> QED
      BY <1>2, <3>1, <3>2, <3>3, <3>4
  <2>5. CASE MoveTree
    <3>1. PICK w \in Trees, b \in local :
            /\ ~CheckedOut(b) /\ trees' = [trees EXCEPT ![w] = b]
            /\ UNCHANGED <<github, origin, local, tracked>>
      BY <2>5 DEF MoveTree, hubVars
    <3> QED
      BY <1>2, <3>1 DEF Single, Trees, CheckedOut
  <2>6. CASE RemoveTree
    <3>1. PICK w \in Trees :
            trees' = [trees EXCEPT ![w] = Nothing] /\ UNCHANGED <<github, origin, local, tracked>>
      BY <2>6 DEF RemoveTree, hubVars
    <3> QED
      BY <1>2, <3>1 DEF Single, Trees
  <2> QED
    BY <2>1, <2>2, <2>3, <2>4, <2>5, <2>6 DEF Others
<1>5. StacksTyped'
  BY <1>1, <1>4 DEF StacksTyped
<1>6. ASSUME NEW q \in Openers PROVE Reached(q)'
  BY <1>1, <1>4 DEF Reached
<1>7. OpenTypeOK'
  <2>1. \A s \in (github \cup tracked \cup cache.stacks)' : StackType(s)
    BY <1>5, StackIs DEF StacksTyped
  <2>2. \A q \in Openers : stage'[q] = "create" /\ base'[q] = "origin" => branch'[q] \in fetched'
    BY <1>1 DEF OpenTypeOK
  <2> QED
    BY <1>1, <1>4, <2>1, <2>2 DEF OpenTypeOK
<1> QED
  BY <1>4, <1>5, <1>6, <1>7

LEMMA OpenTypesHold == OpenSpec => []OpenTypes
<1>1. OpenTypes /\ [OpenNext]_openVars => OpenTypes'
  <2> SUFFICES ASSUME OpenTypes, [OpenNext]_openVars PROVE OpenTypes'
    OBVIOUS
  <2>1. ASSUME NEW p \in Openers, Step(p) PROVE OpenTypes'
    BY <2>1, QuietTypes, LoadTypes, CreateTypes, CheckoutTypes DEF Step
  <2>2. CASE Others
    BY <2>2, OthersTypes
  <2>3. CASE UNCHANGED openVars
    BY <2>3 DEF openVars, procVars, hubVars, gitVars, herdrVars, OpenTypes, OpenTypeOK, StacksTyped,
                Single, Reached, Trees
  <2> QED
    BY <2>1, <2>2, <2>3 DEF OpenNext
<1> QED
  BY <1>1, OpenInitTypes, PTL DEF OpenSpec

\* What every run knows and what git, GitHub and herdr hold keep their types.
THEOREM OpenTypeCorrect == OpenSpec => []OpenTypeOK
<1>1. OpenTypes => OpenTypeOK
  BY DEF OpenTypes
<1> QED
  BY <1>1, OpenTypesHold, PTL

-----------------------------------------------------------------------------
\* A stack is begun with a branch that GitHub has in a stack only if one is
\* tracked here meanwhile, and then it is not begun.
Begins(p) == stage[p] = "init" /\ Holding(github, branch[p]) # {} => Holding(tracked, branch[p]) # {}
StacksInv == Apart /\ \A p \in Openers : Begins(p)

LEMMA Added ==
    ASSUME NEW stacks, OneHolder(stacks), NEW t, \A u \in stacks : Names(u) \cap Names(t) = {}
    PROVE  OneHolder(stacks \cup {t})
BY DEF OneHolder

LEMMA Replaced ==
    ASSUME NEW stacks, OneHolder(stacks), NEW s \in stacks, NEW t,
           \A u \in stacks \ {s} : Names(u) \cap Names(t) \subseteq Names(s)
    PROVE  OneHolder((stacks \ {s}) \cup {t})
<1>1. \A u \in stacks \ {s} : Names(u) \cap Names(t) = {}
  BY DEF OneHolder
<1> QED
  BY <1>1 DEF OneHolder

LEMMA InitStacks == OpenInit => StacksInv
<1> SUFFICES ASSUME OpenInit PROVE StacksInv
  OBVIOUS
<1>1. PICK n \in Numbers : github = {Stack(n, Begun)} /\ tracked \subseteq github
  BY DEF OpenInit
<1>2. Stack(n, Begun).number = n
  BY DEF Stack
<1>3. \A p \in Openers : Begins(p)
  BY DEF OpenInit, Begins
<1> QED
  BY <1>1, <1>2, <1>3 DEF StacksInv, Apart, OneHolder

LEMMA CheckoutStacks ==
    ASSUME OpenTypes, StacksInv, NEW p \in Openers, Checkout(p) PROVE StacksInv'
<1>1. /\ UNCHANGED <<github, branch>> /\ stage[p] = "checkout"
      /\ \A q \in Openers \ {p} : stage'[q] = stage[q]
  BY DEF Checkout, CheckedOutWith, Enters, hubVars, OpenTypes, OpenTypeOK
<1> DEFINE Leaves(code) == CheckedOutWith(p, code)
<1>2. (Leaves(0) \/ Leaves(1)) => stage'[p] = "done"
  BY DEF CheckedOutWith, Enters, NoStack, OpenTypes, OpenTypeOK
<1> HIDE DEF Leaves
<1>3. \/ Leaves(0)
      \/ Leaves(1)
      \/ Holding(tracked \cup github, branch[p]) = {} /\ UNCHANGED tracked
  BY DEF Checkout, Leaves
<1>4. CASE tracked' = tracked
  <2>1. ASSUME stage'[p] = "init" PROVE Holding(github, branch[p]) = {}
    BY <1>2, <1>3, <2>1 DEF Holding
  <2>2. Apart'
    BY <1>1, <1>4 DEF StacksInv, Apart, OneHolder
  <2>3. ASSUME NEW q \in Openers PROVE Begins(q)'
    BY <1>1, <1>4, <2>1 DEF StacksInv, Begins, Holding
  <2> QED
    BY <2>2, <2>3 DEF StacksInv
<1>5. CASE tracked' # tracked
  <2>1. PICK s \in Holding(github, branch[p]) : tracked' = {t \in tracked : t.number # s.number} \cup {s}
    BY <1>5 DEF Checkout
  <2>2. s \in github /\ stage'[p] = "done"
    BY <1>2, <1>3, <1>5, <2>1 DEF Holding
  <2>3. \A t \in tracked : t.number # s.number => Names(t) \cap Names(s) = {}
    BY <2>2 DEF StacksInv, Apart
  <2>4. OneHolder(tracked')
    <3> DEFINE others == {t \in tracked : t.number # s.number}
    <3>1. OneHolder(others)
      BY DEF StacksInv, Apart, OneHolder
    <3>2. \A u \in others : Names(u) \cap Names(s) = {}
      BY <2>3
    <3> HIDE DEF others
    <3>3. OneHolder(others \cup {s})
      BY <3>1, <3>2, Added
    <3> QED
      BY <2>1, <3>3 DEF others
  <2>5. Apart'
    BY <1>1, <2>1, <2>2, <2>4 DEF StacksInv, Apart, OneHolder
  <2>6. ASSUME NEW q \in Openers, stage'[q] = "init", Holding(github, branch[q]) # {}
        PROVE  Holding(tracked', branch[q]) # {}
    <3>1. q # p /\ stage[q] = "init"
      BY <1>1, <2>2, <2>6
    <3>2. PICK t \in tracked : branch[q] \in Names(t)
      BY <2>6, <3>1 DEF StacksInv, Begins, Holding
    <3>3. PICK g \in github : branch[q] \in Names(g)
      BY <2>6 DEF Holding
    <3>4. t.number = g.number
      BY <3>2, <3>3 DEF StacksInv, Apart
    <3>5. CASE t.number = s.number
      <4>1. g = s
        BY <2>2, <3>4, <3>5 DEF StacksInv, Apart
      <4> QED
        BY <2>1, <3>3, <4>1 DEF Holding
    <3>6. CASE t.number # s.number
      BY <2>1, <3>2, <3>6 DEF Holding
    <3> QED
      BY <3>5, <3>6
  <2>7. \A q \in Openers : Begins(q)'
    BY <1>1, <2>6 DEF Begins, Holding
  <2> QED
    BY <2>5, <2>7 DEF StacksInv
<1> QED
  BY <1>4, <1>5

LEMMA InitStackStacks ==
    ASSUME OpenTypes, StacksInv, NEW p \in Openers, InitStack(p) PROVE StacksInv'
<1> DEFINE new == Stack(0, <<branch[p]>>)
<1>1. /\ stage[p] = "init" /\ stage' = [stage EXCEPT ![p] = "done"]
      /\ Holding(tracked, branch[p]) = {} /\ tracked' = tracked \cup {new}
      /\ UNCHANGED <<github, branch>>
  BY DEF InitStack, Enters, hubVars
<1>2. branch[p] \in Branches
  BY <1>1 DEF OpenTypes, Reached
<1>3. Names(new) = {branch[p]}
  <2> DEFINE one == <<branch[p]>>
  <2>1. one \in Seq(Branches) \ {<<>>} /\ DOMAIN one = {1} /\ one[1] = branch[p]
    BY <1>2
  <2> HIDE DEF one
  <2>2. Names(Stack(0, one)) = {one[i] : i \in DOMAIN one}
    BY <2>1, StackMade
  <2> QED
    BY <2>1, <2>2 DEF one
<1> HIDE DEF new
<1>4. Holding(github, branch[p]) = {}
  BY <1>1 DEF StacksInv, Begins
<1>5. OneHolder(tracked')
  BY <1>1, <1>3, Added DEF StacksInv, Apart, Holding
<1>6. Apart'
  BY <1>1, <1>3, <1>4, <1>5 DEF StacksInv, Apart, Holding
<1>7. ASSUME NEW q \in Openers PROVE Begins(q)'
  BY <1>1 DEF StacksInv, Begins, Holding, OpenTypes, OpenTypeOK
<1> QED
  BY <1>6, <1>7 DEF StacksInv

LEMMA OthersStacks == ASSUME OpenTypes, StacksInv, Others PROVE StacksInv'
<1> USE SheerAssumption
<1>1. UNCHANGED <<stage, branch>>
  BY DEF Others, procVars
<1>2. \A s \in tracked \cup github : s \in StackRecords
  BY DEF OpenTypes, StacksTyped
<1>3. ASSUME NEW b \in Unused
      PROVE  /\ b \in Branches \ local
             /\ \A s \in tracked \cup github : b \notin Names(s)
  BY DEF Unused
<1>4. ASSUME NEW q \in Openers, stage[q] = "init"
      PROVE  branch[q] \in local /\ (Holding(github, branch[q]) # {} => Holding(tracked, branch[q]) # {})
  BY <1>4 DEF OpenTypes, Reached, StacksInv, Begins
<1>5. OneHolder(tracked) /\ OneHolder(github)
  BY DEF StacksInv, Apart
<1>6. CASE Push
  <2>1. PICK b \in Unused :
          /\ UNCHANGED tracked
          /\ \/ github' = github
             \/ \E n \in Numbers \ {s.number : s \in github} : github' = github \cup {Stack(n, <<b>>)}
             \/ \E s \in github : github' = (github \ {s}) \cup {OnTop(s, b)}
    BY <1>6 DEF Push
  <2>2. CASE github' = github
    BY <1>1, <2>1, <2>2 DEF StacksInv, Apart, OneHolder, Begins, Holding
  <2>3. CASE \E n \in Numbers \ {s.number : s \in github} : github' = github \cup {Stack(n, <<b>>)}
    <3>1. PICK n \in Numbers \ {s.number : s \in github} : github' = github \cup {Stack(n, <<b>>)}
      BY <2>3
    <3> DEFINE one == <<b>>
               new == Stack(n, one)
    <3>2. one \in Seq(Branches) \ {<<>>} /\ DOMAIN one = {1} /\ one[1] = b
      BY <1>3
    <3> HIDE DEF one
    <3>3. new.number = n /\ Names(new) = {b}
      BY <3>2, StackMade
    <3>4. github' = github \cup {new}
      BY <3>1 DEF one
    <3> HIDE DEF new
    <3>5. OneHolder(github')
      BY <1>3, <1>5, <3>3, <3>4, Added
    <3>6. Apart'
      BY <1>3, <2>1, <3>1, <3>3, <3>4, <3>5 DEF StacksInv, Apart
    <3>7. ASSUME NEW q \in Openers PROVE Begins(q)'
      BY <1>1, <1>3, <1>4, <2>1, <3>3, <3>4 DEF Begins, Holding
    <3> QED
      BY <3>6, <3>7 DEF StacksInv
  <2>4. CASE \E s \in github : github' = (github \ {s}) \cup {OnTop(s, b)}
    <3>1. PICK s \in github : github' = (github \ {s}) \cup {OnTop(s, b)}
      BY <2>4
    <3> DEFINE new == OnTop(s, b)
    <3>2. new.number = s.number /\ Names(new) = Names(s) \cup {b}
      BY <1>2, <1>3, OnTopIs
    <3> HIDE DEF new
    <3>3. OneHolder(github')
      BY <1>3, <1>5, <3>1, <3>2, Replaced DEF new
    <3>4. Apart'
      BY <1>3, <2>1, <3>1, <3>2, <3>3 DEF StacksInv, Apart, new
    <3>5. ASSUME NEW q \in Openers PROVE Begins(q)'
      BY <1>1, <1>3, <1>4, <2>1, <3>1, <3>2 DEF Begins, Holding, new
    <3> QED
      BY <3>4, <3>5 DEF StacksInv
  <2> QED
    BY <2>1, <2>2, <2>3, <2>4
<1>7. CASE MergeBottom
  <2>1. PICK s \in github, i \in 1 .. 2 :
          /\ i \in DOMAIN s.layers
          /\ github' = (github \ {s}) \cup {[s EXCEPT !.layers[i].merged = TRUE]}
          /\ UNCHANGED tracked
    BY <1>7 DEF MergeBottom
  <2> DEFINE new == [s EXCEPT !.layers[i].merged = TRUE]
  <2>2. new.number = s.number /\ Names(new) = Names(s)
    BY <1>2, <2>1, MergedIs
  <2>3. github' = (github \ {s}) \cup {new} /\ tracked' = tracked
    BY <2>1
  <2> HIDE DEF new
  <2>4. OneHolder(github')
    BY <1>5, <2>2, <2>3, Replaced
  <2>5. Apart'
    <3>1. \A u \in github' : \E v \in github : u.number = v.number /\ Names(u) = Names(v)
                                           /\ (u = v \/ (u = new /\ v = s))
      BY <2>2, <2>3
    <3>2. \A u, v \in github' : u.number = v.number => u = v
      BY <2>2, <2>3 DEF StacksInv, Apart
    <3> QED
      BY <2>3, <2>4, <3>1, <3>2 DEF StacksInv, Apart
  <2>6. ASSUME NEW q \in Openers PROVE Begins(q)'
    BY <1>1, <1>4, <2>1, <2>2, <2>3 DEF Begins, Holding
  <2> QED
    BY <2>5, <2>6 DEF StacksInv
<1>8. CASE Submit
  <2>1. PICK s \in tracked, n \in Numbers \ {t.number : t \in github \cup tracked} :
          /\ s.number = 0
          /\ github' = github \cup {[s EXCEPT !.number = n]}
          /\ tracked' = (tracked \ {s}) \cup {[s EXCEPT !.number = n]}
    BY <1>8 DEF Submit
  <2> DEFINE new == [s EXCEPT !.number = n]
  <2>2. new.number = n /\ Names(new) = Names(s)
    BY <1>2, NumberedIs
  <2>3. github' = github \cup {new} /\ tracked' = (tracked \ {s}) \cup {new}
    BY <2>1
  <2> HIDE DEF new
  <2>4. \A g \in github : Names(s) \cap Names(g) = {}
    BY <2>1 DEF StacksInv, Apart
  <2>5. OneHolder(tracked') /\ OneHolder(github')
    BY <1>5, <2>2, <2>3, <2>4, Added, Replaced
  <2>6. Apart'
    <3>1. \A t \in tracked \ {s} : Names(t) \cap Names(new) = {}
      BY <1>5, <2>2 DEF OneHolder
    <3> QED
      BY <2>1, <2>2, <2>3, <2>4, <2>5, <3>1 DEF StacksInv, Apart
  <2>7. ASSUME NEW q \in Openers PROVE Begins(q)'
    BY <1>1, <1>4, <2>2, <2>3 DEF Begins, Holding
  <2> QED
    BY <2>6, <2>7 DEF StacksInv
<1>9. CASE AddLayer
  <2>1. PICK s \in tracked, b \in Unused :
          tracked' = (tracked \ {s}) \cup {OnTop(s, b)} /\ UNCHANGED github
    BY <1>9 DEF AddLayer, hubVars
  <2> DEFINE new == OnTop(s, b)
  <2>2. new.number = s.number /\ Names(new) = Names(s) \cup {b}
    BY <1>2, <1>3, OnTopIs
  <2>3. tracked' = (tracked \ {s}) \cup {new}
    BY <2>1
  <2> HIDE DEF new
  <2>4. OneHolder(tracked')
    BY <1>3, <1>5, <2>2, <2>3, Replaced
  <2>5. Apart'
    BY <1>3, <2>1, <2>2, <2>3, <2>4 DEF StacksInv, Apart
  <2>6. ASSUME NEW q \in Openers PROVE Begins(q)'
    BY <1>1, <1>4, <2>1, <2>2, <2>3 DEF Begins, Holding
  <2> QED
    BY <2>5, <2>6 DEF StacksInv
<1>10. CASE MoveTree \/ RemoveTree
  BY <1>1, <1>10 DEF MoveTree, RemoveTree, hubVars, StacksInv, Apart, OneHolder, Begins, Holding
<1> QED
  BY <1>6, <1>7, <1>8, <1>9, <1>10 DEF Others

LEMMA StacksHold == OpenSpec => [](OpenTypes /\ StacksInv)
<1>1. OpenTypes /\ StacksInv /\ [OpenNext]_openVars => StacksInv'
  <2> SUFFICES ASSUME OpenTypes, StacksInv, [OpenNext]_openVars PROVE StacksInv'
    OBVIOUS
  <2>1. ASSUME UNCHANGED <<github, tracked, branch>>,
               \A q \in Openers : stage'[q] = "init" => stage[q] = "init"
        PROVE  StacksInv'
    BY <2>1 DEF StacksInv, Apart, OneHolder, Begins, Holding
  <2>2. ASSUME NEW p \in Openers, Step(p) PROVE StacksInv'
    <3>1. CASE Start(p)
      <4>1. UNCHANGED <<github, tracked>> /\ \A q \in Openers : q # p => branch'[q] = branch[q]
        BY <3>1 DEF Start, hubVars, gitVars, OpenTypes, OpenTypeOK
      <4>2. /\ stage'[p] = "load"
            /\ \A q \in Openers \ {p} : stage'[q] = stage[q]
        BY <3>1 DEF Start, Enters, OpenTypes, OpenTypeOK
      <4> QED
        BY <4>1, <4>2 DEF StacksInv, Apart, OneHolder, Begins, Holding
    <3>2. CASE LoadCatalog(p) \/ Fetch(p) \/ FindSpace(p) \/ CreateSpace(p) \/ OpenWorktree(p)
                   \/ CreateWorktree(p) \/ ClearUpstream(p) \/ Fail(p)
      <4>1. /\ UNCHANGED <<github, tracked, branch>>
            /\ \E next \in {"fetch", "ensure", "space", "create", "open", "done", "upstream", "checkout"} :
                  stage' = [stage EXCEPT ![p] = next]
        BY <3>2 DEF LoadCatalog, Fetch, FindSpace, CreateSpace, OpenWorktree, CreateWorktree,
                    ClearUpstream, Fail, Enters, Present, hubVars, gitVars
      <4> QED
        BY <2>1, <4>1 DEF OpenTypes, OpenTypeOK
    <3> QED
      BY <2>2, <3>1, <3>2, CheckoutStacks, InitStackStacks DEF Step
  <2>3. CASE UNCHANGED openVars
    BY <2>1, <2>3 DEF openVars, procVars, hubVars, gitVars
  <2> QED
    BY <2>2, <2>3, OthersStacks DEF OpenNext
<1> QED
  BY <1>1, InitStacks, OpenTypesHold, PTL DEF OpenSpec

-----------------------------------------------------------------------------
\* What a listing that still holds says of a run that goes by it.
Seeking(p) == stage[p] \in {"fetch", "ensure", "space", "create"} /\ tree[p] = Nothing
StillHolds(p) ==
    fresh[p] =>
        /\ Seeking(p) => NoTreeOf(branch[p])
        /\ Seeking(p) /\ base[p] = "main" => branch[p] \notin local \cup origin
        /\ stage[p] = "init" => Holding(tracked \cup github, branch[p]) = {}

LEMMA SameLook ==
    ASSUME UNCHANGED <<github, origin, tracked, local, trees>>, NEW p \in Openers, StillHolds(p),
           UNCHANGED <<branch[p], tree[p], base[p]>>, fresh'[p] => fresh[p],
           Seeking(p)' => Seeking(p), stage'[p] = "init" => stage[p] = "init"
    PROVE  StillHolds(p)'
BY DEF StillHolds, NoTreeOf, Holding, Elsewhere, Trees

LEMMA LoadLooks ==
    ASSUME OpenTypes, StacksInv, NEW p \in Openers, LoadCatalog(p) PROVE StillHolds(p)'
<1> USE DEF OpenTypes
<1>1. PICK stacks \in ListedStacks, heads \in ListedHeads :
        LET entries == BuildEntries(Worktrees, {StackEntry(s) : s \in tracked},
                           {StackEntry(s) : s \in stacks}, local \cup RemoteSet(heads))
        IN
        /\ \E e \in Found(entries, branch[p]) :
             LET w == WorktreeFor(Worktrees, branch[p], e)
             IN  tree' = [tree EXCEPT ![p] = IF w = Nothing THEN Nothing ELSE w.slot]
        /\ base' = [base EXCEPT ![p] = CASE branch[p] \in RemoteSet(heads) -> "origin"
                                         [] branch[p] \in local \ RemoteSet(heads) -> "own"
                                         [] OTHER -> "main"]
        /\ fresh' = [fresh EXCEPT ![p] = (stacks = github /\ heads = origin)]
  BY DEF LoadCatalog, Looks
<1>2. /\ stage[p] = "load" /\ stage'[p] \in {"fetch", "ensure"}
      /\ UNCHANGED <<branch, github, origin, local, tracked, trees>>
  BY DEF LoadCatalog, Enters, hubVars, gitVars, OpenTypeOK
<1>3. stacks \subseteq StackRecords
  BY DEF ListedStacks, StacksTyped
<1>4. PICK e \in Found(Entries(stacks, local \cup RemoteSet(heads)), branch[p]) :
        tree' = [tree EXCEPT ![p] = IF WorktreeFor(Worktrees, branch[p], e) = Nothing THEN Nothing
                                    ELSE WorktreeFor(Worktrees, branch[p], e).slot]
  BY <1>1 DEF Entries
<1>5. branch[p] \in Branches
  BY <1>2 DEF Reached
<1>6. /\ WorktreeFor(Worktrees, branch[p], e) \in Worktrees \cup {Nothing}
      /\ stacks = github /\ WorktreeFor(Worktrees, branch[p], e) = Nothing => NoTreeOf(branch[p])
  BY <1>3, <1>4, <1>5, Leads DEF StacksInv
<1>7. tree'[p] = Nothing => WorktreeFor(Worktrees, branch[p], e) = Nothing
  BY <1>4, <1>6, Listing, SheerAssumption DEF OpenTypeOK
<1>8. ASSUME fresh'[p], tree'[p] = Nothing PROVE NoTreeOf(branch[p])
  BY <1>1, <1>6, <1>7, <1>8 DEF OpenTypeOK
<1>9. ASSUME fresh'[p], base'[p] = "main" PROVE branch[p] \notin local \cup origin
  BY <1>1, <1>9 DEF OpenTypeOK, RemoteSet
<1>10. NoTreeOf(branch[p]) => NoTreeOf(branch[p])'
  BY <1>2 DEF NoTreeOf, Holding, Elsewhere, Trees
<1> QED
  BY <1>2, <1>8, <1>9, <1>10 DEF StillHolds, Seeking

LEMMA LooksHold == OpenSpec => [](OpenTypes /\ StacksInv /\ \A p \in Openers : StillHolds(p))
<1> DEFINE Looked == \A p \in Openers : StillHolds(p)
<1>1. OpenInit => Looked
  BY DEF OpenInit, StillHolds
<1>2. OpenTypes /\ StacksInv /\ Looked /\ [OpenNext]_openVars => Looked'
  <2> SUFFICES ASSUME OpenTypes, StacksInv, Looked, [OpenNext]_openVars, NEW q \in Openers
               PROVE  StillHolds(q)'
    OBVIOUS
  <2> USE DEF OpenTypes
  <2>1. ASSUME NEW p \in Openers, Step(p) PROVE StillHolds(q)'
    <3>1. CASE LoadCatalog(p)
      <4>1. CASE q = p
        BY <3>1, <4>1, LoadLooks
      <4>2. CASE q # p
        <5>1. /\ UNCHANGED <<github, origin, tracked, local, trees, branch[q], tree[q], base[q]>>
              /\ stage'[q] = stage[q] /\ fresh'[q] = fresh[q]
          BY <3>1, <4>2 DEF LoadCatalog, Enters, Looks, hubVars, gitVars, OpenTypeOK
        <5> QED
          BY <5>1, SameLook DEF Seeking
      <4> QED
        BY <4>1, <4>2
    <3>2. CASE Start(p)
      <4>1. CASE q = p
        <5>1. stage'[p] = "load"
          BY <3>2 DEF Start, Enters, OpenTypeOK
        <5> QED
          BY <4>1, <5>1 DEF StillHolds, Seeking
      <4>2. CASE q # p
        <5>1. /\ UNCHANGED <<github, origin, tracked, local, trees, branch[q], tree[q], base[q]>>
              /\ stage'[q] = stage[q] /\ fresh'[q] = fresh[q]
          BY <3>2, <4>2 DEF Start, Enters, hubVars, gitVars, OpenTypeOK
        <5> QED
          BY <5>1, SameLook DEF Seeking
      <4> QED
        BY <4>1, <4>2
    <3>3. CASE Fetch(p) \/ FindSpace(p) \/ CreateSpace(p) \/ OpenWorktree(p) \/ ClearUpstream(p) \/ Fail(p)
      <4>1. UNCHANGED <<github, origin, tracked, local, trees, branch, tree, base, fresh>>
        BY <3>3 DEF Fetch, FindSpace, CreateSpace, OpenWorktree, ClearUpstream, Fail, hubVars, gitVars
      <4>2. /\ stage'[q] # "init" \/ stage[q] = "init"
            /\ Seeking(q)' => Seeking(q)
        BY <3>3, <4>1 DEF Fetch, FindSpace, CreateSpace, OpenWorktree, ClearUpstream, Fail, Enters, Present,
                          Seeking, OpenTypeOK
      <4> QED
        BY <4>1, <4>2, SameLook
    <3>4. CASE CreateWorktree(p)
      <4>1. stage'[p] = "upstream" /\ (fresh'[q] => q = p)
        BY <3>4 DEF CreateWorktree, Enters, Disturbs, OpenTypeOK
      <4> QED
        BY <4>1 DEF StillHolds, Seeking
    <3>5. CASE InitStack(p)
      <4>1. stage'[p] = "done" /\ (fresh'[q] => q = p)
        BY <3>5 DEF InitStack, Enters, Disturbs, OpenTypeOK
      <4> QED
        BY <4>1 DEF StillHolds, Seeking
    <3>6. CASE Checkout(p)
      <4> DEFINE Leaves(code) == CheckedOutWith(p, code)
      <4>1. /\ UNCHANGED <<github, origin, trees, branch, tree, base>>
            /\ stage[p] = "checkout"
        BY <3>6 DEF Checkout, hubVars
      <4>2. /\ Leaves(0) \/ Leaves(1) => stage'[p] = "done"
            /\ Leaves(2) => stage'[p] = "init"
            /\ Leaves(0) \/ Leaves(1) \/ Leaves(2) => \A r \in Openers \ {p} : stage'[r] = stage[r]
        BY DEF CheckedOutWith, Enters, NoStack, OpenTypeOK
      <4> HIDE DEF Leaves
      <4>3. \/ /\ \/ Leaves(1)
                  \/ Leaves(0)
                  \/ Leaves(2) /\ Holding(tracked \cup github, branch[p]) = {}
               /\ fresh' = [fresh EXCEPT ![p] = TRUE] /\ UNCHANGED <<local, tracked>>
            \/ Leaves(0) /\ fresh' = [r \in Openers |-> r = p /\ fresh[r]]
        BY <3>6 DEF Checkout, Leaves, Looks, Disturbs
      <4>4. CASE q = p
        BY <4>1, <4>2, <4>3, <4>4 DEF StillHolds, Seeking, Holding
      <4>5. CASE q # p /\ fresh'[q]
        <5>1. fresh[q] /\ stage'[q] = stage[q] /\ UNCHANGED <<local, tracked>>
          BY <4>2, <4>3, <4>5 DEF OpenTypeOK
        <5> QED
          BY <4>1, <5>1, SameLook DEF Seeking
      <4> QED
        BY <4>4, <4>5 DEF StillHolds
    <3> QED
      BY <2>1, <3>1, <3>2, <3>3, <3>4, <3>5, <3>6 DEF Step
  <2>2. CASE Others
    BY <2>2 DEF Others, StillHolds
  <2>3. CASE UNCHANGED openVars
    <3>1. UNCHANGED <<github, origin, tracked, local, trees, branch, tree, base, fresh, stage>>
      BY <2>3 DEF openVars, procVars, hubVars, gitVars
    <3> QED
      BY <3>1, SameLook DEF Seeking
  <2> QED
    BY <2>1, <2>2, <2>3 DEF OpenNext
<1> HIDE DEF Looked
<1>3. OpenSpec => []Looked
  BY <1>1, <1>2, StacksHold, PTL DEF OpenSpec
<1> QED
  BY <1>3, StacksHold, PTL DEF Looked

\* With a listing that still holds no worktree is created for a layer gh stack
\* tracks here, nor for a layer of a stack that is only on GitHub, while another
\* layer of that stack has one (openOrCreate).  Layers that only GitHub has of a
\* stack tracked here are left out: they do get a second worktree.
THEOREM OneTreeEach == OpenSpec => OneTree
<1> DEFINE Inv == OpenTypes /\ StacksInv /\ \A p \in Openers : StillHolds(p)
           Alone == \A p \in Openers : Creates(p) /\ fresh[p] =>
               LET untracked == {s \in github : \A t \in tracked : t.number # s.number}
               IN  \A s \in Holding(tracked \cup untracked, branch[p]), w \in Trees : trees[w] \notin Names(s)
<1>1. Inv => Alone
  <2> SUFFICES ASSUME Inv, NEW p \in Openers, Creates(p), fresh[p]
               PROVE  LET untracked == {s \in github : \A t \in tracked : t.number # s.number}
                      IN  \A s \in Holding(tracked \cup untracked, branch[p]), w \in Trees :
                            trees[w] \notin Names(s)
    OBVIOUS
  <2>1. NoTreeOf(branch[p])
    BY DEF Creates, OpenTypes, Reached, StillHolds, Seeking
  <2> QED
    BY <2>1 DEF NoTreeOf, Holding, Elsewhere
<1>2. Inv => [Alone]_openVars
  BY <1>1
<1>3. OpenSpec => []Inv
  BY LooksHold
<1> QED
  BY <1>2, <1>3, PTL DEF OneTree

\* With a listing that still holds only a branch that is neither here nor on
\* origin starts from main.
THEOREM NewFromMain == OpenSpec => OnlyNewFromMain
<1> DEFINE Inv == OpenTypes /\ StacksInv /\ \A p \in Openers : StillHolds(p)
           New == \A p \in Openers :
               Creates(p) /\ fresh[p] /\ base[p] = "main" => branch[p] \notin local \cup origin
<1>1. Inv => [New]_openVars
  BY DEF Creates, OpenTypes, Reached, StillHolds, Seeking
<1>2. OpenSpec => []Inv
  BY LooksHold
<1> QED
  BY <1>1, <1>2, PTL DEF OnlyNewFromMain

\* Whatever was listed, no second stack is begun with a branch.
THEOREM NoneDuplicated == OpenSpec => NoSecondStack
<1> DEFINE Inv == OpenTypes /\ StacksInv /\ \A p \in Openers : StillHolds(p)
           NoSecond == \A p \in Openers :
               stage[p] = "init" /\ tracked' # tracked /\ stage'[p] = "done" /\ fresh[p]
               => Holding(tracked \cup github, branch[p]) = {}
<1>1. Inv => [NoSecond]_openVars
  BY DEF StillHolds
<1>2. OpenSpec => []Inv
  BY LooksHold
<1> QED
  BY <1>1, <1>2, PTL DEF NoSecondStack
=============================================================================
