-------------------------- MODULE SwitchAudioProofs --------------------------
(***************************************************************************)
(* The safety properties of SwitchAudio for any number of invocations,     *)
(* sinks, profiles and retries.  They follow from one inductive invariant: *)
(* the lock names exactly the waiter in a locked step, a locked waiter     *)
(* past its check owns the pending file, and whoever owns the file is the  *)
(* newest arrival.                                                         *)
(***************************************************************************)
EXTENDS SwitchAudio, TLAPS

\* Which program points each kind of invocation can be at.
WaiterPCs == {"new", "queue", "attempt", "retry", "finish", "done"} \cup Locked
ManualPCs == {"new", "cancel", "card", "list", "set", "pick", "choose",
              "picked", "verify", "done"}
KindOK ==
    /\ \A p \in Waiters : pc[p] \in WaiterPCs
    /\ \A p \in Manuals : pc[p] \in ManualPCs

\* A sink is named before it is used, and an outcome only at the end.
ProgressOK ==
    /\ \A p \in Procs : pc[p] \in {"new", "cancel", "pick", "done"} \/ sink[p] \in Sinks
    /\ \A p \in Procs : pc[p] \in {"finish", "done"} \/ outcome[p] = "none"

\* The lock is held by p exactly while p is a waiter in a locked step.
LockHeld ==
    /\ \A p \in Waiters : pc[p] \in Locked => lock = p
    /\ lock # None => pc[lock] \in Locked

\* Between its check and its unlink a waiter owns the file; only the newest
\* arrival owns it or is about to write it.
HolderOwns ==
    /\ \A p \in Waiters : pc[p] \in Locked \ {"write"} => pending = p
    /\ \A p \in Waiters : pc[p] = "write" => stamp[p] = serial
    /\ pending # None => stamp[pending] = serial /\ stamp[pending] > 0

\* Arrival numbers: none before arrival, one after, never above serial.
StampOK ==
    /\ \A p \in Procs : stamp[p] <= serial
    /\ \A p \in Procs : pc[p] \in {"new", "queue", "cancel"} => stamp[p] = 0
    /\ \A p \in Procs :
          pc[p] \notin {"new", "queue", "cancel", "done"} => stamp[p] > 0
    /\ \A p, q \in Procs : stamp[p] = stamp[q] /\ stamp[p] > 0 => p = q

\* While a waiter is about to unlink, no other waiter has set the default
\* after it.
SetterOK ==
    \A p \in Waiters : pc[p] = "unlink" /\ setter \in Waiters => setter = p

\* A request still in the file is written; its owner ends only by being killed.
PendingOwner ==
    pending # None => pc[pending] \notin {"new", "queue", "write"}

IInv ==
    /\ TypeOK
    /\ KindOK
    /\ ProgressOK
    /\ LockHeld
    /\ HolderOwns
    /\ StampOK
    /\ SetterOK
    /\ PendingOwner
    /\ NewestKeepsFile
    /\ SupersededByNewer
    /\ NoStaleOverride
    /\ FileCleared

-----------------------------------------------------------------------------
USE DEF Procs

LEMMA InitIInv == Init => IInv
BY SwitchAudioAssumption, SMT
   DEF Init, IInv, TypeOK, KindOK, ProgressOK, LockHeld, HolderOwns, StampOK, SetterOK,
       PendingOwner, NewestKeepsFile, SupersededByNewer, NoStaleOverride,
       FileCleared, PCs, Outcomes, Locked, WaiterPCs, ManualPCs, Waiting
LEMMA StartKeeps == ASSUME NEW p \in Procs, IInv, Start(p) PROVE IInv'
<1> USE SwitchAudioAssumption DEF IInv, Start, Goto, procVars, audioVars
<1>1. TypeOK'
  BY SMTT(30) DEF TypeOK, ProgressOK, PCs, Outcomes, Locked
<1>2. KindOK' /\ ProgressOK' /\ LockHeld'
  BY SMTT(30) DEF KindOK, ProgressOK, LockHeld, WaiterPCs, ManualPCs, Locked,
         TypeOK
<1>3. HolderOwns' /\ PendingOwner' /\ FileCleared'
  BY SMTT(30) DEF HolderOwns, PendingOwner, FileCleared, LockHeld, KindOK,
         StampOK, ManualPCs, Locked, TypeOK
<1>4. StampOK'
  BY SMTT(30) DEF StampOK, TypeOK
<1>5. SetterOK' /\ NoStaleOverride'
  BY SMTT(30) DEF SetterOK, NoStaleOverride, ProgressOK, LockHeld, HolderOwns,
         StampOK, KindOK, ManualPCs, Locked, TypeOK
<1>6. NewestKeepsFile' /\ SupersededByNewer'
  BY SMTT(30) DEF NewestKeepsFile, SupersededByNewer, ProgressOK, HolderOwns,
         StampOK, LockHeld, KindOK, ManualPCs, Waiting, Locked, TypeOK
<1> QED BY <1>1, <1>2, <1>3, <1>4, <1>5, <1>6 DEF IInv

LEMMA QueueKeeps == ASSUME NEW p \in Procs, IInv, Queue(p) PROVE IInv'
<1> USE SwitchAudioAssumption DEF IInv, Queue, Goto, Arrive, procVars, audioVars
<1>0. p \in Waiters /\ p \notin Manuals /\ p # None
  BY DEF KindOK, WaiterPCs, ManualPCs, Locked, TypeOK
<1>1. TypeOK'
  BY <1>0, SMTT(30) DEF TypeOK, ProgressOK, PCs, Outcomes, Locked
<1>2. KindOK' /\ ProgressOK' /\ LockHeld'
  BY <1>0, SMTT(30) DEF KindOK, ProgressOK, LockHeld, WaiterPCs, ManualPCs,
         Locked, TypeOK
<1>3. HolderOwns' /\ PendingOwner' /\ FileCleared'
  BY <1>0, SMTT(30) DEF HolderOwns, PendingOwner, FileCleared, LockHeld,
         KindOK, StampOK, ManualPCs, Locked, TypeOK
<1>4. StampOK'
  BY <1>0, SMTT(30) DEF StampOK, TypeOK
<1>5. SetterOK' /\ NoStaleOverride'
  BY <1>0, SMTT(30) DEF SetterOK, NoStaleOverride, ProgressOK, LockHeld,
         HolderOwns, StampOK, KindOK, ManualPCs, Locked, TypeOK
<1>6. NewestKeepsFile' /\ SupersededByNewer'
  BY <1>0, SMTT(30) DEF NewestKeepsFile, SupersededByNewer, ProgressOK,
         HolderOwns, StampOK, LockHeld, KindOK, ManualPCs, Waiting, Locked,
         TypeOK
<1> QED BY <1>1, <1>2, <1>3, <1>4, <1>5, <1>6 DEF IInv

LEMMA WriteRequestKeeps == ASSUME NEW p \in Procs, IInv, WriteRequest(p) PROVE IInv'
<1> USE SwitchAudioAssumption DEF IInv, WriteRequest, Goto, procVars, audioVars
<1>0. p \in Waiters /\ p \notin Manuals /\ p # None
  BY DEF KindOK, WaiterPCs, ManualPCs, Locked, TypeOK
<1>1. TypeOK'
  BY <1>0, SMTT(30) DEF TypeOK, ProgressOK, PCs, Outcomes, Locked
<1>2. KindOK' /\ ProgressOK' /\ LockHeld'
  BY <1>0, SMTT(30) DEF KindOK, ProgressOK, LockHeld, WaiterPCs, ManualPCs,
         Locked, TypeOK
<1>3. HolderOwns' /\ PendingOwner' /\ FileCleared'
  BY <1>0, SMTT(30) DEF HolderOwns, PendingOwner, FileCleared, LockHeld,
         KindOK, StampOK, ManualPCs, Locked, TypeOK
<1>4. StampOK'
  BY <1>0, SMTT(30) DEF StampOK, TypeOK
<1>5. SetterOK' /\ NoStaleOverride'
  BY <1>0, SMTT(30) DEF SetterOK, NoStaleOverride, ProgressOK, LockHeld,
         HolderOwns, StampOK, KindOK, ManualPCs, Locked, TypeOK
<1>6. NewestKeepsFile' /\ SupersededByNewer'
  BY <1>0, SMTT(30) DEF NewestKeepsFile, SupersededByNewer, ProgressOK,
         HolderOwns, StampOK, LockHeld, KindOK, ManualPCs, Waiting, Locked,
         TypeOK
<1> QED BY <1>1, <1>2, <1>3, <1>4, <1>5, <1>6 DEF IInv

LEMMA AttemptKeeps == ASSUME NEW p \in Procs, IInv, Attempt(p) PROVE IInv'
<1> USE SwitchAudioAssumption DEF IInv, Attempt, Goto, Exit, Owns, procVars, audioVars
<1>0. p \in Waiters /\ p \notin Manuals /\ p # None
  BY DEF KindOK, WaiterPCs, ManualPCs, Locked, TypeOK
<1>1. TypeOK'
  BY <1>0, SMTT(30) DEF TypeOK, ProgressOK, PCs, Outcomes, Locked
<1>2. KindOK' /\ ProgressOK' /\ LockHeld'
  BY <1>0, SMTT(30) DEF KindOK, ProgressOK, LockHeld, WaiterPCs, ManualPCs,
         Locked, TypeOK
<1>3. HolderOwns' /\ PendingOwner' /\ FileCleared'
  BY <1>0, SMTT(30) DEF HolderOwns, PendingOwner, FileCleared, LockHeld,
         KindOK, StampOK, ManualPCs, Locked, TypeOK
<1>4. StampOK'
  BY <1>0, SMTT(30) DEF StampOK, TypeOK
<1>5. SetterOK' /\ NoStaleOverride'
  BY <1>0, SMTT(30) DEF SetterOK, NoStaleOverride, ProgressOK, LockHeld,
         HolderOwns, StampOK, KindOK, ManualPCs, Locked, TypeOK
<1>6. NewestKeepsFile' /\ SupersededByNewer'
  BY <1>0, SMTT(30) DEF NewestKeepsFile, SupersededByNewer, ProgressOK,
         HolderOwns, StampOK, LockHeld, KindOK, ManualPCs, Waiting, Locked,
         TypeOK
<1> QED BY <1>1, <1>2, <1>3, <1>4, <1>5, <1>6 DEF IInv

LEMMA SetCardProfileKeeps == ASSUME NEW p \in Procs, IInv, SetCardProfile(p) PROVE IInv'
<1> USE SwitchAudioAssumption DEF IInv, SetCardProfile, Goto, procVars, audioVars
<1>1. TypeOK'
  BY SMTT(30) DEF TypeOK, ProgressOK, PCs, Outcomes, Locked
<1>2. KindOK' /\ ProgressOK' /\ LockHeld'
  BY SMTT(30) DEF KindOK, ProgressOK, LockHeld, WaiterPCs, ManualPCs, Locked,
         TypeOK
<1>3. HolderOwns' /\ PendingOwner' /\ FileCleared'
  BY SMTT(30) DEF HolderOwns, PendingOwner, FileCleared, LockHeld, KindOK,
         StampOK, ManualPCs, Locked, TypeOK
<1>4. StampOK'
  BY SMTT(30) DEF StampOK, TypeOK
<1>5. SetterOK' /\ NoStaleOverride'
  BY SMTT(30) DEF SetterOK, NoStaleOverride, ProgressOK, LockHeld, HolderOwns,
         StampOK, KindOK, ManualPCs, Locked, TypeOK
<1>6. NewestKeepsFile' /\ SupersededByNewer'
  BY SMTT(30) DEF NewestKeepsFile, SupersededByNewer, ProgressOK, HolderOwns,
         StampOK, LockHeld, KindOK, ManualPCs, Waiting, Locked, TypeOK
<1> QED BY <1>1, <1>2, <1>3, <1>4, <1>5, <1>6 DEF IInv

LEMMA FindSinkKeeps == ASSUME NEW p \in Procs, IInv, FindSink(p) PROVE IInv'
<1> USE SwitchAudioAssumption DEF IInv, FindSink, Goto, Exit, procVars, audioVars
<1>1. TypeOK'
  BY SMTT(30) DEF TypeOK, ProgressOK, PCs, Outcomes, Locked
<1>2. KindOK' /\ ProgressOK' /\ LockHeld'
  BY SMTT(30) DEF KindOK, ProgressOK, LockHeld, WaiterPCs, ManualPCs, Locked,
         TypeOK
<1>3. HolderOwns' /\ PendingOwner' /\ FileCleared'
  BY SMTT(30) DEF HolderOwns, PendingOwner, FileCleared, LockHeld, KindOK,
         StampOK, ManualPCs, Locked, TypeOK
<1>4. StampOK'
  BY SMTT(30) DEF StampOK, TypeOK
<1>5. SetterOK' /\ NoStaleOverride'
  BY SMTT(30) DEF SetterOK, NoStaleOverride, ProgressOK, LockHeld, HolderOwns,
         StampOK, KindOK, ManualPCs, Locked, TypeOK
<1>6. NewestKeepsFile' /\ SupersededByNewer'
  BY SMTT(30) DEF NewestKeepsFile, SupersededByNewer, ProgressOK, HolderOwns,
         StampOK, LockHeld, KindOK, ManualPCs, Waiting, Locked, TypeOK
<1> QED BY <1>1, <1>2, <1>3, <1>4, <1>5, <1>6 DEF IInv

LEMMA SetDefaultKeeps == ASSUME NEW p \in Procs, IInv, SetDefault(p) PROVE IInv'
<1> USE SwitchAudioAssumption DEF IInv, SetDefault, Goto, Exit, Available, procVars, audioVars
<1>1. TypeOK'
  BY SMTT(30) DEF TypeOK, ProgressOK, PCs, Outcomes, Locked
<1>2. KindOK' /\ ProgressOK' /\ LockHeld'
  BY SMTT(30) DEF KindOK, ProgressOK, LockHeld, WaiterPCs, ManualPCs, Locked,
         TypeOK
<1>3. HolderOwns' /\ PendingOwner' /\ FileCleared'
  BY SMTT(30) DEF HolderOwns, PendingOwner, FileCleared, LockHeld, KindOK,
         StampOK, ManualPCs, Locked, TypeOK
<1>4. StampOK'
  BY SMTT(30) DEF StampOK, TypeOK
<1>5. SetterOK' /\ NoStaleOverride'
  <2>1. CASE p \in Waiters
    <3>1. pc[p] = "set" /\ lock = p /\ stamp[p] = serial
      BY <2>1 DEF KindOK, WaiterPCs, LockHeld, HolderOwns, Locked, TypeOK
    <3>2. \A q \in Waiters : pc[q] = "unlink" => q = p
      BY <3>1 DEF LockHeld, Locked
    <3>3. SetterOK'
      BY <2>1, <3>1, <3>2 DEF SetterOK, TypeOK
    <3>4. NoStaleOverride'
      BY <2>1, <3>1 DEF NoStaleOverride, StampOK, TypeOK
    <3>5. QED BY <3>3, <3>4
  <2>2. CASE p \in Manuals
    BY <2>2, SMTT(30) DEF SetterOK, NoStaleOverride, KindOK, ManualPCs, TypeOK
  <2>3. QED BY <2>1, <2>2
<1>6. NewestKeepsFile' /\ SupersededByNewer'
  BY SMTT(30) DEF NewestKeepsFile, SupersededByNewer, ProgressOK, HolderOwns,
         StampOK, LockHeld, KindOK, ManualPCs, Waiting, Locked, TypeOK
<1> QED BY <1>1, <1>2, <1>3, <1>4, <1>5, <1>6 DEF IInv

LEMMA UnlinkKeeps == ASSUME NEW p \in Procs, IInv, Unlink(p) PROVE IInv'
<1> USE SwitchAudioAssumption DEF IInv, Unlink, Goto, Exit, procVars, audioVars
<1>0. p \in Waiters /\ p \notin Manuals /\ p # None
  BY DEF KindOK, WaiterPCs, ManualPCs, Locked, TypeOK
<1>1. TypeOK'
  BY <1>0, SMTT(30) DEF TypeOK, ProgressOK, PCs, Outcomes, Locked
<1>2. KindOK' /\ ProgressOK' /\ LockHeld'
  BY <1>0, SMTT(30) DEF KindOK, ProgressOK, LockHeld, WaiterPCs, ManualPCs,
         Locked, TypeOK
<1>3. HolderOwns' /\ PendingOwner' /\ FileCleared'
  BY <1>0, SMTT(30) DEF HolderOwns, PendingOwner, FileCleared, LockHeld,
         KindOK, StampOK, ManualPCs, Locked, TypeOK
<1>4. StampOK'
  BY <1>0, SMTT(30) DEF StampOK, TypeOK
<1>5. SetterOK' /\ NoStaleOverride'
  BY <1>0, SMTT(30) DEF SetterOK, NoStaleOverride, ProgressOK, LockHeld,
         HolderOwns, StampOK, KindOK, ManualPCs, Locked, TypeOK
<1>6. NewestKeepsFile' /\ SupersededByNewer'
  BY <1>0, SMTT(30) DEF NewestKeepsFile, SupersededByNewer, ProgressOK,
         HolderOwns, StampOK, LockHeld, KindOK, ManualPCs, Waiting, Locked,
         TypeOK
<1> QED BY <1>1, <1>2, <1>3, <1>4, <1>5, <1>6 DEF IInv

LEMMA RetryKeeps == ASSUME NEW p \in Procs, IInv, Retry(p) PROVE IInv'
<1> USE SwitchAudioAssumption DEF IInv, Retry, Goto, Exit, Remaining, procVars, audioVars
<1>0. p \in Waiters /\ p \notin Manuals /\ p # None
  BY DEF KindOK, WaiterPCs, ManualPCs, Locked, TypeOK
<1>1. TypeOK'
  BY <1>0, SMTT(30) DEF TypeOK, ProgressOK, PCs, Outcomes, Locked
<1>2. KindOK' /\ ProgressOK' /\ LockHeld'
  BY <1>0, SMTT(30) DEF KindOK, ProgressOK, LockHeld, WaiterPCs, ManualPCs,
         Locked, TypeOK
<1>3. HolderOwns' /\ PendingOwner' /\ FileCleared'
  BY <1>0, SMTT(30) DEF HolderOwns, PendingOwner, FileCleared, LockHeld,
         KindOK, StampOK, ManualPCs, Locked, TypeOK
<1>4. StampOK'
  BY <1>0, SMTT(30) DEF StampOK, TypeOK
<1>5. SetterOK' /\ NoStaleOverride'
  BY <1>0, SMTT(30) DEF SetterOK, NoStaleOverride, ProgressOK, LockHeld,
         HolderOwns, StampOK, KindOK, ManualPCs, Locked, TypeOK
<1>6. NewestKeepsFile' /\ SupersededByNewer'
  BY <1>0, SMTT(30) DEF NewestKeepsFile, SupersededByNewer, ProgressOK,
         HolderOwns, StampOK, LockHeld, KindOK, ManualPCs, Waiting, Locked,
         TypeOK
<1> QED BY <1>1, <1>2, <1>3, <1>4, <1>5, <1>6 DEF IInv

LEMMA FinishKeeps == ASSUME NEW p \in Procs, IInv, Finish(p) PROVE IInv'
<1> USE SwitchAudioAssumption DEF IInv, Finish, Goto, FileAfterClear, procVars, audioVars
<1>0. p \in Waiters /\ p \notin Manuals /\ p # None
  BY DEF KindOK, WaiterPCs, ManualPCs, Locked, TypeOK
<1>1. TypeOK'
  BY <1>0, SMTT(30) DEF TypeOK, ProgressOK, PCs, Outcomes, Locked
<1>2. KindOK' /\ ProgressOK' /\ LockHeld'
  BY <1>0, SMTT(30) DEF KindOK, ProgressOK, LockHeld, WaiterPCs, ManualPCs,
         Locked, TypeOK
<1>3. HolderOwns' /\ PendingOwner' /\ FileCleared'
  BY <1>0, SMTT(30) DEF HolderOwns, PendingOwner, FileCleared, LockHeld,
         KindOK, StampOK, ManualPCs, Locked, TypeOK
<1>4. StampOK'
  BY <1>0, SMTT(30) DEF StampOK, TypeOK
<1>5. SetterOK' /\ NoStaleOverride'
  BY <1>0, SMTT(30) DEF SetterOK, NoStaleOverride, ProgressOK, LockHeld,
         HolderOwns, StampOK, KindOK, ManualPCs, Locked, TypeOK
<1>6. NewestKeepsFile' /\ SupersededByNewer'
  BY <1>0, SMTT(30) DEF NewestKeepsFile, SupersededByNewer, ProgressOK,
         HolderOwns, StampOK, LockHeld, KindOK, ManualPCs, Waiting, Locked,
         TypeOK
<1> QED BY <1>1, <1>2, <1>3, <1>4, <1>5, <1>6 DEF IInv

LEMMA CancelKeeps == ASSUME NEW p \in Procs, IInv, Cancel(p) PROVE IInv'
<1> USE SwitchAudioAssumption DEF IInv, Cancel, Goto, Arrive, procVars, audioVars
<1>0. p \in Manuals /\ p \notin Waiters /\ p # None /\ lock # p /\ pending # p
  BY DEF KindOK, WaiterPCs, ManualPCs, Locked, TypeOK
<1>1. TypeOK'
  BY <1>0, SMTT(30) DEF TypeOK, ProgressOK, PCs, Outcomes, Locked
<1>2. KindOK' /\ ProgressOK' /\ LockHeld'
  BY <1>0, SMTT(30) DEF KindOK, ProgressOK, LockHeld, WaiterPCs, ManualPCs,
         Locked, TypeOK
<1>3. HolderOwns' /\ PendingOwner' /\ FileCleared'
  BY <1>0, SMTT(30) DEF HolderOwns, PendingOwner, FileCleared, LockHeld,
         KindOK, StampOK, ManualPCs, Locked, TypeOK
<1>4. StampOK'
  BY <1>0, SMTT(30) DEF StampOK, TypeOK
<1>5. SetterOK' /\ NoStaleOverride'
  BY <1>0, SMTT(30) DEF SetterOK, NoStaleOverride, ProgressOK, LockHeld,
         HolderOwns, StampOK, KindOK, ManualPCs, Locked, TypeOK
<1>6. NewestKeepsFile' /\ SupersededByNewer'
  BY <1>0, SMTT(30) DEF NewestKeepsFile, SupersededByNewer, ProgressOK,
         HolderOwns, StampOK, LockHeld, KindOK, ManualPCs, Waiting, Locked,
         TypeOK
<1> QED BY <1>1, <1>2, <1>3, <1>4, <1>5, <1>6 DEF IInv

LEMMA PickKeeps == ASSUME NEW p \in Procs, IInv, Pick(p) PROVE IInv'
<1> USE SwitchAudioAssumption DEF IInv, Pick, Goto, Available, procVars, audioVars
<1>0. p \in Manuals /\ p \notin Waiters /\ p # None /\ lock # p /\ pending # p
  BY DEF KindOK, WaiterPCs, ManualPCs, Locked, TypeOK
<1>1. TypeOK'
  BY <1>0, SMTT(30) DEF TypeOK, ProgressOK, PCs, Outcomes, Locked
<1>2. KindOK' /\ ProgressOK' /\ LockHeld'
  BY <1>0, SMTT(30) DEF KindOK, ProgressOK, LockHeld, WaiterPCs, ManualPCs,
         Locked, TypeOK
<1>3. HolderOwns' /\ PendingOwner' /\ FileCleared'
  BY <1>0, SMTT(30) DEF HolderOwns, PendingOwner, FileCleared, LockHeld,
         KindOK, StampOK, ManualPCs, Locked, TypeOK
<1>4. StampOK'
  BY <1>0, SMTT(30) DEF StampOK, TypeOK
<1>5. SetterOK' /\ NoStaleOverride'
  BY <1>0, SMTT(30) DEF SetterOK, NoStaleOverride, ProgressOK, LockHeld,
         HolderOwns, StampOK, KindOK, ManualPCs, Locked, TypeOK
<1>6. NewestKeepsFile' /\ SupersededByNewer'
  BY <1>0, SMTT(30) DEF NewestKeepsFile, SupersededByNewer, ProgressOK,
         HolderOwns, StampOK, LockHeld, KindOK, ManualPCs, Waiting, Locked,
         TypeOK
<1> QED BY <1>1, <1>2, <1>3, <1>4, <1>5, <1>6 DEF IInv

LEMMA ChooseKeeps == ASSUME NEW p \in Procs, IInv, Choose(p) PROVE IInv'
<1> USE SwitchAudioAssumption DEF IInv, Choose, Goto, Exit, procVars, audioVars
<1>0. p \in Manuals /\ p \notin Waiters /\ p # None /\ lock # p /\ pending # p
  BY DEF KindOK, WaiterPCs, ManualPCs, Locked, TypeOK
<1>1. TypeOK'
  BY <1>0, SMTT(30) DEF TypeOK, ProgressOK, PCs, Outcomes, Locked
<1>2. KindOK' /\ ProgressOK' /\ LockHeld'
  BY <1>0, SMTT(30) DEF KindOK, ProgressOK, LockHeld, WaiterPCs, ManualPCs,
         Locked, TypeOK
<1>3. HolderOwns' /\ PendingOwner' /\ FileCleared'
  BY <1>0, SMTT(30) DEF HolderOwns, PendingOwner, FileCleared, LockHeld,
         KindOK, StampOK, ManualPCs, Locked, TypeOK
<1>4. StampOK'
  BY <1>0, SMTT(30) DEF StampOK, TypeOK
<1>5. SetterOK' /\ NoStaleOverride'
  BY <1>0, SMTT(30) DEF SetterOK, NoStaleOverride, ProgressOK, LockHeld,
         HolderOwns, StampOK, KindOK, ManualPCs, Locked, TypeOK
<1>6. NewestKeepsFile' /\ SupersededByNewer'
  BY <1>0, SMTT(30) DEF NewestKeepsFile, SupersededByNewer, ProgressOK,
         HolderOwns, StampOK, LockHeld, KindOK, ManualPCs, Waiting, Locked,
         TypeOK
<1> QED BY <1>1, <1>2, <1>3, <1>4, <1>5, <1>6 DEF IInv

LEMMA VerifyKeeps == ASSUME NEW p \in Procs, IInv, Verify(p) PROVE IInv'
<1> USE SwitchAudioAssumption DEF IInv, Verify, Goto, Exit, procVars, audioVars
<1>0. p \in Manuals /\ p \notin Waiters /\ p # None /\ lock # p /\ pending # p
  BY DEF KindOK, WaiterPCs, ManualPCs, Locked, TypeOK
<1>1. TypeOK'
  BY <1>0, SMTT(30) DEF TypeOK, ProgressOK, PCs, Outcomes, Locked
<1>2. KindOK' /\ ProgressOK' /\ LockHeld'
  BY <1>0, SMTT(30) DEF KindOK, ProgressOK, LockHeld, WaiterPCs, ManualPCs,
         Locked, TypeOK
<1>3. HolderOwns' /\ PendingOwner' /\ FileCleared'
  BY <1>0, SMTT(30) DEF HolderOwns, PendingOwner, FileCleared, LockHeld,
         KindOK, StampOK, ManualPCs, Locked, TypeOK
<1>4. StampOK'
  BY <1>0, SMTT(30) DEF StampOK, TypeOK
<1>5. SetterOK' /\ NoStaleOverride'
  BY <1>0, SMTT(30) DEF SetterOK, NoStaleOverride, ProgressOK, LockHeld,
         HolderOwns, StampOK, KindOK, ManualPCs, Locked, TypeOK
<1>6. NewestKeepsFile' /\ SupersededByNewer'
  BY <1>0, SMTT(30) DEF NewestKeepsFile, SupersededByNewer, ProgressOK,
         HolderOwns, StampOK, LockHeld, KindOK, ManualPCs, Waiting, Locked,
         TypeOK
<1> QED BY <1>1, <1>2, <1>3, <1>4, <1>5, <1>6 DEF IInv

LEMMA CommandFailsKeeps == ASSUME NEW p \in Procs, IInv, CommandFails(p) PROVE IInv'
<1> USE SwitchAudioAssumption DEF IInv, CommandFails, Goto, Exit, procVars, audioVars
<1>1. TypeOK'
  BY SMTT(30) DEF TypeOK, ProgressOK, PCs, Outcomes, Locked
<1>2. KindOK' /\ ProgressOK' /\ LockHeld'
  BY SMTT(30) DEF KindOK, ProgressOK, LockHeld, WaiterPCs, ManualPCs, Locked,
         TypeOK
<1>3. HolderOwns' /\ PendingOwner' /\ FileCleared'
  BY SMTT(30) DEF HolderOwns, PendingOwner, FileCleared, LockHeld, KindOK,
         StampOK, ManualPCs, Locked, TypeOK
<1>4. StampOK'
  BY SMTT(30) DEF StampOK, TypeOK
<1>5. SetterOK' /\ NoStaleOverride'
  BY SMTT(30) DEF SetterOK, NoStaleOverride, ProgressOK, LockHeld, HolderOwns,
         StampOK, KindOK, ManualPCs, Locked, TypeOK
<1>6. NewestKeepsFile' /\ SupersededByNewer'
  BY SMTT(30) DEF NewestKeepsFile, SupersededByNewer, ProgressOK, HolderOwns,
         StampOK, LockHeld, KindOK, ManualPCs, Waiting, Locked, TypeOK
<1> QED BY <1>1, <1>2, <1>3, <1>4, <1>5, <1>6 DEF IInv

LEMMA KillKeeps == ASSUME NEW p \in Procs, IInv, Kill(p) PROVE IInv'
<1> USE SwitchAudioAssumption DEF IInv, Kill, Goto, Exit, procVars, audioVars
<1>1. TypeOK'
  BY SMTT(30) DEF TypeOK, ProgressOK, PCs, Outcomes, Locked
<1>2. KindOK' /\ ProgressOK' /\ LockHeld'
  BY SMTT(30) DEF KindOK, ProgressOK, LockHeld, WaiterPCs, ManualPCs, Locked,
         TypeOK
<1>3. HolderOwns' /\ PendingOwner' /\ FileCleared'
  BY SMTT(30) DEF HolderOwns, PendingOwner, FileCleared, LockHeld, KindOK,
         StampOK, ManualPCs, Locked, TypeOK
<1>4. StampOK'
  BY SMTT(30) DEF StampOK, TypeOK
<1>5. SetterOK' /\ NoStaleOverride'
  BY SMTT(30) DEF SetterOK, NoStaleOverride, ProgressOK, LockHeld, HolderOwns,
         StampOK, KindOK, ManualPCs, Locked, TypeOK
<1>6. NewestKeepsFile' /\ SupersededByNewer'
  BY SMTT(30) DEF NewestKeepsFile, SupersededByNewer, ProgressOK, HolderOwns,
         StampOK, LockHeld, KindOK, ManualPCs, Waiting, Locked, TypeOK
<1> QED BY <1>1, <1>2, <1>3, <1>4, <1>5, <1>6 DEF IInv

LEMMA HotplugKeeps == ASSUME NEW s \in Removable, IInv, Hotplug(s) PROVE IInv'
BY SwitchAudioAssumption, SMTT(30)
   DEF IInv, Hotplug, TypeOK, KindOK, ProgressOK, LockHeld, HolderOwns, StampOK,
       SetterOK, PendingOwner, NewestKeepsFile, SupersededByNewer,
       NoStaleOverride, FileCleared, procVars, audioVars

LEMMA StutterKeeps == IInv /\ UNCHANGED vars => IInv'
BY DEF IInv, vars, TypeOK, KindOK, ProgressOK, LockHeld, HolderOwns, StampOK,
       SetterOK, PendingOwner, NewestKeepsFile, SupersededByNewer,
       NoStaleOverride, FileCleared

LEMMA NextKeeps == IInv /\ [Next]_vars => IInv'
<1> SUFFICES ASSUME IInv, [Next]_vars PROVE IInv'
  OBVIOUS
<1>1. ASSUME NEW p \in Procs, Step(p) PROVE IInv'
  BY <1>1, QueueKeeps, WriteRequestKeeps, AttemptKeeps, SetCardProfileKeeps,
     FindSinkKeeps, SetDefaultKeeps, UnlinkKeeps, RetryKeeps, FinishKeeps,
     CancelKeeps, PickKeeps, VerifyKeeps, CommandFailsKeeps DEF Step
<1>2. ASSUME NEW p \in Procs, Start(p) \/ Choose(p) \/ Kill(p) PROVE IInv'
  BY <1>2, StartKeeps, ChooseKeeps, KillKeeps
<1>3. ASSUME NEW s \in Removable, Hotplug(s) PROVE IInv'
  BY <1>3, HotplugKeeps
<1>4. CASE UNCHANGED vars
  BY <1>4, StutterKeeps
<1>5. QED
  BY <1>1, <1>2, <1>3, <1>4 DEF Next

\* The inductive invariant holds in every reachable state.
THEOREM Inductive == Spec => []IInv
<1>1. QED BY InitIInv, NextKeeps, PTL DEF Spec

-----------------------------------------------------------------------------
\* Every variable keeps its type, the lock and the file name waiters only.
THEOREM TypeCorrect == Spec => []TypeOK
<1>1. IInv => TypeOK BY DEF IInv
<1>2. QED BY Inductive, <1>1, PTL

\* main.py:57-71: the newest request owns the pending file while it waits.
THEOREM FileKept == Spec => []NewestKeepsFile
<1>1. IInv => NewestKeepsFile BY DEF IInv
<1>2. QED BY Inductive, <1>1, PTL

\* main.py:84-86: a waiter returns False only because of a later arrival.
THEOREM Superseded == Spec => []SupersededByNewer
<1>1. IInv => SupersededByNewer BY DEF IInv
<1>2. QED BY Inductive, <1>1, PTL

\* main.py:84-99: among waiters an older request never undoes a newer one.
THEOREM NoOverride == Spec => []NoStaleOverride
<1>1. IInv => NoStaleOverride BY DEF IInv
<1>2. QED BY Inductive, <1>1, PTL

\* main.py:217-219: only a kill leaves a finished request in the file.
THEOREM Cleared == Spec => []FileCleared
<1>1. IInv => FileCleared BY DEF IInv
<1>2. QED BY Inductive, <1>1, PTL

\* A waiter that something newer replaced does not switch the card profile.
THEOREM CardSafe == Spec => CardOnlyByNewest
<1>1. ASSUME IInv, Next, card' # card
      PROVE  \E p \in Procs : pc[p] = "card" /\ (p \in Waiters => stamp[p] = serial)
  <2>1. PICK p \in Procs : SetCardProfile(p)
    BY <1>1, SMTT(30)
       DEF Next, Step, Start, Queue, WriteRequest, Attempt, FindSink, SetDefault,
           Unlink, Retry, Finish, Cancel, Pick, Choose, Verify, CommandFails,
           Kill, Hotplug, audioVars
  <2>2. p \in Waiters => stamp[p] = serial
    BY <1>1, <2>1, SwitchAudioAssumption
       DEF IInv, SetCardProfile, HolderOwns, Locked
  <2>3. QED BY <2>1, <2>2 DEF SetCardProfile
<1>2. IInv /\ [Next]_vars =>
        [card' # card =>
           \E p \in Procs : pc[p] = "card" /\ (p \in Waiters => stamp[p] = serial)]_vars
  BY <1>1 DEF vars
<1>3. QED BY Inductive, <1>2, PTL DEF Spec, CardOnlyByNewest

\* The lock, the file and the retries implement LatestRequest: every step is
\* an arrival, a grant to the newest request or to a user, or invisible.
THEOREM Implements == Spec => Arbitrates
<1>1. Init => Arbiter!Init
  BY DEF Init, Arbiter!Init
<1>2. ASSUME IInv, [Next]_vars PROVE [Arbiter!Next]_(Arbiter!vars)
  <2>1. ASSUME NEW p \in Procs, Queue(p) \/ Cancel(p) PROVE Arbiter!Next
    BY <1>2, <2>1
       DEF IInv, StampOK, Queue, Cancel, Arrive, audioVars, Arbiter!Next, Arbiter!Arrive
  <2>2. ASSUME NEW p \in Procs, SetDefault(p) PROVE Arbiter!Next
    <3>1. stamp[p] > 0
      BY <1>2, <2>2 DEF IInv, StampOK, SetDefault
    <3>2. p \in Waiters => stamp[p] = serial
      BY <1>2, <2>2, SwitchAudioAssumption
         DEF IInv, KindOK, WaiterPCs, HolderOwns, Locked, SetDefault
    <3>3. QED
      BY <2>2, <3>1, <3>2 DEF SetDefault, Arbiter!Next, Arbiter!Grant
  <2>3. ASSUME NEW p \in Procs,
               \/ Start(p) \/ WriteRequest(p) \/ Attempt(p) \/ SetCardProfile(p)
               \/ FindSink(p) \/ Unlink(p) \/ Retry(p) \/ Finish(p) \/ Pick(p)
               \/ Choose(p) \/ Verify(p) \/ CommandFails(p) \/ Kill(p)
        PROVE  UNCHANGED Arbiter!vars
    BY <2>3, SMTT(30)
       DEF Start, WriteRequest, Attempt, SetCardProfile, FindSink, Unlink, Retry,
           Finish, Pick, Choose, Verify, CommandFails, Kill, audioVars, Arbiter!vars
  <2>4. ASSUME NEW s \in Removable, Hotplug(s) PROVE UNCHANGED Arbiter!vars
    BY <2>4 DEF Hotplug, audioVars, Arbiter!vars
  <2>5. CASE UNCHANGED vars
    BY <2>5 DEF vars, Arbiter!vars
  <2>6. QED
    BY <1>2, <2>1, <2>2, <2>3, <2>4, <2>5 DEF Next, Step
<1>3. QED BY <1>1, <1>2, Inductive, PTL DEF Spec, Arbitrates, Arbiter!Spec

\* The safety half of WaitersFinish.  Whoever waits for the lock waits for an
\* invocation that is running and about to give it back...
THEOREM LockIsHeld == Spec => []LockHeld
BY Inductive, PTL DEF IInv

\* ...and a waiter has only so many steps to take, ten for each sleep before its
\* deadline and those of the last round, whatever others do in between.
Place == [new |-> 9, queue |-> 8, write |-> 7, attempt |-> 6, card |-> 5, list |-> 4,
          set |-> 3, unlink |-> 2, retry |-> 2, finish |-> 1, done |-> 0]
Rank(p) == 10 * left[p] + Place[pc[p]]
OnlyOnwards ==
    [][\A p \in Waiters :
          /\ Rank(p)' <= Rank(p)
          /\ pc'[p] # pc[p] => Rank(p)' < Rank(p)]_vars

LEMMA RankIs ==
    ASSUME IInv, NEW p \in Waiters
    PROVE  /\ Place[pc[p]] \in 0..9 /\ left[p] \in 0..Retries
           /\ Rank(p) \in 0..10 * Retries + 9
<1>1. left[p] \in 0..Retries /\ pc[p] \in WaiterPCs
  BY DEF IInv, TypeOK, KindOK
<1>2. Place[pc[p]] \in 0..9
  BY <1>1 DEF WaiterPCs, Locked, Place
<1>3. QED
  BY <1>1, <1>2, SwitchAudioAssumption DEF Rank

LEMMA StepRank == ASSUME IInv, NEW p \in Waiters, Start(p) \/ Step(p) \/ Kill(p) PROVE Rank(p)' < Rank(p)
<1>1. left[p] \in 0..Retries /\ pc[p] \in WaiterPCs /\ p \notin Manuals /\ p \in DOMAIN pc /\ p \in DOMAIN left
  BY SwitchAudioAssumption DEF IInv, TypeOK, KindOK
<1> USE DEF Rank, Place, Goto, procVars
<1>2. CASE Retry(p)
  BY <1>1, <1>2 DEF Retry, Remaining
<1>3. CASE Start(p) \/ Queue(p) \/ WriteRequest(p) \/ Attempt(p)
  BY <1>1, <1>3 DEF Start, Queue, WriteRequest, Attempt
<1>4. CASE SetCardProfile(p) \/ FindSink(p) \/ SetDefault(p) \/ Unlink(p) \/ Finish(p)
  BY <1>1, <1>4 DEF SetCardProfile, FindSink, SetDefault, Unlink, Finish, WaiterPCs, Locked
<1>5. CASE Cancel(p) \/ Pick(p) \/ Verify(p)
  BY <1>1, <1>5 DEF Cancel, Pick, Verify, WaiterPCs, Locked
<1>6. CASE CommandFails(p) \/ Kill(p)
  BY <1>1, <1>6 DEF CommandFails, Kill, WaiterPCs, Locked
<1>7. QED
  BY <1>2, <1>3, <1>4, <1>5, <1>6 DEF Step

THEOREM OnwardsOnly == Spec => OnlyOnwards
<1>1. ASSUME IInv, Next, NEW p \in Waiters
      PROVE  Rank(p)' <= Rank(p) /\ (pc'[p] # pc[p] => Rank(p)' < Rank(p))
  <2>1. CASE Start(p) \/ Step(p) \/ Kill(p)
    <3>1. Rank(p)' < Rank(p) /\ Rank(p) \in Nat
      BY <1>1, <2>1, StepRank, RankIs, SwitchAudioAssumption
    <3>2. IInv'
      BY <1>1, NextKeeps
    <3>3. Rank(p)' \in Int
      BY <3>2 DEF IInv, TypeOK, KindOK, Rank, Place, WaiterPCs, Locked
    <3>4. QED
      BY <3>1, <3>3
  <2>2. CASE UNCHANGED <<pc[p], left[p]>>
    BY <1>1, <2>2, RankIs, SwitchAudioAssumption DEF Rank
  <2>3. ASSUME NEW q \in Procs, q # p, Start(q) \/ Step(q) \/ Choose(q) \/ Kill(q)
        PROVE  UNCHANGED <<pc[p], left[p]>>
    BY <1>1, <2>3
       DEF IInv, TypeOK, Goto, procVars, Step, Start, Queue, WriteRequest, Attempt, SetCardProfile,
           FindSink, SetDefault, Unlink, Retry, Finish, Cancel, Pick, Choose, Verify, CommandFails, Kill
  <2>4. ASSUME NEW s \in Removable, Hotplug(s) PROVE UNCHANGED <<pc[p], left[p]>>
    BY <2>4 DEF Hotplug, procVars
  <2>5. ~Choose(p)
    BY <1>1 DEF Choose, IInv, KindOK, WaiterPCs, Locked
  <2>6. QED
    BY <1>1, <2>1, <2>2, <2>3, <2>4, <2>5 DEF Next
<1>2. ASSUME IInv, [Next]_vars
      PROVE  [\A p \in Waiters :
                 /\ Rank(p)' <= Rank(p)
                 /\ pc'[p] # pc[p] => Rank(p)' < Rank(p)]_vars
  BY <1>1, <1>2
<1>3. QED
  BY <1>2, Inductive, PTL DEF Spec, OnlyOnwards
=============================================================================
