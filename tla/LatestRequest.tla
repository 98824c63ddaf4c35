---------------------------- MODULE LatestRequest ----------------------------
(***************************************************************************)
(* What the pending-switch file of switchaudio promises, without the file, *)
(* the lock, the retries or the devices: a request is granted only while   *)
(* nothing has arrived after it; an override (a switch the user makes by   *)
(* hand) is granted whenever it gets there.                                *)
(***************************************************************************)
EXTENDS Naturals

CONSTANTS Requests, Overrides, None

VARIABLES
    stamp,   \* arrival number, 0 for what has not arrived
    serial,  \* arrivals so far
    setter   \* what was granted last

vars == <<stamp, serial, setter>>

Init ==
    /\ stamp = [p \in Requests \cup Overrides |-> 0]
    /\ serial = 0
    /\ setter = None

Arrive(p) ==
    /\ stamp[p] = 0
    /\ serial' = serial + 1
    /\ stamp' = [stamp EXCEPT ![p] = serial']
    /\ UNCHANGED setter

Grant(p) ==
    /\ p \in Requests => stamp[p] = serial
    /\ stamp[p] > 0
    /\ setter' = p
    /\ UNCHANGED <<stamp, serial>>

Next == \E p \in Requests \cup Overrides : Arrive(p) \/ Grant(p)

Spec == Init /\ [][Next]_vars
=============================================================================
