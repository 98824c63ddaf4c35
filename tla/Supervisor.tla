----------------------------- MODULE Supervisor -----------------------------
(***************************************************************************)
(* What lg-herdr-watch promises of the processes it starts, without its    *)
(* channels, signals and timeouts: one runs at a time, it starts where the *)
(* focus was when the watcher looked, and one start is owed for each move  *)
(* of the focus, so that a process that ended or did not start is not      *)
(* tried again in the same place.                                          *)
(***************************************************************************)
CONSTANTS Slots, Places

VARIABLES
    running,   \* slots of running processes
    place,     \* where the process of each slot was started
    focused,   \* the place in focus
    asked,     \* the place the watcher saw last
    owed,      \* whether a start there is still owed
    over,      \* whether the watcher has ended
    lost       \* a process could not be stopped: nothing is promised any more

vars == <<running, place, focused, asked, owed, over, lost>>

Init ==
    /\ running = {} /\ place \in [Slots -> Places]
    /\ focused \in Places /\ asked = focused
    /\ owed = TRUE /\ over = FALSE /\ lost = FALSE

Move == focused' \in Places /\ UNCHANGED <<running, place, asked, owed, over, lost>>

\* The focus is found at another place.
Ask ==
    /\ ~owed /\ ~over
    /\ asked # focused /\ asked' = focused
    /\ owed' = TRUE
    /\ UNCHANGED <<running, place, focused, over, lost>>

\* The process starts, or does not and is given up.
Begin ==
    /\ owed /\ running = {}
    /\ \/ \E c \in Slots : running' = {c} /\ place' = [place EXCEPT ![c] = asked]
       \/ UNCHANGED <<running, place>>
    /\ owed' = FALSE
    /\ UNCHANGED <<focused, asked, over, lost>>

\* A process ends of itself or is stopped.
End ==
    /\ \E c \in running : running' = running \ {c}
    /\ UNCHANGED <<place, focused, asked, owed, over, lost>>

Leave ==
    /\ running = {} /\ ~owed
    /\ over' = TRUE
    /\ UNCHANGED <<running, place, focused, asked, owed, lost>>

Next == Move \/ Ask \/ Begin \/ End \/ Leave \/ lost' = TRUE

Spec == Init /\ [][Next]_vars
=============================================================================
