----------------------------- MODULE Supervisor -----------------------------
(***************************************************************************)
(* What the car promises its operator, without sensors, modes or motions:  *)
(* it moves only between a START it accepted and the STOP or emergency     *)
(* stop it noticed, an emergency stop outlives every other command, and    *)
(* clearing it forgets whatever was requested before.                      *)
(***************************************************************************)
VARIABLES
    activity,   \* "idle", "active" or "safe"
    request,    \* the one command waiting to be noticed
    estop,
    moving      \* whether the drive is commanded at all

vars == <<activity, request, estop, moving>>

Requests == {"NONE", "START", "STOP", "MANUAL"}

Init == activity = "idle" /\ request = "NONE" /\ ~estop /\ ~moving

Ask == \E r \in Requests : request' = r /\ UNCHANGED <<activity, estop, moving>>

Trip == estop' = TRUE /\ UNCHANGED <<activity, request, moving>>

Clear ==
    /\ estop' = FALSE /\ activity' = "idle"
    /\ request' = "NONE" /\ moving' = FALSE

Latch ==
    /\ estop
    /\ activity' = "safe" /\ moving' = FALSE
    /\ UNCHANGED <<estop, request>>

Halt ==
    /\ ~estop /\ request = "STOP"
    /\ activity' = "idle" /\ request' = "NONE" /\ moving' = FALSE
    /\ UNCHANGED estop

Depart ==
    /\ ~estop /\ activity = "idle" /\ request = "START"
    /\ activity' = "active" /\ request' = "NONE"
    /\ UNCHANGED <<estop, moving>>

Drive ==
    /\ ~estop /\ activity = "active" /\ request # "STOP"
    /\ moving' \in BOOLEAN
    /\ UNCHANGED <<activity, request, estop>>

Next == Ask \/ Trip \/ Clear \/ Latch \/ Halt \/ Depart \/ Drive

Spec == Init /\ [][Next]_vars
=============================================================================
