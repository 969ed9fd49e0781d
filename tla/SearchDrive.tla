----------------------------- MODULE SearchDrive -----------------------------
(***************************************************************************)
(* The car searching: the algorithm thread runs compute_search_motion on   *)
(* every tick while the ultrasonic sensor publishes distances in between,  *)
(* any number of ticks apart.  No fire is in sight, so the mode stays      *)
(* SEARCH; StateMachine.tla adds the transitions.                          *)
(***************************************************************************)
EXTENDS Navigation

driveVars == <<sharedVars, avoidVars, neckVars>>

DriveInit ==
    /\ mode = "SEARCH" /\ cmdMode = "NONE" /\ emergencyStop = FALSE
    /\ linVel = 0 /\ angVel = 0
    /\ tFire = 0 /\ hotCol = NoHotSpot
    /\ distance = InitialDistance
    /\ AvoidInit
    /\ NeckInit

SearchTick ==
    /\ ComputeSearchMotion
    /\ UNCHANGED <<mode, cmdMode, emergencyStop, readings>>

Ranging == PublishDistance /\ UNCHANGED <<avoidVars, neckVars>>

DriveNext == SearchTick \/ Ranging

\* The thread loops every 50 ms for as long as the program runs.
DriveSpec == DriveInit /\ [][DriveNext]_driveVars /\ WF_driveVars(SearchTick)

-----------------------------------------------------------------------------
(***************************************************************************)
(* Ackermann yaw goes with the product of speed and steering.  The reverse *)
(* arc and the forward arc of one manoeuvre turn the car the same way,     *)
(* whatever the sensor reports between their ticks.                        *)
(***************************************************************************)
YawKept == [][(linVel * angVel # 0 /\ linVel' * angVel' # 0)
                => linVel * angVel * linVel' * angVel' > 0]_driveVars

(***************************************************************************)
(* The crash guard looks only when no manoeuvre is active, so that an      *)
(* obstacle that appears during a forward arc is driven at; but not for    *)
(* long: unless it goes away, the car backs off from it.                   *)
(***************************************************************************)
CrashAnswered == Closer(CrashDist) ~> (linVel < 0 \/ ~Closer(CrashDist))

(***************************************************************************)
(* Once nothing is within crash distance any more, every manoeuvre ends:   *)
(* neither the reverse extension nor the forward cut can be re-armed for   *)
(* ever.                                                                   *)
(***************************************************************************)
ManoeuvreEnds == <>[]~Closer(CrashDist) => []<>(avoidState = "NONE")

(***************************************************************************)
(* When the way stays clear the car drives straight ahead for good.        *)
(***************************************************************************)
ClearPathResumes == <>[]~Closer(ExitDist) => <>[](linVel = SearchVel /\ angVel = 0)

(***************************************************************************)
(* A car blocked for good by an obstacle inside the entry distance keeps   *)
(* retrying, and tries both sides again and again.                         *)
(***************************************************************************)
TriesBothSides ==
    <>[](Closer(EnterDist) /\ ~Closer(CrashDist))
        => \A side \in {-1, 1} :
               []<>(avoidState = "REVERSE_ARC" /\ turnSign = side)
-----------------------------------------------------------------------------
(***************************************************************************)
(* What navigation.c says of itself and the code does not keep.            *)
(***************************************************************************)

(***************************************************************************)
(* "If we still haven't cleared, force another avoidance": a manoeuvre     *)
(* that ends without clearance is followed by another, unless the distance *)
(* opens up meanwhile.                                                     *)
(***************************************************************************)
ClearanceRetried ==
    (avoidState = "NONE" /\ needClearance)
        ~> (avoidState # "NONE" \/ ~needClearance)
=============================================================================
