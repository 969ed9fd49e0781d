------------------------------- MODULE Control -------------------------------
(***************************************************************************)
(* The control core: everything that touches the shared state does so in a *)
(* critical section, so the threads interleave as whole sections here.     *)
(* FireDroneCar.tla adds the threads' own steps outside the mutex.         *)
(***************************************************************************)
EXTENDS StateMachine, Commands

controlVars == <<sharedVars, avoidVars, neckVars, detectVars, sprayVars>>

ControlInit ==
    SharedInit /\ AvoidInit /\ NeckInit /\ DetectInit /\ ExtinguishInit

planVars == <<avoidVars, neckVars, detectVars>>

Sense == (PublishThermal \/ PublishDistance) /\ UNCHANGED <<planVars, sprayVars>>
Operate == Command /\ UNCHANGED <<planVars, sprayVars>>
ClockTick == SecondPasses /\ UNCHANGED <<sharedVars, planVars>>

ControlNext == Update \/ Sense \/ Operate \/ ClockTick

ControlSpec == ControlInit /\ [][ControlNext]_controlVars

\* The algorithm thread ticks for ever and the wall clock does not stand still.
FairControl ==
    ControlSpec /\ WF_controlVars(Update) /\ WF_controlVars(ClockTick)

ControlTypeOK ==
    SharedTypeOK /\ AvoidTypeOK /\ NeckTypeOK /\ DetectTypeOK /\ SprayTypeOK
-----------------------------------------------------------------------------
(***************************************************************************)
(* The mode never claims an emergency stop that is no longer in force, in  *)
(* whatever order ESTOP, CLEAR_ESTOP and the ticks fall.                   *)
(***************************************************************************)
SafeStopLatched == mode = "SAFE_STOP" => emergencyStop

(***************************************************************************)
(* A halted mode holds the drive still: no command sent or tick taken in   *)
(* any order leaves a velocity behind for the motor thread to apply.       *)
(***************************************************************************)
HaltedStandStill == mode \in {"IDLE", "SAFE_STOP"} => linVel = 0 /\ angVel = 0

(***************************************************************************)
(* The relay and the loop's own idea of it agree after any interruption by *)
(* STOP, ESTOP or CLEAR_ESTOP, so that a resumed loop switches the right   *)
(* way; and no sequence of interruptions sprays more than the configured   *)
(* number of times before giving up.  (A pump this run has not switched is *)
(* as it was found, and a loop that never sprayed leaves it so.)           *)
(***************************************************************************)
SprayAccounted ==
    /\ pump = "ON" <=> spraying
    /\ spraying => currentTry \in 1..ExtinguishTry
    /\ ~spraying => currentTry < ExtinguishTry

(***************************************************************************)
(* While the EXTINGUISH mode sprays, the car is told to stand still,       *)
(* although the mode may be entered from APPROACH with the approach        *)
(* velocity still set.                                                     *)
(***************************************************************************)
SprayAtStandstill ==
    mode = "EXTINGUISH" /\ pump = "ON" => linVel = 0 /\ angVel = 0

(***************************************************************************)
(* A car that has turned to a fire carries no half-finished manoeuvre: the *)
(* avoidance machine is at rest in the three fire modes.  (IDLE and        *)
(* SAFE_STOP may keep one, to be resumed by the next search.)              *)
(***************************************************************************)
AvoidanceAtRest ==
    mode \in {"DETECT", "APPROACH", "EXTINGUISH"} => avoidState = "NONE"

(***************************************************************************)
(* What makes the above inductive: APPROACH is only entered by a loop that *)
(* gave up and so never sprays, and the reverse arc is only entered from   *)
(* standstill and commands nothing but reverse.                            *)
(***************************************************************************)
ApproachDry == mode = "APPROACH" => ~spraying
ReverseArcBacksOff == avoidState = "REVERSE_ARC" => linVel <= 0

ControlInv ==
    /\ ControlTypeOK
    /\ SafeStopLatched /\ HaltedStandStill
    /\ SprayAccounted /\ SprayAtStandstill /\ ApproachDry
    /\ AvoidanceAtRest /\ ReverseArcBacksOff

(***************************************************************************)
(* Across every mode change and operator command, the commanded speed      *)
(* never goes from forward straight to reverse.                            *)
(***************************************************************************)
BrakeBeforeReverse == [][linVel > 0 => linVel' >= 0]_controlVars

(***************************************************************************)
(* The control core keeps the promises of Supervisor.                      *)
(***************************************************************************)
Promise == INSTANCE Supervisor WITH
    activity <- IF mode = "IDLE" THEN "idle"
                ELSE IF mode = "SAFE_STOP" THEN "safe" ELSE "active",
    request <- cmdMode,
    estop <- emergencyStop,
    moving <- velocity # <<0, 0>>

ImplementsSupervisor == Promise!Spec

(***************************************************************************)
(* An emergency stop is noticed unless it is cleared first.                *)
(***************************************************************************)
EstopNoticed == emergencyStop ~> (mode = "SAFE_STOP" \/ ~emergencyStop)

(***************************************************************************)
(* A spray does not run on: in EXTINGUISH the pump goes off again, one     *)
(* that was found on included, or an operator command takes the car out of *)
(* the mode.                                                               *)
(***************************************************************************)
SprayEnds == pump # "OFF" ~> (pump = "OFF" \/ mode # "EXTINGUISH")

(***************************************************************************)
(* When the fire is gone for good, the car leaves every fire mode for good *)
(* however many retries were left.                                         *)
(***************************************************************************)
FireGoneResumesSearch ==
    <>[]FireLost => <>[](mode \in {"IDLE", "SEARCH", "SAFE_STOP"})
-----------------------------------------------------------------------------
(***************************************************************************)
(* What the repository says of the control core and its code does not do.  *)
(* The emergency stop turns the pump off ("... and pump OFF", README.md:72 *)
(* of the repository).                                                     *)
(***************************************************************************)
EstopStopsPump == mode = "SAFE_STOP" => pump # "ON"
=============================================================================
