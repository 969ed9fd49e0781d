----------------------------- MODULE Navigation -----------------------------
(***************************************************************************)
(* Motion planning (navigation.c): the obstacle-avoidance machine run on   *)
(* every SEARCH tick, and the DETECT and APPROACH motions.  The caller     *)
(* holds the mutex, so each operation is one atomic step.                  *)
(***************************************************************************)
EXTENDS SharedState, Neck

CONSTANTS    \* lengths in algorithm ticks; on the car 2, 18, 22, 12, 15 and 6
    BrakeTicks, RevTicks, FwdTurnTicks, RecoverTicks, CooldownTicks, HoldTicks

ASSUME TicksAssumption ==
    /\ BrakeTicks \in Nat \ {0}
    /\ RevTicks \in Nat \ {0}
    /\ FwdTurnTicks \in Nat \ {0}
    /\ RecoverTicks \in Nat \ {0}
    /\ CooldownTicks \in Nat \ {0}
    /\ HoldTicks \in Nat \ {0}

VARIABLES
    avoidState, avoidTicks, cooldownTicks, turnSign, turnToggle, needClearance

EnterDist == 30           \* OBS_ENTER_DIST, OBS_EXIT_DIST and OBS_CRASH_DIST
ExitDist == 50
CrashDist == 12
ApproachMinDist == 10
SearchVel == 2000
TurnSteer == 10
ApproachVel == 1500
AvoidStates == {"NONE", "BRAKE", "REVERSE_ARC", "FORWARD_ARC", "RECOVER"}

avoidVars == <<avoidState, avoidTicks, cooldownTicks, turnSign, turnToggle,
               needClearance>>

AvoidInit ==
    /\ avoidState = "NONE" /\ avoidTicks = 0 /\ cooldownTicks = 0
    /\ turnSign = 1 /\ turnToggle = 1
    /\ needClearance = FALSE

DistanceValid == 1 < distance /\ distance < 900
Closer(limit) == DistanceValid /\ distance < limit

(* The cooldown and the clearance requirement as this tick leaves them.    *)
Cooled == IF cooldownTicks > 0 THEN cooldownTicks - 1 ELSE 0
Clearance == needClearance /\ ~(DistanceValid /\ distance >= ExitDist)

TicksLeft == IF avoidTicks > 0 THEN avoidTicks - 1 ELSE 0

Phase(left, next, length) ==
    IF left = 0 THEN avoidState' = next /\ avoidTicks' = length
                ELSE avoidState' = avoidState /\ avoidTicks' = left

ResetAvoid ==
    /\ avoidState' = "NONE" /\ avoidTicks' = 0 /\ cooldownTicks' = 0
    /\ needClearance' = FALSE
    /\ UNCHANGED <<turnSign, turnToggle>>
-----------------------------------------------------------------------------
(***************************************************************************)
(* One SEARCH tick.  A new manoeuvre takes the side the toggle holds and   *)
(* flips the toggle.                                                       *)
(***************************************************************************)
TakeTurnSameSide ==
    turnSign' = turnToggle /\ needClearance' = TRUE /\ UNCHANGED turnToggle

TakeTurn ==
    /\ turnSign' = turnToggle
    /\ turnToggle' = -turnToggle
    /\ needClearance' = TRUE

KeepTurn ==
    /\ UNCHANGED <<turnSign, turnToggle>>
    /\ needClearance' = Clearance

CrashGuard == avoidState = "NONE" /\ Closer(CrashDist)
NormalStart == Closer(EnterDist) /\ Cooled = 0

CrashStartUnbraked ==
    /\ CrashGuard
    /\ TakeTurn
    /\ SetCmd(-SearchVel, -turnToggle * TurnSteer)
    /\ avoidState' = "REVERSE_ARC" /\ avoidTicks' = RevTicks
    /\ cooldownTicks' = Cooled

\* The guard starts a manoeuvre with half the brake time, and the machine
\* then runs its first BRAKE tick at once.
CrashStart ==
    /\ CrashGuard
    /\ TakeTurn
    /\ SetCmd(0, 0)
    /\ IF BrakeTicks \div 2 <= 1
       THEN avoidState' = "REVERSE_ARC" /\ avoidTicks' = RevTicks
       ELSE avoidState' = "BRAKE" /\ avoidTicks' = BrakeTicks \div 2 - 1
    /\ cooldownTicks' = Cooled

AvoidBrake ==
    /\ avoidState = "BRAKE"
    /\ KeepTurn
    /\ SetCmd(0, 0)
    /\ Phase(TicksLeft, "REVERSE_ARC", RevTicks)
    /\ cooldownTicks' = Cooled

ReverseCmdUnflipped == SetCmd(-SearchVel, turnSign * TurnSteer)

\* Reversing flips the steering so that the car keeps yawing the same way;
\* it goes on for at least HoldTicks more while an obstacle is that close.
ReverseCmd == SetCmd(-SearchVel, -turnSign * TurnSteer)

ReverseLeft ==
    IF Closer(CrashDist) /\ TicksLeft < HoldTicks THEN HoldTicks ELSE TicksLeft

AvoidReverse ==
    /\ avoidState = "REVERSE_ARC"
    /\ KeepTurn
    /\ ReverseCmd
    /\ Phase(ReverseLeft, "FORWARD_ARC", FwdTurnTicks)
    /\ cooldownTicks' = Cooled

ForwardLeftUntilClear == IF Clearance THEN HoldTicks ELSE TicksLeft
ForwardLeftRearmed == IF ~Clearance THEN HoldTicks ELSE TicksLeft

\* Once the clearance is reached, the forward arc is cut to HoldTicks.
ForwardLeft ==
    IF ~Clearance /\ TicksLeft > HoldTicks THEN HoldTicks ELSE TicksLeft

AvoidForward ==
    /\ avoidState = "FORWARD_ARC"
    /\ KeepTurn
    /\ SetCmd(SearchVel, turnSign * TurnSteer)
    /\ Phase(ForwardLeft, "RECOVER", RecoverTicks)
    /\ cooldownTicks' = Cooled

AvoidRecover ==
    /\ avoidState = "RECOVER"
    /\ KeepTurn
    /\ SetCmd(SearchVel, 0)
    /\ Phase(TicksLeft, "NONE", 0)
    /\ cooldownTicks' = IF TicksLeft = 0 THEN CooldownTicks ELSE Cooled

StartAvoid ==
    /\ avoidState = "NONE" /\ ~CrashGuard
    /\ NormalStart
    /\ TakeTurn
    /\ SetCmd(0, 0)
    /\ avoidState' = "BRAKE" /\ avoidTicks' = BrakeTicks
    /\ cooldownTicks' = Cooled

HoldNeededBlind == Clearance

HoldNeeded == Clearance /\ Closer(ExitDist)

HoldForClearance ==
    /\ avoidState = "NONE" /\ ~CrashGuard /\ ~NormalStart
    /\ HoldNeeded
    /\ KeepTurn
    /\ SetCmd(0, 0)
    /\ cooldownTicks' = Cooled
    /\ UNCHANGED <<avoidState, avoidTicks>>

SearchForward ==
    /\ avoidState = "NONE" /\ ~CrashGuard /\ ~NormalStart
    /\ ~HoldNeeded
    /\ KeepTurn
    /\ SetCmd(SearchVel, 0)
    /\ cooldownTicks' = Cooled
    /\ UNCHANGED <<avoidState, avoidTicks>>

ComputeSearchMotion ==
    /\ UpdateNeckScan
    /\ \/ CrashStart
       \/ AvoidBrake
       \/ AvoidReverse
       \/ AvoidForward
       \/ AvoidRecover
       \/ StartAvoid
       \/ HoldForClearance
       \/ SearchForward
-----------------------------------------------------------------------------
(***************************************************************************)
(* DETECT aims the neck and keeps the body still (its two motion branches  *)
(* differ only in the aim).  APPROACH steers at the hot spot and slows     *)
(* down twice, stopping only below ApproachMinDist.                        *)
(***************************************************************************)
ComputeDetectMotion ==
    /\ AimNeck(hotCol)
    /\ SetCmd(0, 0)

ApproachSpeed ==
    IF distance < ApproachMinDist THEN 0
    ELSE IF distance < 30 THEN (ApproachVel * 35) \div 100
    ELSE IF distance < 50 THEN (ApproachVel * 70) \div 100
    ELSE ApproachVel

ApproachSteer ==
    IF distance < ApproachMinDist \/ hotCol = NoHotSpot THEN 0
    ELSE Clamp(hotCol - CenterCol, -10, 10)

ComputeApproachMotion == SetCmd(ApproachSpeed, ApproachSteer)

AvoidTypeOK ==
    /\ avoidState \in AvoidStates
    /\ avoidTicks \in Nat /\ cooldownTicks \in 0..CooldownTicks
    /\ turnSign \in {-1, 1} /\ turnToggle \in {-1, 1}
    /\ needClearance \in BOOLEAN
=============================================================================
