------------------------------- MODULE Aiming -------------------------------
(***************************************************************************)
(* What handle_detect's counters stand for.  The control core is extended  *)
(* by history variables, which the code does not keep and no step depends  *)
(* on: what DETECT has really seen at its ticks, to compare the statics    *)
(* with that survive STOP, ESTOP and every change of mode.                 *)
(***************************************************************************)
EXTENDS Control

VARIABLES
    spot,       \* the hottest column at DETECT's last tick, unless lost there
    steady,     \* ticks of DETECT in a row that found it within one column
    aimed       \* those that found it, besides, hot and centred, since the
                \*   lock was last used up

aimVars == <<spot, steady, aimed>>
aimingVars == <<controlVars, aimVars>>

(* The longest runs that handle_detect asks for; counted no further.       *)
SteadyFrames == StableFrames + LockFrames - 1
UpTo(bound, n) == IF n < bound THEN n ELSE bound

SpotHeld == hotCol - spot \in -1..1
OnTarget == SpotHeld /\ FireReady /\ Aligned(hotCol)

SteadyNow == IF SpotHeld THEN UpTo(SteadyFrames, steady + 1) ELSE 0
AimedNow == IF OnTarget THEN UpTo(LockFrames, aimed + 1) ELSE 0

AimingInit ==
    ControlInit /\ spot = NoLastCol /\ steady = 0 /\ aimed = 0

SpotLost == spot' = NoLastCol /\ steady' = 0 /\ aimed' = 0

SpotSeen ==
    /\ spot' = hotCol
    /\ steady' = SteadyNow
    /\ aimed' = IF mode' = "EXTINGUISH" THEN 0 ELSE AimedNow

(* What a tick of the algorithm thread shows to an onlooker.               *)
Watch ==
    IF ~Running("DETECT") THEN UNCHANGED aimVars
    ELSE IF hotCol = NoHotSpot \/ FireLost THEN SpotLost
    ELSE SpotSeen

AimingNext ==
    \/ Update /\ Watch
    \/ (Sense \/ Operate \/ ClockTick) /\ UNCHANGED aimVars

AimingSpec == AimingInit /\ [][AimingNext]_aimingVars
-----------------------------------------------------------------------------
(***************************************************************************)
(* A fire is locked on only after a whole run of aiming, however often     *)
(* STOP, ESTOP or a failed spray came in between: DETECT starts to spray   *)
(* only when the spot has kept still for the frames of stability and of    *)
(* lock, and was hot and centred at each of the last LockFrames ticks that *)
(* looked at it, none of them counted for a lock before.                   *)
(***************************************************************************)
LockEarned ==
    [][mode = "DETECT" /\ mode' = "EXTINGUISH"
          => AimedNow >= LockFrames /\ SteadyNow >= SteadyFrames]_aimingVars
=============================================================================
