---------------------------- MODULE StateMachine ----------------------------
(***************************************************************************)
(* state_machine_update: one call per algorithm tick, under the mutex, so  *)
(* one atomic step that ends in exactly one of the handlers' branches.     *)
(***************************************************************************)
EXTENDS Navigation, Extinguish

CONSTANTS
    LockFrames,     \* ticks the aim must hold before spraying: 12 on the car
    StableFrames    \* ticks the hot spot must stay put before that: 5

ASSUME FramesAssumption ==
    LockFrames \in Nat \ {0} /\ StableFrames \in Nat \ {0}

VARIABLES    \* the statics of handle_detect
    lockCount, stableHotCount, lastHotCol

FireApproachThreshold == 180
FireLostThreshold == 35
ApproachDistance == 50
NoLastCol == -999

detectVars == <<lockCount, stableHotCount, lastHotCol>>

DetectInit == lockCount = 0 /\ stableHotCount = 0 /\ lastHotCol = NoLastCol

SetMode(m) == mode' = m /\ UNCHANGED <<cmdMode, emergencyStop>>
StandStill == SetCmd(0, 0)
-----------------------------------------------------------------------------
UpdateEmergencyPumpOnly ==
    /\ emergencyStop
    /\ SetMode("SAFE_STOP")
    /\ StandStill
    /\ pump' = "OFF" /\ UNCHANGED <<currentTry, spraying, sprayElapsed>>
    /\ UNCHANGED <<avoidVars, neckVars, detectVars>>

UpdateEmergencyAsStop ==
    /\ emergencyStop
    /\ SetMode("IDLE")
    /\ StandStill
    /\ UNCHANGED <<avoidVars, neckVars, detectVars, sprayVars>>

\* emergency_stop comes first; the pump is not touched.
UpdateEmergency ==
    /\ emergencyStop
    /\ SetMode("SAFE_STOP")
    /\ StandStill
    /\ UNCHANGED <<avoidVars, neckVars, detectVars, sprayVars>>

UpdateStopRolling ==
    /\ ~emergencyStop /\ cmdMode = "STOP"
    /\ mode' = "IDLE" /\ cmdMode' = "NONE" /\ UNCHANGED emergencyStop
    /\ UNCHANGED <<velocity, avoidVars, neckVars, detectVars, sprayVars>>

\* STOP and then handle_idle, whatever the mode was.
UpdateStop ==
    /\ ~emergencyStop /\ cmdMode = "STOP"
    /\ mode' = "IDLE" /\ cmdMode' = "NONE" /\ UNCHANGED emergencyStop
    /\ StandStill
    /\ UNCHANGED <<avoidVars, neckVars, detectVars, sprayVars>>

Running(m) == ~emergencyStop /\ cmdMode # "STOP" /\ mode = m

\* handle_idle, and the SAFE_STOP case of the switch, which only stands still.
HandleHalted ==
    /\ mode \in {"IDLE", "SAFE_STOP"} /\ Running(mode)
    /\ IF mode = "IDLE" /\ cmdMode = "START"
       THEN mode' = "SEARCH" /\ cmdMode' = "NONE" /\ UNCHANGED emergencyStop
       ELSE SetMode(mode)
    /\ StandStill
    /\ UNCHANGED <<avoidVars, neckVars, detectVars, sprayVars>>
-----------------------------------------------------------------------------
FireReady == tFire >= FireApproachThreshold
FireLost == tFire < FireLostThreshold

SearchFoundKeepsAvoid ==
    /\ Running("SEARCH") /\ FireReady
    /\ ResetDetect
    /\ SetMode("DETECT")
    /\ UNCHANGED <<velocity, avoidVars, detectVars, sprayVars>>

\* The velocity of the last search tick stays until DETECT's first tick.
SearchFound ==
    /\ Running("SEARCH") /\ FireReady
    /\ ResetAvoid
    /\ ResetDetect
    /\ SetMode("DETECT")
    /\ UNCHANGED <<velocity, detectVars, sprayVars>>

SearchOn ==
    /\ Running("SEARCH") /\ ~FireReady
    /\ ComputeSearchMotion
    /\ SetMode("SEARCH")
    /\ UNCHANGED <<detectVars, sprayVars>>

DetectLost ==
    /\ Running("DETECT") /\ (hotCol = NoHotSpot \/ FireLost)
    /\ lockCount' = 0 /\ stableHotCount' = 0 /\ lastHotCol' = NoLastCol
    /\ ResetDetect
    /\ SetMode("SEARCH")
    /\ UNCHANGED <<velocity, avoidVars, sprayVars>>

(* stable_hot_count, counted as far as the threshold it is compared with.  *)
StableCount ==
    IF hotCol - lastHotCol \notin -1..1 THEN 0
    ELSE IF stableHotCount < StableFrames THEN stableHotCount + 1
    ELSE StableFrames

LockCountHeld ==
    IF FireReady /\ StableCount >= StableFrames /\ Aligned(hotCol)
    THEN lockCount + 1 ELSE lockCount

LockCount ==
    IF FireReady /\ StableCount >= StableFrames /\ Aligned(hotCol)
    THEN lockCount + 1 ELSE 0

DetectAimKeepsLock ==
    /\ Running("DETECT") /\ hotCol # NoHotSpot /\ ~FireLost
    /\ stableHotCount' = StableCount
    /\ lastHotCol' = hotCol
    /\ ComputeDetectMotion
    /\ lockCount' = LockCount
    /\ IF LockCount >= LockFrames THEN SetMode("EXTINGUISH") ELSE SetMode("DETECT")
    /\ UNCHANGED <<avoidVars, sprayVars>>

DetectAim ==
    /\ Running("DETECT") /\ hotCol # NoHotSpot /\ ~FireLost
    /\ stableHotCount' = StableCount
    /\ lastHotCol' = hotCol
    /\ ComputeDetectMotion
    /\ IF LockCount >= LockFrames
       THEN lockCount' = 0 /\ SetMode("EXTINGUISH")
       ELSE lockCount' = LockCount /\ SetMode("DETECT")
    /\ UNCHANGED <<avoidVars, sprayVars>>

ApproachLost ==
    /\ Running("APPROACH") /\ FireLost
    /\ SetMode("SEARCH")
    /\ UNCHANGED <<velocity, avoidVars, neckVars, detectVars, sprayVars>>

ApproachReached ==
    /\ Running("APPROACH") /\ ~FireLost
    /\ distance < ApproachDistance /\ tFire > FireApproachThreshold
    /\ SetMode("EXTINGUISH")
    /\ UNCHANGED <<velocity, avoidVars, neckVars, detectVars, sprayVars>>

ApproachOn ==
    /\ Running("APPROACH") /\ ~FireLost
    /\ ~(distance < ApproachDistance /\ tFire > FireApproachThreshold)
    /\ ComputeApproachMotion
    /\ SetMode("APPROACH")
    /\ UNCHANGED <<avoidVars, neckVars, detectVars, sprayVars>>

HandleExtinguishRolling ==
    /\ Running("EXTINGUISH")
    /\ \/ SpraySuccess /\ SetMode("SEARCH")
       \/ SprayInProgress /\ SetMode("EXTINGUISH")
       \/ SprayGiveUp /\ SetMode("APPROACH")
    /\ UNCHANGED <<velocity, avoidVars, neckVars, detectVars>>

HandleExtinguishStays ==
    /\ Running("EXTINGUISH")
    /\ StandStill
    /\ \/ (SpraySuccess \/ SprayInProgress) /\ SetMode("EXTINGUISH")
       \/ SprayGiveUp /\ SetMode("APPROACH")
    /\ UNCHANGED <<avoidVars, neckVars, detectVars>>

HandleExtinguish ==
    /\ Running("EXTINGUISH")
    /\ StandStill
    /\ \/ SpraySuccess /\ SetMode("SEARCH")
       \/ SprayInProgress /\ SetMode("EXTINGUISH")
       \/ SprayGiveUp /\ SetMode("APPROACH")
    /\ UNCHANGED <<avoidVars, neckVars, detectVars>>
-----------------------------------------------------------------------------
Update ==
    /\ \/ UpdateEmergency
       \/ UpdateStop
       \/ HandleHalted
       \/ SearchFound
       \/ SearchOn
       \/ DetectLost
       \/ DetectAim
       \/ ApproachLost
       \/ ApproachReached
       \/ ApproachOn
       \/ HandleExtinguish
    /\ UNCHANGED readings

DetectTypeOK ==
    /\ lockCount \in 0..(LockFrames - 1)
    /\ stableHotCount \in 0..StableFrames
    /\ lastHotCol \in {NoLastCol} \cup 0..15
=============================================================================
