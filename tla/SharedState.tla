---------------------------- MODULE SharedState ----------------------------
(***************************************************************************)
(* The structure every thread shares under one mutex (common.h), and the   *)
(* critical sections in which the sensor thread publishes its readings.    *)
(*                                                                         *)
(* Units: temperatures in degrees C, distances in cm, linVel in 1e-4 of    *)
(* full speed, angVel in tenths of full lock.  ext_cmd, need_closer and    *)
(* error_code are written by shared_state_init only and dT and hot_row are *)
(* only displayed, so none of the five is a variable here.                 *)
(***************************************************************************)
EXTENDS Integers

CONSTANTS
    Temps,      \* hottest-pixel temperatures a thermal frame can show
    HotCols,    \* columns (of 16) in which the hottest pixel can be
    Distances   \* averaged echo distances the ultrasonic sensor can return

ASSUME SensorAssumption ==
    /\ Temps \subseteq Int
    /\ HotCols \subseteq 0..15
    /\ Distances \subseteq Nat \ {0}

VARIABLES
    mode, cmdMode, linVel, angVel, tFire, hotCol, distance, emergencyStop

Modes == {"IDLE", "SEARCH", "DETECT", "APPROACH", "EXTINGUISH", "SAFE_STOP"}
CmdModes == {"NONE", "START", "STOP", "MANUAL"}

NoHotSpot == -1
HotPixelTemp == 50        \* thermal_sensor_read: below it there is no hot spot
InitialDistance == 1000   \* the 10 m placeholder of shared_state_init

readings == <<tFire, hotCol, distance>>
velocity == <<linVel, angVel>>
sharedVars == <<mode, cmdMode, emergencyStop, velocity, readings>>

SharedInit ==
    /\ mode = "IDLE"
    /\ cmdMode = "NONE"
    /\ linVel = 0 /\ angVel = 0
    /\ tFire = 0 /\ hotCol = NoHotSpot
    /\ distance = InitialDistance
    /\ emergencyStop = FALSE

SetCmd(lin, ang) == linVel' = lin /\ angVel' = ang

(***************************************************************************)
(* A failed read publishes nothing: the previous reading stays.            *)
(***************************************************************************)
PublishThermal ==
    \E t \in Temps :
        /\ tFire' = t
        /\ IF t < HotPixelTemp THEN hotCol' = NoHotSpot ELSE hotCol' \in HotCols
        /\ UNCHANGED <<distance, mode, cmdMode, emergencyStop, velocity>>

PublishDistance ==
    /\ distance' \in Distances
    /\ UNCHANGED <<tFire, hotCol, mode, cmdMode, emergencyStop, velocity>>

ModeTypeOK ==
    mode \in Modes /\ cmdMode \in CmdModes /\ emergencyStop \in BOOLEAN

VelocityTypeOK == linVel \in -10000..10000 /\ angVel \in -10..10

ReadingTypeOK == tFire \in Int /\ hotCol \in NoHotSpot..15 /\ distance \in Nat

SharedTypeOK == ModeTypeOK /\ VelocityTypeOK /\ ReadingTypeOK
=============================================================================
