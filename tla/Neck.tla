-------------------------------- MODULE Neck --------------------------------
(***************************************************************************)
(* The pan/tilt neck that carries the sensors and the nozzle: the scan     *)
(* update_neck_scan sweeps while searching, and the aim DETECT steers from *)
(* the column of the hot spot.  Angles are in tenths of a degree.          *)
(***************************************************************************)
EXTENDS Integers

CONSTANTS
    TiltStep, PanStep,   \* TILT_STEP and PAN_STEP: 3 and 15 on the car
    PanPerColumn         \* how far DETECT pans per column of error: 5

ASSUME NeckAssumption ==
    TiltStep \in Nat /\ PanStep \in Nat /\ PanPerColumn \in Nat

VARIABLES
    neckTilt, neckTiltDir, neckPan, neckPanDir,  \* the scan
    detectPan,                                   \* the aim of DETECT
    tiltServo, panServo                          \* what the servos were last told

TiltMin == 600
TiltMax == 1100
PanMin == 450
PanMax == 1350
Centre == 900
CenterCol == 8
CenterTolerance == 2

scanVars == <<neckTilt, neckTiltDir, neckPan, neckPanDir>>
servoVars == <<tiltServo, panServo>>
neckVars == <<scanVars, detectPan, servoVars>>

NeckInit ==
    /\ neckTilt = Centre /\ neckTiltDir = -1
    /\ neckPan = Centre /\ neckPanDir = 1
    /\ detectPan = Centre
    /\ tiltServo = Centre /\ panServo = Centre

Turned(dir, pos, lo, hi) ==
    IF pos <= lo THEN 1 ELSE IF pos >= hi THEN -1 ELSE dir

UpdateNeckScan ==
    /\ neckTilt' = neckTilt + neckTiltDir * TiltStep
    /\ neckTiltDir' = Turned(neckTiltDir, neckTilt', TiltMin, TiltMax)
    /\ neckPan' = neckPan + neckPanDir * PanStep
    /\ neckPanDir' = Turned(neckPanDir, neckPan', PanMin, PanMax)
    /\ tiltServo' = neckTilt'
    /\ panServo' = neckPan'
    /\ UNCHANGED detectPan

ResetDetectAndScan ==
    /\ detectPan' = Centre
    /\ panServo' = Centre /\ tiltServo' = Centre
    /\ neckTilt' = Centre /\ neckPan' = Centre
    /\ UNCHANGED <<neckTiltDir, neckPanDir>>

ResetDetect ==
    /\ detectPan' = Centre
    /\ panServo' = Centre
    /\ tiltServo' = Centre
    /\ UNCHANGED scanVars

Clamp(x, lo, hi) == IF x < lo THEN lo ELSE IF x > hi THEN hi ELSE x

Aligned(col) == col - CenterCol \in -CenterTolerance..CenterTolerance

AimNeckBeforeClamp(col) ==
    /\ panServo' = detectPan - (col - CenterCol) * PanPerColumn
    /\ detectPan' = IF Aligned(col) THEN detectPan ELSE Clamp(panServo', PanMin, PanMax)
    /\ tiltServo' = Centre
    /\ UNCHANGED scanVars

AimNeck(col) ==
    /\ detectPan' = IF Aligned(col) THEN detectPan
                    ELSE Clamp(detectPan - (col - CenterCol) * PanPerColumn,
                               PanMin, PanMax)
    /\ panServo' = detectPan'
    /\ tiltServo' = Centre
    /\ UNCHANGED scanVars

(***************************************************************************)
(* The neck on its own: the algorithm thread scans, aims or re-centres it  *)
(* in any order.                                                           *)
(***************************************************************************)
NeckNext ==
    \/ UpdateNeckScan
    \/ ResetDetect
    \/ \E col \in 0..15 : AimNeck(col)

NeckSpec == NeckInit /\ [][NeckNext]_neckVars

NeckTypeOK ==
    /\ neckTilt \in Int /\ neckPan \in Int
    /\ neckTiltDir \in {-1, 1} /\ neckPanDir \in {-1, 1}
    /\ detectPan \in PanMin..PanMax
    /\ tiltServo \in Int /\ panServo \in Int

(***************************************************************************)
(* The scan overshoots a mechanical limit by less than one step and is     *)
(* then always on its way back, whether or not the step divides the range  *)
(* (accumulating TILT_STEP, the inexact 0.3f, makes sure it does not).     *)
(***************************************************************************)
ScanReturns ==
    /\ TiltMin - TiltStep < neckTilt /\ neckTilt < TiltMax + TiltStep
    /\ PanMin - PanStep < neckPan /\ neckPan < PanMax + PanStep
    /\ neckTilt <= TiltMin => neckTiltDir = 1
    /\ neckTilt >= TiltMax => neckTiltDir = -1
    /\ neckPan <= PanMin => neckPanDir = 1
    /\ neckPan >= PanMax => neckPanDir = -1

(***************************************************************************)
(* Whatever mixture of scanning, aiming and re-centring produced it, the   *)
(* angle last written to a servo is one the scan or the aim may hold: no   *)
(* write leaves the mechanical range by more than a scan step.             *)
(***************************************************************************)
ServosInRange ==
    /\ tiltServo \in (TiltMin - TiltStep)..(TiltMax + TiltStep)
    /\ panServo \in (PanMin - PanStep)..(PanMax + PanStep)

(***************************************************************************)
(* Searching covers the whole field again and again: both ends of both     *)
(* sweeps are reached for ever, however often DETECT interrupts the scan,  *)
(* provided the car returns to scanning for ever.                          *)
(***************************************************************************)
SweepsBothWays ==
    []<><<UpdateNeckScan>>_neckVars =>
    /\ []<>(neckPan >= PanMax) /\ []<>(neckPan <= PanMin)
    /\ []<>(neckTilt >= TiltMax) /\ []<>(neckTilt <= TiltMin)
=============================================================================
