-------------------------- MODULE NavigationProofs --------------------------
(***************************************************************************)
(* The neck stays within its mechanical range for every step size and      *)
(* every gain of the aim.  The avoidance machine keeps the direction of    *)
(* its yaw through a manoeuvre, for every number of ticks of its phases    *)
(* and every sequence of distances.                                        *)
(***************************************************************************)
EXTENDS SearchDrive, TLAPS

NeckInv == NeckTypeOK /\ ScanReturns /\ ServosInRange

(***************************************************************************)
(* The steps are natural numbers, whatever the build defines them to be.   *)
(***************************************************************************)
LEMMA StepsNatural == TiltStep \in Nat /\ PanStep \in Nat /\ PanPerColumn \in Nat
BY NeckAssumption DEF NeckAssumption

LEMMA NeckInvInit == NeckInit => NeckInv
BY StepsNatural DEF NeckInit, NeckInv, NeckTypeOK, ScanReturns, ServosInRange,
   TiltMin, TiltMax, PanMin, PanMax, Centre

(***************************************************************************)
(* Scanning, aiming and re-centring each keep the neck invariant.          *)
(***************************************************************************)
LEMMA ScanKeepsNeckInv == NeckInv /\ UpdateNeckScan => NeckInv'
<1> SUFFICES ASSUME NeckInv, UpdateNeckScan PROVE NeckInv'
  OBVIOUS
<1> USE DEF TiltMin, TiltMax, PanMin, PanMax
<1>1. /\ neckTilt' \in Int /\ neckTiltDir' \in {-1, 1}
      /\ TiltMin - TiltStep < neckTilt' /\ neckTilt' < TiltMax + TiltStep
      /\ neckTilt' <= TiltMin => neckTiltDir' = 1
      /\ neckTilt' >= TiltMax => neckTiltDir' = -1
  <2>1. neckTiltDir \in {-1, 1} /\ neckTilt \in Int /\ TiltStep \in Nat
    BY StepsNatural DEF NeckInv, NeckTypeOK
  <2>2. /\ neckTilt' = neckTilt + neckTiltDir * TiltStep
        /\ neckTiltDir' = Turned(neckTiltDir, neckTilt', TiltMin, TiltMax)
    BY DEF UpdateNeckScan
  <2>q. QED
    <3>1. CASE neckTiltDir = 1
      BY <2>1, <2>2, <3>1 DEF NeckInv, ScanReturns, Turned
    <3>2. CASE neckTiltDir = -1
      BY <2>1, <2>2, <3>2 DEF NeckInv, ScanReturns, Turned
    <3>q. QED
      BY <2>1, <3>1, <3>2
<1>2. /\ neckPan' \in Int /\ neckPanDir' \in {-1, 1}
      /\ PanMin - PanStep < neckPan' /\ neckPan' < PanMax + PanStep
      /\ neckPan' <= PanMin => neckPanDir' = 1
      /\ neckPan' >= PanMax => neckPanDir' = -1
  <2>1. neckPanDir \in {-1, 1} /\ neckPan \in Int /\ PanStep \in Nat
    BY StepsNatural DEF NeckInv, NeckTypeOK
  <2>2. /\ neckPan' = neckPan + neckPanDir * PanStep
        /\ neckPanDir' = Turned(neckPanDir, neckPan', PanMin, PanMax)
    BY DEF UpdateNeckScan
  <2>q. QED
    <3>1. CASE neckPanDir = 1
      BY <2>1, <2>2, <3>1 DEF NeckInv, ScanReturns, Turned
    <3>2. CASE neckPanDir = -1
      BY <2>1, <2>2, <3>2 DEF NeckInv, ScanReturns, Turned
    <3>q. QED
      BY <2>1, <3>1, <3>2
<1>3. tiltServo' = neckTilt' /\ panServo' = neckPan' /\ detectPan' = detectPan
  BY DEF UpdateNeckScan
<1>q. QED
  BY StepsNatural, <1>1, <1>2, <1>3 DEF NeckInv, NeckTypeOK, ScanReturns, ServosInRange

LEMMA ResetKeepsNeckInv == NeckInv /\ ResetDetect => NeckInv'
BY StepsNatural DEF NeckInv, ResetDetect, scanVars, NeckTypeOK, ScanReturns,
   ServosInRange, TiltMin, TiltMax, PanMin, PanMax, Centre

LEMMA AimKeepsNeckInv ==
    ASSUME NeckInv, NEW col \in 0..15, AimNeck(col)
    PROVE  NeckInv'
<1> USE DEF PanMin, PanMax
<1> DEFINE turn == (col - CenterCol) * PanPerColumn
<1>1. turn \in Int
  BY StepsNatural DEF CenterCol
<1>2. detectPan - turn \in Int /\ detectPan \in PanMin..PanMax
  BY <1>1 DEF NeckInv, NeckTypeOK
<1>3. detectPan' = IF Aligned(col) THEN detectPan
                   ELSE Clamp(detectPan - turn, PanMin, PanMax)
  BY DEF AimNeck
<1> HIDE DEF turn
<1>4. detectPan' \in PanMin..PanMax
  <2>1. Clamp(detectPan - turn, PanMin, PanMax) \in PanMin..PanMax
    BY <1>2 DEF Clamp
  <2>q. QED
    BY <1>2, <1>3, <2>1
<1>5. panServo' = detectPan' /\ tiltServo' = Centre
  BY DEF AimNeck
<1>6. /\ neckTilt' = neckTilt /\ neckTiltDir' = neckTiltDir
      /\ neckPan' = neckPan /\ neckPanDir' = neckPanDir
  BY DEF AimNeck, scanVars
<1>7. NeckTypeOK'
  BY <1>4, <1>5, <1>6 DEF NeckInv, NeckTypeOK, Centre
<1>8. ScanReturns'
  BY <1>6 DEF NeckInv, ScanReturns
<1>9. ServosInRange'
  BY StepsNatural, <1>4, <1>5 DEF ServosInRange, Centre, TiltMin, TiltMax
<1>q. QED
  BY <1>7, <1>8, <1>9 DEF NeckInv

(***************************************************************************)
(* The neck stays in range: the scan of update_neck_scan overshoots no     *)
(* limit by a whole step and turns back at once, and no servo write of the *)
(* scan, the aim or the reset leaves that range.                           *)
(***************************************************************************)
THEOREM NeckInRange == NeckSpec => [](ScanReturns /\ ServosInRange)
<1>1. NeckInv /\ [NeckNext]_neckVars => NeckInv'
  <2> SUFFICES ASSUME NeckInv, [NeckNext]_neckVars PROVE NeckInv'
    OBVIOUS
  <2>1. CASE UpdateNeckScan
    BY <2>1, ScanKeepsNeckInv
  <2>2. CASE ResetDetect
    BY <2>2, ResetKeepsNeckInv
  <2>3. CASE \E col \in 0..15 : AimNeck(col)
    BY <2>3, AimKeepsNeckInv
  <2>4. CASE UNCHANGED neckVars
    BY <2>4 DEF NeckInv, NeckTypeOK, ScanReturns, ServosInRange, neckVars,
       scanVars, servoVars
  <2>q. QED
    BY <2>1, <2>2, <2>3, <2>4 DEF NeckNext
<1>2. NeckInv => ScanReturns /\ ServosInRange
  BY DEF NeckInv
<1>q. QED
  BY <1>1, <1>2, NeckInvInit, PTL DEF NeckSpec
-----------------------------------------------------------------------------
(***************************************************************************)
(* The invariant: whenever the car yaws it does so to the side turnSign    *)
(* names, in reverse as in forward; and a tick that takes another side     *)
(* stops the car.                                                          *)
(***************************************************************************)
SideOK == turnSign \in {-1, 1} /\ turnToggle \in {-1, 1}

ToTheSide ==
    \/ linVel = 0 \/ angVel = 0
    \/ linVel = -SearchVel /\ angVel = -turnSign * TurnSteer
    \/ linVel = SearchVel /\ angVel = turnSign * TurnSteer

YawInv == SideOK /\ linVel \in Int /\ angVel \in Int /\ ToTheSide

(***************************************************************************)
(* A search tick stops the yaw or yaws to the side taken before it.        *)
(***************************************************************************)
LEMMA SearchTickTurns ==
    ASSUME YawInv, ComputeSearchMotion
    PROVE  /\ turnToggle' \in {-1, 1}
           /\ \/ /\ linVel' = 0 /\ angVel' = 0
                 /\ turnSign' \in {turnSign, turnToggle}
              \/ /\ linVel' = SearchVel /\ angVel' = 0
                 /\ turnSign' = turnSign
              \/ /\ linVel' = SearchVel /\ angVel' = turnSign * TurnSteer
                 /\ turnSign' = turnSign
              \/ /\ linVel' = -SearchVel /\ angVel' = -turnSign * TurnSteer
                 /\ turnSign' = turnSign
<1> USE DEF YawInv, SideOK, SetCmd, TakeTurn, KeepTurn
<1>1. CASE CrashStart \/ StartAvoid
  <2>1. turnToggle' = -turnToggle
    BY <1>1 DEF CrashStart, StartAvoid
  <2>q. QED
    BY <1>1, <2>1 DEF CrashStart, StartAvoid
<1>2. CASE AvoidBrake \/ HoldForClearance
  BY <1>2 DEF AvoidBrake, HoldForClearance
<1>3. CASE AvoidReverse
  BY <1>3 DEF AvoidReverse, ReverseCmd
<1>4. CASE AvoidForward
  BY <1>4 DEF AvoidForward
<1>5. CASE AvoidRecover \/ SearchForward
  BY <1>5 DEF AvoidRecover, SearchForward
<1>q. QED
  BY <1>1, <1>2, <1>3, <1>4, <1>5 DEF ComputeSearchMotion

LEMMA TickKeepsYaw == ASSUME YawInv, SearchTick PROVE YawInv'
<1>1. SearchVel \in Int /\ TurnSteer \in Int
  BY DEF SearchVel, TurnSteer
<1>2. turnSign' \in {-1, 1} /\ linVel' \in Int /\ angVel' \in Int
  BY <1>1, SearchTickTurns DEF SearchTick, YawInv, SideOK
<1>3. ToTheSide'
  BY SearchTickTurns DEF SearchTick, ToTheSide
<1>q. QED
  BY <1>2, <1>3, SearchTickTurns DEF SearchTick, YawInv, SideOK

LEMMA StillKeepsYaw ==
    ASSUME YawInv, UNCHANGED <<linVel, angVel, turnSign, turnToggle>>
    PROVE  YawInv'
BY DEF YawInv, SideOK, ToTheSide

LEMMA YawInvariant == DriveSpec => []YawInv
<1>1. DriveInit => YawInv
  BY DEF DriveInit, AvoidInit, YawInv, SideOK, ToTheSide
<1>2. YawInv /\ [DriveNext]_driveVars => YawInv'
  <2> SUFFICES ASSUME YawInv, [DriveNext]_driveVars PROVE YawInv'
    OBVIOUS
  <2>1. CASE SearchTick
    BY <2>1, TickKeepsYaw
  <2>2. CASE Ranging \/ UNCHANGED driveVars
    BY <2>2, StillKeepsYaw
       DEF Ranging, PublishDistance, velocity, avoidVars, driveVars, sharedVars
  <2>q. QED
    BY <2>1, <2>2 DEF DriveNext
<1>q. QED
  BY <1>1, <1>2, PTL DEF DriveSpec

LEMMA NonzeroFactors ==
    ASSUME NEW x \in Int, NEW y \in Int, x * y # 0
    PROVE  x # 0 /\ y # 0
OBVIOUS

(***************************************************************************)
(* Reverse arc and forward arc of one manoeuvre turn the car the same way: *)
(* whatever distances come between two ticks, no tick goes from a yaw to   *)
(* one side straight to a yaw to the other.                                *)
(***************************************************************************)
THEOREM YawIsKept == DriveSpec => YawKept
<1>1. YawInv /\ [DriveNext]_driveVars =>
        [(linVel * angVel # 0 /\ linVel' * angVel' # 0)
            => linVel * angVel * linVel' * angVel' > 0]_driveVars
  <2> SUFFICES ASSUME YawInv, DriveNext,
                      linVel * angVel # 0, linVel' * angVel' # 0
               PROVE  linVel * angVel * linVel' * angVel' > 0
    OBVIOUS
  <2>0. linVel \in Int /\ angVel \in Int /\ turnSign \in {-1, 1}
    BY DEF YawInv, SideOK
  <2>1. \/ linVel = -SearchVel /\ angVel = -turnSign * TurnSteer
        \/ linVel = SearchVel /\ angVel = turnSign * TurnSteer
    <3>1. linVel # 0 /\ angVel # 0
      BY <2>0, NonzeroFactors, Zenon
    <3>q. QED
      BY <3>1 DEF YawInv, ToTheSide
  <2>2. \/ linVel' = -SearchVel /\ angVel' = -turnSign * TurnSteer
        \/ linVel' = SearchVel /\ angVel' = turnSign * TurnSteer
    <3>1. CASE SearchTick
      <4>1. linVel' \in Int /\ angVel' \in Int
        BY <3>1, TickKeepsYaw DEF YawInv
      <4>2. linVel' # 0 /\ angVel' # 0
        BY <4>1, NonzeroFactors, Zenon
      <4>3. \/ linVel' = 0 \/ angVel' = 0
            \/ linVel' = SearchVel /\ angVel' = turnSign * TurnSteer
            \/ linVel' = -SearchVel /\ angVel' = -turnSign * TurnSteer
        BY <3>1, SearchTickTurns DEF SearchTick
      <4>q. QED
        BY <4>2, <4>3
    <3>2. CASE Ranging
      <4>1. linVel' = linVel /\ angVel' = angVel
        BY <3>2 DEF Ranging, PublishDistance, velocity
      <4>q. QED
        BY <2>1, <4>1
    <3>q. QED
      BY <3>1, <3>2 DEF DriveNext
  <2>q. QED
    BY <2>0, <2>1, <2>2, SMTT(60) DEF SearchVel, TurnSteer
<1>q. QED
  BY <1>1, YawInvariant, PTL DEF DriveSpec, YawKept
=============================================================================
