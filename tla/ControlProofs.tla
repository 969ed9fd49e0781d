---------------------------- MODULE ControlProofs ----------------------------
(***************************************************************************)
(* The control core's invariant, for every set of readings, every tick     *)
(* count, spray duration and number of tries and frames: the conjunction   *)
(* ControlInv is inductive, and the safety properties of Control follow.   *)
(***************************************************************************)
EXTENDS Control, TLAPS

USE DEF sharedVars, readings, velocity, avoidVars, scanVars, servoVars,
        neckVars, detectVars, sprayVars, planVars,
        SetCmd, SetMode, StandStill, Running, NoHotSpot, NoLastCol

(***************************************************************************)
(* The safety part of ControlInv.                                          *)
(***************************************************************************)
ControlSafe ==
    /\ SafeStopLatched /\ HaltedStandStill
    /\ SprayAccounted /\ SprayAtStandstill /\ ApproachDry
    /\ AvoidanceAtRest /\ ReverseArcBacksOff

LEMMA InvSplit == ControlInv <=> ControlTypeOK /\ ControlSafe
BY DEF ControlInv, ControlSafe

LEMMA InvJoin == ControlTypeOK' /\ ControlSafe' => ControlInv'
BY DEF ControlInv, ControlSafe

(***************************************************************************)
(* A component a step does not touch keeps its type.                       *)
(***************************************************************************)
LEMMA ReadingFrame == ReadingTypeOK /\ UNCHANGED readings => ReadingTypeOK'
BY DEF ReadingTypeOK

LEMMA VelocityFrame == VelocityTypeOK /\ UNCHANGED velocity => VelocityTypeOK'
<1> SUFFICES ASSUME VelocityTypeOK, UNCHANGED velocity PROVE VelocityTypeOK'
  OBVIOUS
<1>1. linVel' = linVel /\ angVel' = angVel
  OBVIOUS
<1>q. QED
  BY <1>1, SMTT(30) DEF VelocityTypeOK

LEMMA SharedFrame == SharedTypeOK /\ UNCHANGED sharedVars => SharedTypeOK'
<1> SUFFICES ASSUME SharedTypeOK, UNCHANGED sharedVars PROVE SharedTypeOK'
  OBVIOUS
<1>1. UNCHANGED <<mode, cmdMode, emergencyStop>>
  OBVIOUS
<1>2. UNCHANGED velocity /\ UNCHANGED readings
  OBVIOUS
<1>q. QED
  BY <1>1, <1>2, ReadingFrame, VelocityFrame DEF SharedTypeOK, ModeTypeOK

LEMMA AvoidFrame == AvoidTypeOK /\ UNCHANGED avoidVars => AvoidTypeOK'
BY DEF AvoidTypeOK

LEMMA NeckFrame == NeckTypeOK /\ UNCHANGED neckVars => NeckTypeOK'
BY DEF NeckTypeOK

LEMMA DetectFrame == DetectTypeOK /\ UNCHANGED detectVars => DetectTypeOK'
BY DEF DetectTypeOK

LEMMA SprayFrame == SprayTypeOK /\ UNCHANGED sprayVars => SprayTypeOK'
BY DEF SprayTypeOK

(***************************************************************************)
(* The safety part depends on no reading, so publishing one keeps it.      *)
(***************************************************************************)
LEMMA SafeFrame ==
    ASSUME ControlSafe,
           UNCHANGED <<mode, emergencyStop, velocity, avoidVars, detectVars,
                       currentTry, spraying, pump>>
    PROVE  ControlSafe'
BY DEF ControlSafe, SafeStopLatched, HaltedStandStill, SprayAccounted,
       SprayAtStandstill, ApproachDry, AvoidanceAtRest, ReverseArcBacksOff

(***************************************************************************)
(* navigation.c, one SEARCH tick: whatever branch it takes, the machine    *)
(* stays well typed, the command is one of the few it may give, a reverse  *)
(* arc starts from standstill, and forward never turns into reverse.       *)
(***************************************************************************)
LEMMA CooledType == AvoidTypeOK => Cooled \in 0..CooldownTicks
BY TicksAssumption DEF TicksAssumption, AvoidTypeOK, Cooled

LEMMA TicksLeftType == AvoidTypeOK => TicksLeft \in Nat
BY DEF AvoidTypeOK, TicksLeft

LEMMA SearchMotionSafe ==
    ASSUME AvoidTypeOK, linVel \in Int, ReverseArcBacksOff, ComputeSearchMotion
    PROVE  /\ AvoidTypeOK'
           /\ linVel' \in {-2000, 0, 2000} /\ angVel' \in {-10, 0, 10}
           /\ ReverseArcBacksOff'
           /\ linVel > 0 => linVel' >= 0
<1> USE TicksAssumption, CooledType, TicksLeftType
    DEF TicksAssumption, AvoidStates, AvoidTypeOK, ReverseArcBacksOff,
        SearchVel, TurnSteer
<1>1. Clearance \in BOOLEAN
  BY DEF Clearance, DistanceValid
<1>2. CASE CrashStart
  <2>1. \A b \in Nat : b \div 2 \in Nat
    OBVIOUS
  <2>2. BrakeTicks \div 2 \in Nat
    BY <2>1
  <2>q. QED
    BY <1>2, <2>2 DEF CrashStart, CrashGuard, TakeTurn
<1>3. CASE AvoidBrake
  BY <1>1, <1>3 DEF AvoidBrake, KeepTurn, Phase
<1>4. CASE AvoidReverse
  <2>1. linVel' = -2000 /\ angVel' \in {-10, 10}
    BY <1>4 DEF AvoidReverse, ReverseCmd
  <2>2. /\ avoidState' \in {"REVERSE_ARC", "FORWARD_ARC"}
        /\ avoidTicks' \in Nat
    <3>1. ReverseLeft \in Nat
      BY DEF ReverseLeft
    <3>q. QED
      BY <1>4, <3>1 DEF AvoidReverse, Phase
  <2>3. /\ UNCHANGED <<turnSign, turnToggle>> /\ needClearance' \in BOOLEAN
        /\ cooldownTicks' = Cooled
        /\ linVel <= 0
    BY <1>1, <1>4 DEF AvoidReverse, KeepTurn
  <2>q. QED
    BY <2>1, <2>2, <2>3
<1>5. CASE AvoidForward
  <2>1. ForwardLeft \in Nat
    BY DEF ForwardLeft
  <2>q. QED
    BY <1>1, <1>5, <2>1 DEF AvoidForward, KeepTurn, Phase
<1>6. CASE AvoidRecover
  BY <1>1, <1>6 DEF AvoidRecover, KeepTurn, Phase
<1>7. CASE StartAvoid
  BY <1>7 DEF StartAvoid, TakeTurn
<1>8. CASE HoldForClearance
  BY <1>1, <1>8 DEF HoldForClearance, KeepTurn
<1>9. CASE SearchForward
  BY <1>1, <1>9 DEF SearchForward, KeepTurn
<1>q. QED
  BY <1>2, <1>3, <1>4, <1>5, <1>6, <1>7, <1>8, <1>9 DEF ComputeSearchMotion

(***************************************************************************)
(* The neck's operations keep its type; NavigationProofs bounds its range. *)
(***************************************************************************)
LEMMA NeckTypeKept ==
    ASSUME NeckTypeOK,
           \/ UpdateNeckScan \/ ResetDetect
           \/ hotCol \in 0..15 /\ AimNeck(hotCol)
    PROVE  NeckTypeOK'
<1>1. TiltStep \in Nat /\ PanStep \in Nat /\ PanPerColumn \in Nat
  BY NeckAssumption DEF NeckAssumption
<1>2. CASE UpdateNeckScan
  <2>1. neckTilt + neckTiltDir * TiltStep \in Int
    BY <1>1 DEF NeckTypeOK
  <2>2. neckPan + neckPanDir * PanStep \in Int
    BY <1>1 DEF NeckTypeOK
  <2>q. QED
    BY <1>2, <2>1, <2>2 DEF NeckTypeOK, UpdateNeckScan, Turned
<1>3. CASE ResetDetect
  BY <1>3 DEF NeckTypeOK, ResetDetect, Centre, PanMin, PanMax
<1>4. CASE hotCol \in 0..15 /\ AimNeck(hotCol)
  <2> DEFINE turn == (hotCol - CenterCol) * PanPerColumn
  <2>1. turn \in Int
    BY <1>1, <1>4 DEF CenterCol
  <2>2. detectPan - turn \in Int
    BY <2>1 DEF NeckTypeOK, PanMin, PanMax
  <2>3. detectPan' = IF Aligned(hotCol) THEN detectPan
                     ELSE Clamp(detectPan - turn, PanMin, PanMax)
    BY <1>4 DEF AimNeck
  <2> HIDE DEF turn
  <2>4. detectPan' \in PanMin..PanMax
    BY <2>2, <2>3 DEF NeckTypeOK, Clamp, PanMin, PanMax
  <2>5. panServo' = detectPan' /\ tiltServo' = Centre /\ UNCHANGED scanVars
    BY <1>4 DEF AimNeck
  <2>q. QED
    BY <2>4, <2>5 DEF NeckTypeOK, Centre, PanMin, PanMax
<1>q. QED
  BY <1>2, <1>3, <1>4

(***************************************************************************)
(* The spraying loop: switching the pump off, with the count it keeps, and *)
(* on, with one try more, each leave pump, spraying and count consistent.  *)
(***************************************************************************)
LEMMA SprayStops ==
    ASSUME ExtinguishTry \in Nat \ {0}, SprayDuration \in Nat \ {0},
           pump' = "OFF", spraying' = FALSE,
           currentTry' \in 0..(ExtinguishTry - 1),
           sprayElapsed' \in 0..SprayDuration
    PROVE  SprayTypeOK' /\ SprayAccounted' /\ ApproachDry'
<1>1. SprayTypeOK'
  <2>1. spraying' \in BOOLEAN
    BY Zenon
  <2>2. currentTry' \in Nat /\ pump' \in {"FOUND", "ON", "OFF"}
    OBVIOUS
  <2>q. QED
    BY <2>1, <2>2, Zenon DEF SprayTypeOK
<1>2. (pump = "ON" <=> spraying)'
  <2>1. pump' # "ON"
    OBVIOUS
  <2>2. ~spraying'
    BY Zenon
  <2>q. QED
    BY <2>1, <2>2, Zenon
<1>3. (spraying => currentTry \in 1..ExtinguishTry)'
  BY Zenon
<1>4. (~spraying => currentTry < ExtinguishTry)'
  BY SMT
<1>q. QED
  BY <1>1, <1>2, <1>3, <1>4 DEF SprayAccounted, ApproachDry

LEMMA SprayStarts ==
    ASSUME ExtinguishTry \in Nat \ {0}, SprayDuration \in Nat \ {0},
           SprayTypeOK, SprayAccounted, SprayStart, mode' = "EXTINGUISH"
    PROVE  SprayTypeOK' /\ SprayAccounted' /\ ApproachDry'
<1>1. currentTry' \in 1..ExtinguishTry
  BY DEF SprayTypeOK, SprayAccounted, SprayStart
<1>2. pump' = "ON" /\ spraying' = TRUE /\ sprayElapsed' = 0
  BY DEF SprayStart
<1>3. SprayTypeOK'
  BY <1>1, <1>2 DEF SprayTypeOK
<1>q. QED
  BY <1>1, <1>2, <1>3, Zenon DEF SprayAccounted, ApproachDry

(***************************************************************************)
(* state_machine_update: each of its branches keeps the invariant.         *)
(***************************************************************************)
LEMMA UpdateKeepsInv ==
    ASSUME ControlInv, Update PROVE ControlInv'
<1> USE DEF ControlSafe,
        SafeStopLatched, HaltedStandStill, SprayAccounted, SprayAtStandstill,
        ApproachDry, AvoidanceAtRest, ReverseArcBacksOff
<1>0. /\ ModeTypeOK /\ VelocityTypeOK /\ ReadingTypeOK
      /\ AvoidTypeOK /\ NeckTypeOK /\ DetectTypeOK /\ SprayTypeOK
      /\ ControlSafe
      /\ ReadingTypeOK'
  BY InvSplit, ReadingFrame DEF Update, ControlTypeOK, SharedTypeOK
<1>1. CASE UpdateEmergency
  <2>m. ModeTypeOK'
    BY <1>0, <1>1 DEF UpdateEmergency, ModeTypeOK, Modes, CmdModes
  <2>v. VelocityTypeOK'
    BY <1>0, <1>1 DEF UpdateEmergency, VelocityTypeOK
  <2>1. SharedTypeOK'
    BY <1>0, <2>m, <2>v DEF SharedTypeOK
  <2>2. AvoidTypeOK' /\ NeckTypeOK' /\ DetectTypeOK' /\ SprayTypeOK'
    BY <1>0, <1>1, AvoidFrame, NeckFrame, DetectFrame, SprayFrame DEF UpdateEmergency
  <2>3. ControlSafe'
    BY <1>0, <1>1 DEF UpdateEmergency
  <2>q. QED
    BY <2>1, <2>2, <2>3 DEF ControlInv, ControlTypeOK
<1>2. CASE UpdateStop
  <2>m. ModeTypeOK'
    BY <1>0, <1>2 DEF UpdateStop, ModeTypeOK, Modes, CmdModes
  <2>v. VelocityTypeOK'
    BY <1>0, <1>2 DEF UpdateStop, VelocityTypeOK
  <2>1. SharedTypeOK'
    BY <1>0, <2>m, <2>v DEF SharedTypeOK
  <2>2. AvoidTypeOK' /\ NeckTypeOK' /\ DetectTypeOK' /\ SprayTypeOK'
    BY <1>0, <1>2, AvoidFrame, NeckFrame, DetectFrame, SprayFrame DEF UpdateStop
  <2>3. ControlSafe'
    BY <1>0, <1>2 DEF UpdateStop
  <2>q. QED
    BY <2>1, <2>2, <2>3 DEF ControlInv, ControlTypeOK
<1>3. CASE HandleHalted
  <2>m. ModeTypeOK'
    BY <1>0, <1>3 DEF HandleHalted, ModeTypeOK, Modes, CmdModes
  <2>v. VelocityTypeOK'
    BY <1>0, <1>3 DEF HandleHalted, VelocityTypeOK
  <2>1. SharedTypeOK'
    BY <1>0, <2>m, <2>v DEF SharedTypeOK
  <2>2. AvoidTypeOK' /\ NeckTypeOK' /\ DetectTypeOK' /\ SprayTypeOK'
    BY <1>0, <1>3, AvoidFrame, NeckFrame, DetectFrame, SprayFrame DEF HandleHalted
  <2>3. ControlSafe'
    BY <1>0, <1>3 DEF HandleHalted
  <2>q. QED
    BY <2>1, <2>2, <2>3 DEF ControlInv, ControlTypeOK
<1>4. CASE SearchFound
  <2>a. needClearance' \in BOOLEAN /\ avoidState' = "NONE"
    BY <1>4, Zenon DEF SearchFound, ResetAvoid
  <2>0. AvoidTypeOK' /\ avoidState' = "NONE"
    BY <1>0, <1>4, <2>a, TicksAssumption
       DEF TicksAssumption, SearchFound, ResetAvoid, AvoidTypeOK, AvoidStates
  <2>m. ModeTypeOK'
    BY <1>0, <1>4 DEF SearchFound, ModeTypeOK, Modes, CmdModes
  <2>v. VelocityTypeOK'
    BY <1>0, <1>4, VelocityFrame DEF SearchFound
  <2>1. SharedTypeOK'
    BY <1>0, <2>m, <2>v DEF SharedTypeOK
  <2>2. AvoidTypeOK' /\ NeckTypeOK' /\ DetectTypeOK' /\ SprayTypeOK'
    BY <1>0, <1>4, <2>0, NeckTypeKept, DetectFrame, SprayFrame DEF SearchFound
  <2>3. ControlSafe'
    BY <1>0, <1>4, <2>0 DEF SearchFound
  <2>q. QED
    BY <2>1, <2>2, <2>3 DEF ControlInv, ControlTypeOK
<1>5. CASE SearchOn
  <2>0. /\ AvoidTypeOK' /\ ReverseArcBacksOff'
        /\ linVel' \in {-2000, 0, 2000} /\ angVel' \in {-10, 0, 10}
    BY <1>0, <1>5, SearchMotionSafe DEF SearchOn, VelocityTypeOK
  <2>m. ModeTypeOK'
    BY <1>0, <1>5, <2>0 DEF SearchOn, ModeTypeOK, Modes, CmdModes
  <2>v. VelocityTypeOK'
    BY <2>0 DEF VelocityTypeOK
  <2>1. SharedTypeOK'
    BY <1>0, <2>m, <2>v DEF SharedTypeOK
  <2>2. AvoidTypeOK' /\ NeckTypeOK' /\ DetectTypeOK' /\ SprayTypeOK'
    BY <1>0, <1>5, <2>0, NeckTypeKept, DetectFrame, SprayFrame
       DEF SearchOn, ComputeSearchMotion
  <2>3. ControlSafe'
    BY <1>0, <1>5, <2>0 DEF SearchOn
  <2>q. QED
    BY <2>1, <2>2, <2>3 DEF ControlInv, ControlTypeOK
<1>6. CASE DetectLost
  <2>0. DetectTypeOK' /\ lockCount' = 0
    BY <1>6, FramesAssumption DEF FramesAssumption, DetectLost, DetectTypeOK
  <2>m. ModeTypeOK'
    BY <1>0, <1>6 DEF DetectLost, ModeTypeOK, Modes, CmdModes
  <2>v. VelocityTypeOK'
    BY <1>0, <1>6, VelocityFrame DEF DetectLost
  <2>1. SharedTypeOK'
    BY <1>0, <2>m, <2>v DEF SharedTypeOK
  <2>2. AvoidTypeOK' /\ NeckTypeOK' /\ DetectTypeOK' /\ SprayTypeOK'
    BY <1>0, <1>6, <2>0, AvoidFrame, NeckTypeKept, SprayFrame DEF DetectLost
  <2>3. ControlSafe'
    BY <1>0, <1>6, <2>0 DEF DetectLost
  <2>q. QED
    BY <2>1, <2>2, <2>3 DEF ControlInv, ControlTypeOK
<1>7. CASE DetectAim
  <2>a. hotCol \in 0..15 /\ LockFrames \in Nat \ {0} /\ StableFrames \in Nat \ {0}
    BY <1>0, <1>7, FramesAssumption DEF FramesAssumption, DetectAim, ReadingTypeOK
  <2>b. StableCount \in 0..StableFrames
    BY <1>0, <2>a DEF StableCount, DetectTypeOK
  <2>c. LockCount \in Nat
    BY <1>0, <2>a, <2>b DEF LockCount, DetectTypeOK
  <2>d. lockCount' \in 0..(LockFrames - 1)
    BY <1>7, <2>a, <2>c DEF DetectAim
  <2>e. DetectTypeOK'
    BY <1>7, <2>a, <2>b, <2>d DEF DetectAim, DetectTypeOK
  <2>f. /\ mode' \in {"DETECT", "EXTINGUISH"} /\ UNCHANGED <<cmdMode, emergencyStop>>
        /\ linVel' = 0 /\ angVel' = 0
    BY <1>7 DEF DetectAim, ComputeDetectMotion
  <2>m. ModeTypeOK'
    BY <1>0, <2>f DEF ModeTypeOK, Modes, CmdModes
  <2>v. VelocityTypeOK'
    BY <1>0, <2>f DEF VelocityTypeOK
  <2>1. SharedTypeOK'
    BY <1>0, <2>m, <2>v DEF SharedTypeOK
  <2>2. AvoidTypeOK' /\ NeckTypeOK' /\ DetectTypeOK' /\ SprayTypeOK'
    BY <1>0, <1>7, <2>a, <2>e, AvoidFrame, NeckTypeKept, SprayFrame
       DEF DetectAim, ComputeDetectMotion
  <2>3. ControlSafe'
    BY <1>0, <1>7, <2>e, <2>f DEF DetectAim
  <2>q. QED
    BY <2>1, <2>2, <2>3 DEF ControlInv, ControlTypeOK
<1>8. CASE ApproachLost
  <2>m. ModeTypeOK'
    BY <1>0, <1>8 DEF ApproachLost, ModeTypeOK, Modes, CmdModes
  <2>v. VelocityTypeOK'
    BY <1>0, <1>8, VelocityFrame DEF ApproachLost
  <2>1. SharedTypeOK'
    BY <1>0, <2>m, <2>v DEF SharedTypeOK
  <2>2. AvoidTypeOK' /\ NeckTypeOK' /\ DetectTypeOK' /\ SprayTypeOK'
    BY <1>0, <1>8, AvoidFrame, NeckFrame, DetectFrame, SprayFrame DEF ApproachLost
  <2>3. ControlSafe'
    BY <1>0, <1>8 DEF ApproachLost
  <2>q. QED
    BY <2>1, <2>2, <2>3 DEF ControlInv, ControlTypeOK
<1>9. CASE ApproachReached
  <2>m. ModeTypeOK'
    BY <1>0, <1>9 DEF ApproachReached, ModeTypeOK, Modes, CmdModes
  <2>v. VelocityTypeOK'
    BY <1>0, <1>9, VelocityFrame DEF ApproachReached
  <2>1. SharedTypeOK'
    BY <1>0, <2>m, <2>v DEF SharedTypeOK
  <2>2. AvoidTypeOK' /\ NeckTypeOK' /\ DetectTypeOK' /\ SprayTypeOK'
    BY <1>0, <1>9, AvoidFrame, NeckFrame, DetectFrame, SprayFrame DEF ApproachReached
  <2>3. ControlSafe'
    BY <1>0, <1>9 DEF ApproachReached
  <2>q. QED
    BY <2>1, <2>2, <2>3 DEF ControlInv, ControlTypeOK
<1>10. CASE ApproachOn
  <2>a. linVel' \in {0, 525, 1050, 1500}
    BY <1>10 DEF ApproachOn, ComputeApproachMotion, ApproachSpeed, ApproachVel
  <2>b. angVel' \in -10..10
    BY <1>0, <1>10
       DEF ReadingTypeOK, ApproachOn, ComputeApproachMotion, ApproachSteer,
           Clamp, CenterCol
  <2>m. ModeTypeOK'
    BY <1>0, <1>10, <2>a, <2>b DEF ApproachOn, ModeTypeOK, Modes, CmdModes
  <2>v. VelocityTypeOK'
    BY <2>a, <2>b DEF VelocityTypeOK
  <2>1. SharedTypeOK'
    BY <1>0, <2>m, <2>v DEF SharedTypeOK
  <2>2. AvoidTypeOK' /\ NeckTypeOK' /\ DetectTypeOK' /\ SprayTypeOK'
    BY <1>0, <1>10, AvoidFrame, NeckFrame, DetectFrame, SprayFrame DEF ApproachOn
  <2>3. ControlSafe'
    BY <1>0, <1>10, <2>a DEF ApproachOn
  <2>q. QED
    BY <2>1, <2>2, <2>3 DEF ControlInv, ControlTypeOK
<1>11. CASE HandleExtinguish
  <2>a. SprayDuration \in Nat \ {0} /\ ExtinguishTry \in Nat \ {0}
    BY SprayAssumption DEF SprayAssumption
  <2>b. /\ mode' \in {"SEARCH", "EXTINGUISH", "APPROACH"}
        /\ UNCHANGED <<cmdMode, emergencyStop>>
        /\ linVel' = 0 /\ angVel' = 0
    BY <1>11 DEF HandleExtinguish
  <2>c. SprayTypeOK' /\ SprayAccounted' /\ ApproachDry'
    <3>1. CASE SpraySuccess /\ SetMode("SEARCH")
      <4>1. currentTry' \in 0..(ExtinguishTry - 1) /\ sprayElapsed' \in 0..SprayDuration
        BY <2>a, <3>1 DEF SpraySuccess, ExtinguishReset
      <4>q. QED
        BY <2>a, <3>1, <4>1, SprayStops, Zenon DEF SpraySuccess, ExtinguishReset
    <3>2. CASE SprayStart /\ SetMode("EXTINGUISH")
      BY <1>0, <2>a, <3>2, SprayStarts
    <3>3. CASE SprayOn /\ SetMode("EXTINGUISH")
      BY <1>0, <3>3, SprayFrame DEF SprayOn
    <3>4. CASE SprayEnd /\ SetMode("EXTINGUISH")
      BY <1>0, <2>a, <3>4, SprayStops DEF SprayEnd, SprayTypeOK
    <3>5. CASE SprayGiveUp /\ SetMode("APPROACH")
      <4>1. currentTry' \in 0..(ExtinguishTry - 1) /\ sprayElapsed' \in 0..SprayDuration
        BY <2>a, <3>5 DEF SprayGiveUp, ExtinguishReset
      <4>q. QED
        BY <2>a, <3>5, <4>1, SprayStops, Zenon DEF SprayGiveUp, ExtinguishReset
    <3>q. QED
      BY <1>11, <3>1, <3>2, <3>3, <3>4, <3>5 DEF HandleExtinguish, SprayInProgress
  <2>m. ModeTypeOK'
    BY <1>0, <2>b DEF ModeTypeOK, Modes, CmdModes
  <2>v. VelocityTypeOK'
    BY <1>0, <2>b DEF VelocityTypeOK
  <2>1. SharedTypeOK'
    BY <1>0, <2>m, <2>v DEF SharedTypeOK
  <2>2. AvoidTypeOK' /\ NeckTypeOK' /\ DetectTypeOK' /\ SprayTypeOK'
    BY <1>0, <1>11, <2>c, AvoidFrame, NeckFrame, DetectFrame DEF HandleExtinguish
  <2>3. ControlSafe'
    BY <1>0, <1>11, <2>b, <2>c DEF HandleExtinguish
  <2>q. QED
    BY <2>1, <2>2, <2>3 DEF ControlInv, ControlTypeOK
<1>q. QED
  BY <1>1, <1>2, <1>3, <1>4, <1>5, <1>6, <1>7, <1>8, <1>9, <1>10, <1>11 DEF Update

(***************************************************************************)
(* The other threads' steps: a reading published, a command handled, a     *)
(* second of the spray gone by.                                            *)
(***************************************************************************)
LEMMA SenseKeepsInv ==
    ASSUME ControlInv, Sense PROVE ControlInv'
<1>0. ModeTypeOK /\ VelocityTypeOK /\ ReadingTypeOK
  BY DEF ControlInv, ControlTypeOK, SharedTypeOK
<1>1. /\ ReadingTypeOK'
      /\ UNCHANGED <<mode, cmdMode, emergencyStop, velocity>>
  <2>1. CASE PublishThermal
    <3>1. PICK t \in Temps : /\ tFire' = t
                             /\ \/ hotCol' = NoHotSpot
                                \/ hotCol' \in HotCols
                             /\ UNCHANGED <<distance, mode, cmdMode,
                                            emergencyStop, velocity>>
      BY <2>1 DEF PublishThermal
    <3>2. Temps \subseteq Int /\ HotCols \subseteq 0..15
      BY SensorAssumption, Zenon DEF SensorAssumption
    <3>3. tFire' \in Int
      BY <3>1, <3>2
    <3>4. hotCol' \in 0..15 \/ hotCol' = NoHotSpot
      BY <3>1, <3>2
    <3>5. hotCol' \in NoHotSpot..15
      BY <3>4
    <3>6. ReadingTypeOK'
      BY <1>0, <3>1, <3>3, <3>5 DEF ReadingTypeOK
    <3>q. QED
      BY <3>1, <3>6
  <2>2. CASE PublishDistance
    <3>1. ReadingTypeOK'
      BY <1>0, <2>2, SensorAssumption
         DEF SensorAssumption, PublishDistance, ReadingTypeOK
    <3>q. QED
      BY <2>2, <3>1 DEF PublishDistance
  <2>q. QED
    BY <2>1, <2>2 DEF Sense
<1>2. UNCHANGED <<avoidVars, neckVars, detectVars, sprayVars>>
  BY DEF Sense
<1>3. SharedTypeOK'
  BY <1>0, <1>1, VelocityFrame DEF ModeTypeOK, SharedTypeOK
<1>q. QED
  BY <1>1, <1>2, <1>3, InvSplit, InvJoin, AvoidFrame, NeckFrame, DetectFrame,
     SprayFrame, SafeFrame
     DEF ControlTypeOK

LEMMA OperateKeepsInv ==
    ASSUME ControlInv, Operate PROVE ControlInv'
<1>1. UNCHANGED <<readings, avoidVars, neckVars, detectVars, sprayVars>>
  BY DEF Operate, Command, CmdStart, CmdStop, CmdManual, CmdExit, CmdEstop,
         CmdClearEstop, Request
<1>2. /\ AvoidTypeOK' /\ NeckTypeOK' /\ DetectTypeOK' /\ SprayTypeOK'
      /\ SharedTypeOK /\ ControlSafe
  BY <1>1, InvSplit, AvoidFrame, NeckFrame, DetectFrame, SprayFrame
     DEF ControlTypeOK
<1>3. \/ \E c \in CmdModes : Request(c)
      \/ CmdEstop
      \/ CmdClearEstop
  BY DEF Operate, Command, CmdStart, CmdStop, CmdManual, CmdExit, CmdModes
<1>4. SharedTypeOK'
  <2>0. ModeTypeOK /\ VelocityTypeOK /\ ReadingTypeOK
    BY <1>2 DEF SharedTypeOK
  <2>1. emergencyStop' \in BOOLEAN
    <3>1. \/ UNCHANGED emergencyStop
          \/ emergencyStop' = TRUE
          \/ emergencyStop' = FALSE
      BY <1>3, Zenon DEF Request, CmdEstop, CmdClearEstop
    <3>2. emergencyStop \in BOOLEAN
      BY <2>0 DEF ModeTypeOK
    <3>q. QED
      BY <3>1, <3>2, Zenon
  <2>2. /\ mode' \in Modes /\ cmdMode' \in CmdModes
        /\ linVel' \in {0, linVel} /\ angVel' \in {0, angVel}
    BY <2>0, <1>3
       DEF Request, CmdEstop, CmdClearEstop, ModeTypeOK, Modes, CmdModes
  <2>3. VelocityTypeOK'
    <3>1. linVel \in -10000..10000 /\ angVel \in -10..10
      BY <2>0, SMTT(30) DEF VelocityTypeOK
    <3>2. linVel' \in -10000..10000
      BY <2>2, <3>1
    <3>3. angVel' \in -10..10
      BY <2>2, <3>1
    <3>q. QED
      BY <3>2, <3>3, SMTT(30) DEF VelocityTypeOK
  <2>4. ReadingTypeOK'
    BY <2>0, <1>1 DEF ReadingTypeOK
  <2>q. QED
    BY <2>1, <2>2, <2>3, <2>4 DEF ModeTypeOK, SharedTypeOK
<1>5. ControlSafe'
  <2>1. CASE \E c \in CmdModes : Request(c)
    BY <1>1, <1>2, <2>1, SafeFrame DEF Request
  <2>2. CASE CmdEstop
    BY <1>1, <1>2, <2>2 DEF CmdEstop, ControlSafe, SafeStopLatched,
       HaltedStandStill, SprayAccounted, SprayAtStandstill, ApproachDry,
       AvoidanceAtRest, ReverseArcBacksOff
  <2>3. CASE CmdClearEstop
    BY <1>1, <1>2, <2>3 DEF CmdClearEstop, ControlSafe, SafeStopLatched,
       HaltedStandStill, SprayAccounted, SprayAtStandstill, ApproachDry,
       AvoidanceAtRest, ReverseArcBacksOff
  <2>q. QED
    BY <1>3, <2>1, <2>2, <2>3
<1>q. QED
  BY <1>2, <1>4, <1>5, InvJoin DEF ControlTypeOK

LEMMA ClockKeepsInv ==
    ASSUME ControlInv, ClockTick PROVE ControlInv'
<1>1. UNCHANGED <<sharedVars, avoidVars, neckVars, detectVars,
                  currentTry, spraying, pump>>
  BY DEF ClockTick, SecondPasses
<1>2. SprayTypeOK'
  <2>1. sprayElapsed' \in 0..SprayDuration
    BY SprayAssumption DEF SprayAssumption, ClockTick, SecondPasses, SprayOver,
       ControlInv, ControlTypeOK, SprayTypeOK
  <2>q. QED
    BY <1>1, <2>1 DEF ControlInv, ControlTypeOK, SprayTypeOK
<1>3. SharedTypeOK'
  BY <1>1, SharedFrame DEF ControlInv, ControlTypeOK
<1>4. AvoidTypeOK' /\ NeckTypeOK' /\ DetectTypeOK'
  BY <1>1, AvoidFrame, NeckFrame, DetectFrame DEF ControlInv, ControlTypeOK
<1>q. QED
  BY <1>1, <1>2, <1>3, <1>4, InvSplit, InvJoin, SafeFrame DEF ControlTypeOK

LEMMA InitEstablishesInv == ControlInit => ControlInv
<1> SUFFICES ASSUME ControlInit PROVE ControlInv
  OBVIOUS
<1>0. /\ emergencyStop \in BOOLEAN /\ needClearance \in BOOLEAN
      /\ spraying \in BOOLEAN
  BY Zenon DEF ControlInit, SharedInit, AvoidInit, ExtinguishInit
<1>1. SharedTypeOK
  BY <1>0
     DEF ControlInit, SharedInit, SharedTypeOK, ModeTypeOK, VelocityTypeOK,
         ReadingTypeOK, Modes, CmdModes, InitialDistance
<1>2. AvoidTypeOK
  BY <1>0, TicksAssumption
     DEF TicksAssumption, ControlInit, AvoidInit, AvoidTypeOK, AvoidStates
<1>3. NeckTypeOK
  BY DEF ControlInit, NeckInit, NeckTypeOK, TiltMin, TiltMax, PanMin, PanMax, Centre
<1>4. DetectTypeOK
  BY FramesAssumption DEF FramesAssumption, ControlInit, DetectInit, DetectTypeOK
<1>5. SprayTypeOK
  BY <1>0, SprayAssumption
     DEF SprayAssumption, ControlInit, ExtinguishInit, SprayTypeOK
<1>6. ControlSafe
  <2>1. mode = "IDLE" /\ linVel = 0 /\ angVel = 0 /\ lockCount = 0
    BY DEF ControlInit, SharedInit, DetectInit
  <2>2. SprayAccounted
    <3>1. ~spraying /\ pump # "ON"
      BY Zenon DEF ControlInit, ExtinguishInit
    <3>2. currentTry < ExtinguishTry
      BY SprayAssumption DEF SprayAssumption, ControlInit, ExtinguishInit
    <3>q. QED
      BY <3>1, <3>2, Zenon DEF SprayAccounted
  <2>q. QED
    BY <2>1, <2>2
       DEF ControlSafe, SafeStopLatched, HaltedStandStill, SprayAtStandstill,
           ApproachDry, AvoidanceAtRest, ReverseArcBacksOff
<1>q. QED
  BY <1>1, <1>2, <1>3, <1>4, <1>5, <1>6, InvSplit DEF ControlTypeOK

LEMMA ControlStutter == ASSUME ControlInv, UNCHANGED controlVars PROVE ControlInv'
<1>1. SharedTypeOK'
  BY SharedFrame DEF controlVars, ControlInv, ControlTypeOK
<1>q. QED
  BY <1>1, InvSplit, InvJoin, SafeFrame, AvoidFrame, NeckFrame, DetectFrame,
     SprayFrame
     DEF controlVars, ControlTypeOK

LEMMA ControlInvariant == ControlSpec => []ControlInv
<1>1. ControlInv /\ [ControlNext]_controlVars => ControlInv'
  BY ControlStutter, UpdateKeepsInv, SenseKeepsInv, OperateKeepsInv, ClockKeepsInv
     DEF ControlNext
<1>q. QED
  BY <1>1, InitEstablishesInv, PTL DEF ControlSpec

(***************************************************************************)
(* Every variable of the control core keeps its type, which bounds the     *)
(* commanded velocity, the lock and stability counters and the spray.      *)
(***************************************************************************)
THEOREM ControlTypeCorrect == ControlSpec => []ControlTypeOK
BY ControlInvariant, PTL DEF ControlInv

(***************************************************************************)
(* SAFE_STOP outlives no emergency stop.                                   *)
(***************************************************************************)
THEOREM SafeStopIsLatched == ControlSpec => []SafeStopLatched
BY ControlInvariant, PTL DEF ControlInv

(***************************************************************************)
(* A halted car is told to stand still, whatever it was doing.             *)
(***************************************************************************)
THEOREM HaltsStandStill == ControlSpec => []HaltedStandStill
BY ControlInvariant, PTL DEF ControlInv

(***************************************************************************)
(* The pump follows the loop's own account of it, and the number of sprays *)
(* is bounded.                                                             *)
(***************************************************************************)
THEOREM SpraysAreAccounted == ControlSpec => []SprayAccounted
BY ControlInvariant, PTL DEF ControlInv

(***************************************************************************)
(* EXTINGUISH sprays from standstill only.                                 *)
(***************************************************************************)
THEOREM SpraysFromStandstill == ControlSpec => []SprayAtStandstill
BY ControlInvariant, PTL DEF ControlInv

(***************************************************************************)
(* The avoidance machine, whose state outlives SEARCH, rests in the modes  *)
(* that drive to a fire.                                                   *)
(***************************************************************************)
THEOREM AvoidanceRests == ControlSpec => []AvoidanceAtRest
BY ControlInvariant, PTL DEF ControlInv

(***************************************************************************)
(* The commanded speed never goes from forward straight to reverse.        *)
(***************************************************************************)
LEMMA NeverStraightToReverse ==
    ASSUME ControlInv, ControlNext PROVE linVel > 0 => linVel' >= 0
<1>1. VelocityTypeOK /\ AvoidTypeOK /\ ReverseArcBacksOff
  BY DEF ControlInv, ControlTypeOK, SharedTypeOK
<1>0. linVel \in Int
  BY <1>1 DEF VelocityTypeOK
<1>2. CASE SearchOn
  BY <1>0, <1>1, <1>2, SearchMotionSafe DEF SearchOn
<1>3. CASE ApproachOn
  <2>1. linVel' \in {0, 525, 1050, 1500}
    BY <1>3 DEF ApproachOn, ComputeApproachMotion, ApproachSpeed, ApproachVel
  <2>q. QED
    BY <2>1
<1>4. CASE Update /\ ~SearchOn /\ ~ApproachOn
  <2>1. linVel' \in {0, linVel}
    BY <1>4 DEF Update, UpdateEmergency, UpdateStop, HandleHalted, SearchFound,
       DetectLost, DetectAim, ComputeDetectMotion, ApproachLost,
       ApproachReached, HandleExtinguish
  <2>q. QED
    BY <1>0, <2>1
<1>5. CASE Sense \/ Operate \/ ClockTick
  <2>1. linVel' \in {0, linVel}
    BY <1>5 DEF Sense, PublishThermal, PublishDistance, Operate, Command,
       CmdStart, CmdStop, CmdManual, CmdExit, Request, CmdEstop, CmdClearEstop,
       ClockTick
  <2>q. QED
    BY <1>0, <2>1
<1>q. QED
  BY <1>2, <1>3, <1>4, <1>5 DEF ControlNext

THEOREM BrakesBeforeReverse == ControlSpec => BrakeBeforeReverse
<1>1. ControlInv /\ [ControlNext]_controlVars
        => [linVel > 0 => linVel' >= 0]_controlVars
  BY NeverStraightToReverse
<1>q. QED
  BY <1>1, ControlInvariant, PTL DEF ControlSpec, BrakeBeforeReverse

(***************************************************************************)
(* Each action of the control core maps to one of Supervisor's or to a     *)
(* stutter; that a halted car does not move and that SAFE_STOP implies the *)
(* emergency stop are what HandleHalted needs.                             *)
(***************************************************************************)
LEMMA RequestAsks == ASSUME NEW c \in CmdModes, Request(c) PROVE Promise!Ask
<1>1. c \in {"NONE", "START", "STOP", "MANUAL"}
  BY DEF CmdModes
<1>q. QED
  BY <1>1 DEF Request, Promise!Ask, Promise!Requests

LEMMA OperateRefines == ASSUME Operate PROVE Promise!Next
<1>1. CASE \E c \in CmdModes : Request(c)
  BY <1>1, RequestAsks DEF Promise!Next
<1>2. CASE CmdEstop
  BY <1>2 DEF CmdEstop, Promise!Trip, Promise!Next
<1>3. CASE CmdClearEstop
  <2>1. (velocity # <<0, 0>>)' = FALSE
    BY <1>3 DEF CmdClearEstop
  <2>q. QED
    BY <1>3, <2>1 DEF CmdClearEstop, Promise!Clear, Promise!Next
<1>q. QED
  BY <1>1, <1>2, <1>3
     DEF Operate, Command, CmdStart, CmdStop, CmdManual, CmdExit, CmdModes

LEMMA UpdateRefines ==
    ASSUME ControlInv, Update PROVE Promise!Next \/ UNCHANGED Promise!vars
<1>0. /\ SafeStopLatched /\ HaltedStandStill
      /\ emergencyStop \in BOOLEAN /\ mode \in Modes
  BY DEF ControlInv, ControlTypeOK, SharedTypeOK, ModeTypeOK
<1>1. CASE UpdateEmergency
  <2>1. (velocity # <<0, 0>>)' = FALSE
    BY <1>1 DEF UpdateEmergency
  <2>q. QED
    BY <1>1, <2>1 DEF UpdateEmergency, Promise!Latch, Promise!Next
<1>2. CASE UpdateStop
  <2>1. (velocity # <<0, 0>>)' = FALSE
    BY <1>2 DEF UpdateStop
  <2>q. QED
    BY <1>2, <2>1 DEF UpdateStop, Promise!Halt, Promise!Next
<1>3. CASE HandleHalted
  <2>1. mode = "IDLE" /\ ~emergencyStop
    BY <1>0, <1>3 DEF HandleHalted, SafeStopLatched
  <2>2. (velocity # <<0, 0>>)' = FALSE /\ (velocity # <<0, 0>>) = FALSE
    BY <1>0, <1>3, <2>1 DEF HandleHalted, HaltedStandStill
  <2>3. CASE cmdMode = "START"
    <3>1. mode' = "SEARCH" /\ cmdMode' = "NONE" /\ emergencyStop' = emergencyStop
      BY <1>3, <2>1, <2>3 DEF HandleHalted
    <3>q. QED
      BY <2>1, <2>2, <2>3, <3>1 DEF Promise!Depart, Promise!Next
  <2>4. CASE cmdMode # "START"
    <3>1. UNCHANGED <<mode, cmdMode, emergencyStop>>
      BY <1>3, <2>1, <2>4 DEF HandleHalted
    <3>q. QED
      BY <2>2, <3>1 DEF Promise!vars
  <2>q. QED
    BY <2>3, <2>4
<1>4. CASE ~(UpdateEmergency \/ UpdateStop \/ HandleHalted)
  <2>1. /\ ~emergencyStop /\ cmdMode # "STOP"
        /\ mode \in {"SEARCH", "DETECT", "APPROACH", "EXTINGUISH"}
        /\ mode' \in {"SEARCH", "DETECT", "APPROACH", "EXTINGUISH"}
        /\ cmdMode' = cmdMode /\ emergencyStop' = emergencyStop
    BY <1>4 DEF Update, SearchFound, SearchOn, DetectLost, DetectAim,
       ApproachLost, ApproachReached, ApproachOn, HandleExtinguish
  <2>2. Promise!Drive
    BY <2>1 DEF Promise!Drive
  <2>q. QED
    BY <2>2 DEF Promise!Next
<1>q. QED
  BY <1>1, <1>2, <1>3, <1>4

LEMMA CoreStartsPromised == ASSUME ControlInit PROVE Promise!Init
<1>1. mode = "IDLE" /\ cmdMode = "NONE" /\ velocity = <<0, 0>>
  BY DEF ControlInit, SharedInit
<1>2. ~emergencyStop
  BY Zenon DEF ControlInit, SharedInit
<1>q. QED
  BY <1>1, <1>2 DEF Promise!Init

LEMMA CoreStepsPromised ==
    ASSUME ControlInv, [ControlNext]_controlVars
    PROVE  Promise!Next \/ UNCHANGED Promise!vars
<1>1. CASE Sense \/ ClockTick \/ UNCHANGED controlVars
  <2>1. UNCHANGED <<mode, cmdMode, emergencyStop, velocity>>
    BY <1>1 DEF Sense, PublishThermal, PublishDistance, ClockTick, controlVars
  <2>q. QED
    BY <2>1 DEF Promise!vars
<1>q. QED
  BY <1>1, UpdateRefines, OperateRefines DEF ControlNext

(***************************************************************************)
(* The control core keeps the promises of Supervisor: it moves only        *)
(* between a START it accepted and the STOP or emergency stop it noticed.  *)
(***************************************************************************)
THEOREM ControlKeepsPromises == ControlSpec => ImplementsSupervisor
<1>1. ControlInit => Promise!Init
  BY CoreStartsPromised
<1>2. ControlInv /\ [ControlNext]_controlVars => [Promise!Next]_(Promise!vars)
  BY CoreStepsPromised
<1>q. QED
  BY <1>1, <1>2, ControlInvariant, PTL
     DEF ControlSpec, ImplementsSupervisor, Promise!Spec
=============================================================================
