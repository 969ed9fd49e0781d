------------------------------ MODULE CarProofs ------------------------------
(***************************************************************************)
(* The whole program, for every set of readings and every constant of the  *)
(* control core: the control core's invariant survives the composition     *)
(* with the threads, and main ends the program safely.                     *)
(***************************************************************************)
EXTENDS FireDroneCar, ControlProofs, ConversionProofs

\* Where main is before the communication thread exists, or without it.
BootStages == {"sensor", "algo", "motor", "comm", "abort", "failed"}

(***************************************************************************)
(* The threads' own state.                                                 *)
(***************************************************************************)
PcTypeOK ==
    /\ mainPc \in DOMAIN NextStage \cup
                 {"arm", "loop", "join", "abort", "done", "failed", "killed"}
    /\ sensorPc \in {"none", "init", "loop", "thermal", "distance", "done", "dead"}
    /\ algoPc \in {"none", "loop", "update", "done", "dead"}
    /\ motorPc \in {"none", "loop", "read", "apply", "stop", "done", "dead"}
    /\ commPc \in {"none", "loop", "serve", "done", "dead"}

DriveTypeOK ==
    /\ snap \in Snaps /\ overtaken \in BOOLEAN
    /\ in1 \in 0..FullDuty /\ in2 \in 0..FullDuty
    /\ steer \in SteerAngles

(***************************************************************************)
(* Nothing is asked of a car whose communication thread was never created; *)
(* a motor thread that has ended has left the wheels at rest; main ends    *)
(* only after every thread it created; and a killed process has no thread. *)
(***************************************************************************)
BootQuiet ==
    mainPc \in BootStages =>
        /\ commPc = "none" /\ pump = "FOUND"
        /\ mode = "IDLE" /\ cmdMode = "NONE" /\ ~emergencyStop

NothingYet ==
    mainPc = "sensor" => sensorPc = "none" /\ algoPc = "none" /\ motorPc = "none"

RestsWhenStopped == Joinable(motorPc) => Resting

AllDead ==
    sensorPc = "dead" /\ algoPc = "dead" /\ motorPc = "dead" /\ commPc = "dead"

OverInv ==
    /\ mainPc \in {"done", "failed"} => AllJoined
    /\ Killed => AllDead

DoneDry == mainPc = "done" => pump = "OFF"
ControlWhileUp == mainPc # "done" => ControlInv

CarInv ==
    /\ ControlTypeOK /\ running \in BOOLEAN /\ PcTypeOK /\ DriveTypeOK
    /\ BootQuiet /\ NothingYet /\ RestsWhenStopped /\ OverInv /\ DoneDry
    /\ ControlWhileUp

LEMMA CarInvImplies == CarInv => CarTypeOK /\ ExitSafe
<1> SUFFICES ASSUME CarInv PROVE CarTypeOK /\ ExitSafe
  OBVIOUS
<1>1. CarTypeOK
  <2>1. ControlTypeOK /\ running \in BOOLEAN /\ PcTypeOK /\ DriveTypeOK
    BY Zenon DEF CarInv
  <2>q. QED
    BY <2>1, Zenon DEF CarTypeOK, PcTypeOK, DriveTypeOK
<1>2. ExitSafe
  <2>1. ASSUME mainPc \in {"done", "failed"} PROVE Resting
    <3>1. Joinable(motorPc)
      BY <2>1 DEF CarInv, OverInv, AllJoined
    <3>q. QED
      BY <3>1 DEF CarInv, RestsWhenStopped
  <2>2. mainPc = "done" => pump = "OFF"
    BY DEF CarInv, DoneDry
  <2>3. mainPc = "failed" => pump = "FOUND"
    BY DEF CarInv, BootQuiet, BootStages
  <2>q. QED
    BY <2>1, <2>2, <2>3 DEF ExitSafe
<1>q. QED
  BY <1>1, <1>2

(***************************************************************************)
(* The control core within the program: whatever a thread does of it is a  *)
(* step of the core, or main's clearing of the mailbox.                    *)
(***************************************************************************)
LEMMA ArmKeepsInv ==
    ASSUME ControlInv, cmdMode' = "NONE",
           UNCHANGED <<mode, emergencyStop, velocity, readings, planVars, sprayVars>>
    PROVE  ControlInv'
<1>1. ModeTypeOK' /\ VelocityTypeOK' /\ ReadingTypeOK'
  BY VelocityFrame, ReadingFrame
     DEF ControlInv, ControlTypeOK, SharedTypeOK, ModeTypeOK, CmdModes
<1>2. AvoidTypeOK' /\ NeckTypeOK' /\ DetectTypeOK' /\ SprayTypeOK'
  BY AvoidFrame, NeckFrame, DetectFrame, SprayFrame
     DEF ControlInv, ControlTypeOK, planVars
<1>3. ControlSafe'
  BY InvSplit, SafeFrame DEF planVars, sprayVars
<1>q. QED
  BY <1>1, <1>2, <1>3, InvJoin DEF ControlTypeOK, SharedTypeOK

LEMMA StutterKeepsInv == ASSUME ControlInv, UNCHANGED controlVars PROVE ControlInv'
<1>1. SharedTypeOK'
  BY SharedFrame DEF controlVars, ControlInv, ControlTypeOK
<1>q. QED
  BY <1>1, InvSplit, InvJoin, SafeFrame, AvoidFrame, NeckFrame, DetectFrame,
     SprayFrame
     DEF controlVars, ControlTypeOK, sharedVars, velocity, sprayVars
-----------------------------------------------------------------------------
LEMMA CarInitKeeps == CarInit => CarInv
<1> SUFFICES ASSUME CarInit PROVE CarInv
  OBVIOUS
<1>1. ControlInv /\ ControlTypeOK
  BY InitEstablishesInv DEF CarInit, ControlInv
<1>2. running \in BOOLEAN
  BY Zenon DEF CarInit
<1>3. PcTypeOK
  BY DEF CarInit, PcTypeOK, NextStage
<1>4. DriveTypeOK
  <2>1. snap \in Snaps
    <3>1. FALSE \in BOOLEAN
      BY Zenon
    <3>2. 0 \in LinRange /\ 0 \in AngRange
      BY SMT DEF LinRange, AngRange
    <3>q. QED
      BY <3>1, <3>2, SMT DEF CarInit, NoSnap, Snaps
  <2>2. in1 = 0 /\ in2 = 0 /\ steer = SteerCentre
    BY Zenon DEF CarInit
  <2>3. 0 \in 0..FullDuty /\ SteerCentre \in SteerAngles
    BY SMT DEF SteerCentre, FullDuty, SteerAngles
  <2>q. QED
    <3>1. overtaken \in BOOLEAN
      BY Zenon DEF CarInit
    <3>q. QED
      BY <2>1, <2>2, <2>3, <3>1, Zenon DEF DriveTypeOK
<1>5. BootQuiet
  <2>1. ~emergencyStop
    BY Zenon DEF CarInit, ControlInit, SharedInit
  <2>q. QED
    BY <2>1 DEF CarInit, ControlInit, SharedInit, ExtinguishInit, BootQuiet
<1>6. NothingYet /\ RestsWhenStopped
  BY DEF CarInit, NothingYet, RestsWhenStopped, Resting
<1>7. OverInv /\ DoneDry /\ ControlWhileUp
  BY <1>1 DEF CarInit, OverInv, Killed, DoneDry, ControlWhileUp
<1>q. QED
  BY <1>1, <1>2, <1>3, <1>4, <1>5, <1>6, <1>7 DEF CarInv

(***************************************************************************)
(* Once the program has exited no thread and no signal changes anything.   *)
(***************************************************************************)
LEMMA ExitedIsStill ==
    ASSUME CarInv, Exited, [CarNext]_carVars PROVE UNCHANGED carVars
<1>1. /\ sensorPc \in {"none", "done", "dead"} /\ algoPc \in {"none", "done", "dead"}
      /\ motorPc \in {"none", "done", "dead"} /\ commPc \in {"none", "done", "dead"}
      /\ mainPc \in {"done", "failed", "killed"}
  BY DEF CarInv, OverInv, AllJoined, AllDead, Joinable, Exited, Killed
<1>2. ~SensorThread
  BY <1>1 DEF SensorThread, SensorInit, SensorInitFails, SensorLoop,
     SensorThermal, SensorDistance, Sensor
<1>3. ~AlgoThread
  BY <1>1 DEF AlgoThread, AlgoLoop, AlgoUpdate, Algo
<1>4. ~MotorThread
  BY <1>1 DEF MotorThread, MotorLoop, MotorRead, MotorApply, MotorFinish, Motor
<1>5. ~CommThread
  BY <1>1 DEF CommThread, CommLoop, CommIdle, CommDies, CommLine,
     CommReportKills, Comm
<1>6. ~MainThread
  BY <1>1 DEF MainThread, MainCreate, MainCreateFails, MainAbort, MainArm,
     MainLeaveLoop, MainCleanUp, Main, NextStage
<1>q. QED
  BY <1>2, <1>3, <1>4, <1>5, <1>6 DEF CarNext, Signal, Clock, Terminated

(***************************************************************************)
(* What a step of another thread than main must leave alone.               *)
(***************************************************************************)
LEMMA ThreadStep ==
    ASSUME CarInv, ~Exited, mainPc' = mainPc, mainPc # "sensor",
           ControlInv', running' \in BOOLEAN, PcTypeOK', DriveTypeOK',
           BootQuiet', RestsWhenStopped'
    PROVE  CarInv'
<1>1. ControlTypeOK'
  BY DEF ControlInv
<1>2. ~Exited' /\ mainPc' # "done" /\ mainPc' # "sensor"
  BY DEF Exited
<1>q. QED
  BY <1>1, <1>2 DEF CarInv, NothingYet, OverInv, Exited, Killed, DoneDry, ControlWhileUp

\* Before the threads are created none of them steps.
LEMMA SomethingExists ==
    ASSUME CarInv, SensorThread \/ AlgoThread \/ MotorThread \/ CommThread
    PROVE  mainPc # "sensor"
<1> SUFFICES ASSUME mainPc = "sensor" PROVE FALSE
  OBVIOUS
<1>1. sensorPc = "none" /\ algoPc = "none" /\ motorPc = "none" /\ commPc = "none"
  BY DEF CarInv, NothingYet, BootQuiet, BootStages
<1>2. ~SensorThread
  BY <1>1 DEF SensorThread, SensorInit, SensorInitFails, SensorLoop,
     SensorThermal, SensorDistance, Sensor
<1>3. ~AlgoThread
  BY <1>1 DEF AlgoThread, AlgoLoop, AlgoUpdate, Algo
<1>4. ~MotorThread
  BY <1>1 DEF MotorThread, MotorLoop, MotorRead, MotorApply, MotorFinish, Motor
<1>5. ~CommThread
  BY <1>1 DEF CommThread, CommLoop, CommIdle, CommDies, CommLine,
     CommReportKills, Comm
<1>q. QED
  BY <1>2, <1>3, <1>4, <1>5

LEMMA UpFacts ==
    ASSUME CarInv, ~Exited PROVE ControlInv /\ mainPc # "done" /\ mainPc # "failed"
BY DEF CarInv, Exited, ControlWhileUp

LEMMA DriveFrame == DriveTypeOK /\ UNCHANGED <<copyVars, driveOut>> => DriveTypeOK'
BY DEF DriveTypeOK, copyVars, driveOut

LEMMA NoSnapTyped == NoSnap \in Snaps
<1>1. FALSE \in BOOLEAN
  BY Zenon
<1>2. 0 \in LinRange /\ 0 \in AngRange
  BY SMT DEF LinRange, AngRange
<1>q. QED
  BY <1>1, <1>2, SMT DEF NoSnap, Snaps

LEMMA RestFrame ==
    RestsWhenStopped /\ UNCHANGED <<motorPc, driveOut>> => RestsWhenStopped'
BY DEF RestsWhenStopped, Resting, Joinable, driveOut

(***************************************************************************)
(* Without a communication thread the car is never asked to do anything.   *)
(***************************************************************************)
LEMMA BootQuietKept ==
    ASSUME CarInv, mainPc' \in BootStages => mainPc \in BootStages, commPc' = commPc,
           UNCHANGED <<mode, cmdMode, emergencyStop, pump>>
    PROVE  BootQuiet'
BY DEF CarInv, BootQuiet

LEMMA SensorKeeps == ASSUME CarInv, ~Exited, SensorThread PROVE CarInv'
<1>1. /\ UNCHANGED <<running, mainPc, algoPc, motorPc, commPc, copyVars, driveOut>>
      /\ sensorPc' \in {"loop", "thermal", "distance", "done"}
      /\ Sense \/ UNCHANGED controlVars
  BY DEF SensorThread, SensorInit, SensorInitFails, SensorLoop, SensorThermal,
     SensorDistance, Sensor, Sense
<1>2. ControlInv'
  BY <1>1, UpFacts, SenseKeepsInv, StutterKeepsInv
<1>3. UNCHANGED <<mode, cmdMode, emergencyStop, pump>>
  BY <1>1 DEF Sense, PublishThermal, PublishDistance, controlVars, sharedVars, sprayVars
<1>4. BootQuiet'
  BY <1>1, <1>3, BootQuietKept
<1>5. PcTypeOK' /\ DriveTypeOK' /\ RestsWhenStopped'
  BY <1>1, DriveFrame, RestFrame DEF CarInv, PcTypeOK
<1>6. running' \in BOOLEAN
  BY <1>1, Zenon DEF CarInv
<1>q. QED
  BY <1>1, <1>2, <1>4, <1>5, <1>6, SomethingExists, ThreadStep

LEMMA AlgoKeeps == ASSUME CarInv, ~Exited, AlgoThread PROVE CarInv'
<1>1. /\ UNCHANGED <<running, mainPc, sensorPc, motorPc, commPc, copyVars, driveOut>>
      /\ algoPc' \in {"update", "loop", "done"}
      /\ Update \/ UNCHANGED controlVars
  BY DEF AlgoThread, AlgoLoop, AlgoUpdate, Algo
<1>2. ControlInv'
  BY <1>1, UpFacts, UpdateKeepsInv, StutterKeepsInv
<1>3. ASSUME mainPc \in BootStages
      PROVE  UNCHANGED <<mode, cmdMode, emergencyStop, pump>>
  <2>1. mode = "IDLE" /\ cmdMode = "NONE" /\ ~emergencyStop
    BY <1>3 DEF CarInv, BootQuiet
  <2>2. Update => HandleHalted
    BY <2>1 DEF Update, UpdateEmergency, UpdateStop, SearchFound, SearchOn,
       DetectLost, DetectAim, ApproachLost, ApproachReached, ApproachOn,
       HandleExtinguish, Running
  <2>3. HandleHalted => UNCHANGED <<mode, cmdMode, emergencyStop, pump>>
    BY <2>1 DEF HandleHalted, SetMode, sprayVars
  <2>q. QED
    BY <1>1, <2>2, <2>3 DEF controlVars, sharedVars, sprayVars
<1>4. BootQuiet'
  BY <1>1, <1>3 DEF CarInv, BootQuiet
<1>5. PcTypeOK' /\ DriveTypeOK' /\ RestsWhenStopped'
  BY <1>1, DriveFrame, RestFrame DEF CarInv, PcTypeOK
<1>6. running' \in BOOLEAN
  BY <1>1, Zenon DEF CarInv
<1>q. QED
  BY <1>1, <1>2, <1>4, <1>5, <1>6, SomethingExists, ThreadStep

LEMMA SpeedDrives ==
    ASSUME NEW v \in Int, MotorSetSpeed(v)
    PROVE  in1' \in 0..FullDuty /\ in2' \in 0..FullDuty
<1>1. Duty(v) \in 0..FullDuty
  BY CountsInRange, Zenon
<1>2. 0 \in 0..FullDuty
  BY SMT DEF FullDuty
<1>3. in1' \in {0, Duty(v)} /\ in2' \in {0, Duty(v)}
  BY Zenon DEF MotorSetSpeed
<1>q. QED
  BY <1>1, <1>2, <1>3, Zenon

LEMMA MotorKeeps == ASSUME CarInv, ~Exited, MotorThread PROVE CarInv'
<1>1. /\ UNCHANGED <<controlVars, running, mainPc, sensorPc, algoPc, commPc>>
      /\ motorPc' \in {"read", "stop", "apply", "loop", "done"}
  BY DEF MotorThread, MotorLoop, MotorRead, MotorApply, MotorFinish, Motor
<1>2. ControlInv'
  BY <1>1, UpFacts, StutterKeepsInv
<1>3. BootQuiet'
  BY <1>1, BootQuietKept DEF controlVars, sharedVars, sprayVars
<1>4. PcTypeOK' /\ running' \in BOOLEAN
  <2>1. running' \in BOOLEAN
    BY <1>1, Zenon DEF CarInv
  <2>q. QED
    BY <1>1, <2>1 DEF CarInv, PcTypeOK
<1>5. DriveTypeOK' /\ RestsWhenStopped'
  <2>r. 0 \in 0..FullDuty /\ SteerCentre \in SteerAngles
    BY SMT DEF SteerCentre, FullDuty, SteerAngles
  <2>s. NoSnap \in Snaps /\ FALSE \in BOOLEAN
    BY NoSnapTyped, Zenon
  <2>1. CASE MotorLoop
    <3>1. UNCHANGED <<copyVars, driveOut>> /\ motorPc' \in {"read", "stop"}
      BY <2>1, Zenon DEF MotorLoop, Motor
    <3>q. QED
      BY <3>1, DriveFrame DEF CarInv, RestsWhenStopped, Joinable
  <2>2. CASE MotorRead
    <3>1. motorPc' = "apply" /\ UNCHANGED driveOut /\ overtaken' = FALSE
          /\ snap' = [lin |-> linVel, ang |-> angVel, estop |-> emergencyStop]
      BY <2>2 DEF MotorRead, Motor
    <3>2. VelocityTypeOK /\ ModeTypeOK
      BY Zenon DEF CarInv, ControlTypeOK, SharedTypeOK
    <3>3. linVel \in LinRange /\ angVel \in AngRange
      BY <3>2, SMT DEF VelocityTypeOK, LinRange, AngRange
    <3>4. emergencyStop \in BOOLEAN
      BY <3>2, Zenon DEF ModeTypeOK
    <3>5. snap' \in Snaps
      BY <3>1, <3>3, <3>4, SMT DEF Snaps
    <3>6. DriveTypeOK'
      BY <2>s, <3>1, <3>5, Zenon DEF CarInv, DriveTypeOK, driveOut
    <3>q. QED
      BY <3>1, <3>6 DEF RestsWhenStopped, Joinable
  <2>3. CASE MotorApply
    <3>1. snap.lin \in Int /\ snap.ang \in Int
      <4>1. snap \in Snaps
        BY Zenon DEF CarInv, DriveTypeOK
      <4>q. QED
        <5>1. snap.lin \in LinRange /\ snap.ang \in AngRange
          BY <4>1, SMT DEF Snaps
        <5>2. LinRange \subseteq Int /\ AngRange \subseteq Int
          BY SMT DEF LinRange, AngRange
        <5>q. QED
          BY <5>1, <5>2, Zenon
    <3>2. motorPc' = "loop" /\ snap' = NoSnap /\ overtaken' = FALSE
      BY <2>3 DEF MotorApply, Motor
    <3>3. in1' \in 0..FullDuty /\ in2' \in 0..FullDuty
      <4>1. MotorSetSpeed(snap.lin) \/ (in1' = 0 /\ in2' = 0)
        BY <2>3, Zenon DEF MotorApply, MotorStop
      <4>2. ASSUME NEW v \in Int, MotorSetSpeed(v)
            PROVE  in1' \in 0..FullDuty /\ in2' \in 0..FullDuty
        BY <4>2, SpeedDrives, Zenon
      <4>q. QED
        BY <2>r, <3>1, <4>1, <4>2, Zenon
    <3>4. steer' \in SteerAngles
      <4> DEFINE turned == Clamp(SteerCentre + snap.ang * 45, 450, 1350)
      <4>1. turned \in SteerAngles
        <5>1. SteerCentre + snap.ang * 45 \in Int
          BY <3>1, SMT DEF SteerCentre
        <5>2. ASSUME NEW x \in Int PROVE Clamp(x, 450, 1350) \in SteerAngles
          BY SMT DEF Clamp, SteerAngles
        <5>q. QED
          BY <5>1, <5>2, SMT
      <4>2. steer' = SteerCentre \/ steer' = turned
        BY <2>3, SMT DEF MotorApply
      <4> HIDE DEF turned
      <4>q. QED
        BY <2>r, <4>1, <4>2, Zenon
    <3>q. QED
      BY <2>s, <3>2, <3>3, <3>4, Zenon DEF DriveTypeOK, RestsWhenStopped, Joinable
  <2>4. CASE MotorFinish
    <3>1. Resting' /\ UNCHANGED <<snap, overtaken>>
      BY <2>4, Zenon DEF MotorFinish, MotorStop, Resting, copyVars
    <3>2. DriveTypeOK'
      BY <2>r, <3>1, Zenon DEF CarInv, DriveTypeOK, Resting
    <3>q. QED
      BY <3>1, <3>2 DEF RestsWhenStopped
  <2>q. QED
    BY <2>1, <2>2, <2>3, <2>4 DEF MotorThread
<1>q. QED
  BY <1>1, <1>2, <1>3, <1>4, <1>5, SomethingExists, ThreadStep

LEMMA KillKeeps == ASSUME CarInv, ~Exited, CommReportKills PROVE CarInv'
<1>1. /\ mainPc' = "killed" /\ AllDead' /\ snap' = NoSnap /\ overtaken' = FALSE
      /\ running' = FALSE /\ UNCHANGED <<controlVars, driveOut>>
  BY DEF CommReportKills, AllDead
<1>2. ControlInv' /\ ControlTypeOK'
  <2>1. ControlInv'
    BY <1>1, UpFacts, StutterKeepsInv
  <2>q. QED
    BY <2>1 DEF ControlInv
<1>3. PcTypeOK'
  BY <1>1 DEF PcTypeOK, AllDead
<1>4. DriveTypeOK'
  <2>1. overtaken' \in BOOLEAN
    BY <1>1, Zenon
  <2>q. QED
    BY <1>1, <2>1, NoSnapTyped, Zenon DEF CarInv, DriveTypeOK, driveOut
<1>5. BootQuiet' /\ NothingYet' /\ RestsWhenStopped' /\ OverInv' /\ DoneDry'
  BY <1>1 DEF BootQuiet, BootStages, NothingYet, RestsWhenStopped, Joinable,
     OverInv, AllDead, DoneDry
<1>6. running' \in BOOLEAN
  BY <1>1, Zenon DEF CarInv
<1>q. QED
  BY <1>2, <1>3, <1>4, <1>5, <1>6 DEF CarInv, ControlWhileUp

LEMMA CommKeeps == ASSUME CarInv, ~Exited, CommThread PROVE CarInv'
<1>0. CASE CommReportKills
  BY <1>0, KillKeeps
<1> SUFFICES ASSUME CommLoop \/ CommIdle \/ CommDies \/ CommLine PROVE CarInv'
  BY <1>0 DEF CommThread
<1>1. /\ UNCHANGED <<mainPc, sensorPc, algoPc, motorPc, snap, driveOut>>
      /\ commPc # "none" /\ commPc' \in {"loop", "serve", "done"}
      /\ Operate \/ UNCHANGED controlVars
      /\ running' = running \/ running' = FALSE
  BY DEF CommLoop, CommIdle, CommDies, CommLine, Comm, Operate, Command
<1>2. ControlInv'
  BY <1>1, UpFacts, OperateKeepsInv, StutterKeepsInv
<1>3. BootQuiet'
  BY <1>1 DEF CarInv, BootQuiet
<1>4. PcTypeOK' /\ RestsWhenStopped'
  BY <1>1, RestFrame DEF CarInv, PcTypeOK
<1>5. running' \in BOOLEAN
  BY <1>1, Zenon DEF CarInv
<1>6. overtaken' \in BOOLEAN
  <2>1. CASE CommLine
    BY <2>1, Zenon DEF CommLine
  <2>2. CASE CommLoop \/ CommIdle \/ CommDies
    <3>1. overtaken' = overtaken
      BY <2>2, Zenon DEF CommLoop, CommIdle, CommDies
    <3>q. QED
      BY <3>1, Zenon DEF CarInv, DriveTypeOK
  <2>q. QED
    BY <2>1, <2>2
<1>7. DriveTypeOK'
  BY <1>1, <1>6, Zenon DEF CarInv, DriveTypeOK, driveOut
<1>q. QED
  BY <1>1, <1>2, <1>3, <1>4, <1>5, <1>7, SomethingExists, ThreadStep
     DEF CommThread

(***************************************************************************)
(* main itself, the signals and the clock.                                 *)
(***************************************************************************)
LEMMA CreateKeeps ==
    ASSUME CarInv, ~Exited, MainCreate \/ MainCreateFails PROVE CarInv'
<1>0. mainPc \in {"sensor", "algo", "motor", "comm"}
  BY DEF MainCreate, MainCreateFails, NextStage
<1>1. UNCHANGED <<controlVars, copyVars, driveOut>>
  BY DEF MainCreate, MainCreateFails
<1>2. ControlInv' /\ ControlTypeOK'
  <2>1. ControlInv'
    BY <1>1, UpFacts, StutterKeepsInv
  <2>q. QED
    BY <2>1 DEF ControlInv
<1>3. running' \in BOOLEAN
  BY Zenon DEF CarInv, MainCreate, MainCreateFails
<1>4. DriveTypeOK'
  BY <1>1, DriveFrame DEF CarInv
<1>5. mode = "IDLE" /\ cmdMode = "NONE" /\ ~emergencyStop /\ pump = "FOUND" /\ commPc = "none"
  BY <1>0 DEF CarInv, BootQuiet, BootStages
<1>6. UNCHANGED <<mode, cmdMode, emergencyStop, pump>>
  BY <1>1 DEF controlVars, sharedVars, sprayVars
<1>7. CASE MainCreate
  <2>1. mainPc' \in {"algo", "motor", "comm", "arm"} /\ Created(mainPc)
        /\ (mainPc' = "arm" <=> mainPc = "comm")
    BY <1>0, <1>7 DEF MainCreate, NextStage
  <2>2. PcTypeOK'
    BY <2>1 DEF CarInv, PcTypeOK, Created, NextStage
  <2>3. BootQuiet'
    BY <1>0, <1>5, <1>6, <2>1 DEF BootQuiet, BootStages, Created
  <2>4. RestsWhenStopped'
    <3>1. motorPc' \in {motorPc, "loop"}
      BY <2>1, Zenon DEF Created
    <3>q. QED
      BY <1>1, <3>1 DEF CarInv, RestsWhenStopped, Resting, Joinable, driveOut
  <2>5. mainPc' # "sensor" /\ ~Exited'
    BY <2>1 DEF Exited
  <2>q. QED
    BY <1>2, <1>3, <1>4, <2>2, <2>3, <2>4, <2>5
       DEF CarInv, NothingYet, OverInv, Killed, DoneDry, ControlWhileUp, Exited
<1>8. CASE MainCreateFails
  <2>1. /\ mainPc' = IF mainPc = "sensor" THEN "failed" ELSE "abort"
        /\ UNCHANGED <<sensorPc, algoPc, motorPc, commPc>>
    BY <1>8 DEF MainCreateFails
  <2>2. PcTypeOK'
    BY <2>1 DEF CarInv, PcTypeOK, NextStage
  <2>3. BootQuiet'
    BY <1>5, <1>6, <2>1 DEF BootQuiet
  <2>4. RestsWhenStopped'
    BY <1>1, <2>1, RestFrame DEF CarInv
  <2>5. OverInv'
    <3>1. CASE mainPc = "sensor"
      BY <1>5, <2>1, <3>1 DEF CarInv, NothingYet, OverInv, Killed, AllJoined, Joinable
    <3>2. CASE mainPc # "sensor"
      BY <2>1, <3>2 DEF OverInv, Killed
    <3>q. QED
      BY <3>1, <3>2
  <2>6. mainPc' # "sensor" /\ mainPc' # "done"
    BY <2>1
  <2>q. QED
    BY <1>2, <1>3, <1>4, <2>2, <2>3, <2>4, <2>5, <2>6
       DEF CarInv, NothingYet, DoneDry, ControlWhileUp
<1>q. QED
  BY <1>7, <1>8

LEMMA MainKeeps ==
    ASSUME CarInv, ~Exited, MainAbort \/ MainArm \/ MainLeaveLoop PROVE CarInv'
<1>1. /\ UNCHANGED <<sensorPc, algoPc, motorPc, commPc, copyVars, running, driveOut>>
      /\ UNCHANGED <<mode, emergencyStop, velocity, readings, planVars, sprayVars>>
      /\ cmdMode' = cmdMode \/ cmdMode' = "NONE"
  BY DEF MainAbort, MainArm, MainLeaveLoop, Elsewhere, controlVars, sharedVars,
     planVars
<1>2. /\ mainPc' \in {"failed", "loop", "join"}
      /\ mainPc' = "failed" => mainPc = "abort" /\ AllJoined
  BY DEF MainAbort, MainArm, MainLeaveLoop, Main
<1>3. ControlInv' /\ ControlTypeOK'
  <2>1. cmdMode' = cmdMode => UNCHANGED controlVars
    BY <1>1 DEF controlVars, sharedVars, planVars
  <2>2. ControlInv'
    BY <1>1, <2>1, UpFacts, StutterKeepsInv, ArmKeepsInv
  <2>q. QED
    BY <2>2 DEF ControlInv
<1>4. PcTypeOK'
  BY <1>1, <1>2 DEF CarInv, PcTypeOK
<1>5. DriveTypeOK' /\ RestsWhenStopped'
  BY <1>1, DriveFrame, RestFrame DEF CarInv
<1>6. BootQuiet'
  BY <1>1, <1>2 DEF CarInv, BootQuiet, BootStages, sprayVars
<1>7. OverInv'
  BY <1>1, <1>2 DEF OverInv, Killed, AllJoined
<1>8. running' \in BOOLEAN
  BY <1>1, Zenon DEF CarInv
<1>9. mainPc' # "sensor" /\ mainPc' # "done"
  BY <1>2
<1>q. QED
  BY <1>3, <1>4, <1>5, <1>6, <1>7, <1>8, <1>9
     DEF CarInv, NothingYet, DoneDry, ControlWhileUp

LEMMA CleanUpKeeps == ASSUME CarInv, ~Exited, MainCleanUp PROVE CarInv'
<1>1. /\ mainPc' = "done" /\ AllJoined /\ pump' = "OFF" /\ Resting'
      /\ UNCHANGED <<sensorPc, algoPc, motorPc, commPc, copyVars, running>>
      /\ UNCHANGED <<sharedVars, planVars, currentTry, spraying, sprayElapsed>>
  BY DEF MainCleanUp, Main, Elsewhere, MotorStop, Resting
<1>2. ControlTypeOK'
  <2>1. /\ SharedTypeOK /\ AvoidTypeOK /\ NeckTypeOK /\ DetectTypeOK /\ SprayTypeOK
    BY DEF CarInv, ControlTypeOK
  <2>2. SprayTypeOK'
    BY <1>1, <2>1 DEF SprayTypeOK
  <2>q. QED
    BY <1>1, <2>1, <2>2, SharedFrame, AvoidFrame, NeckFrame, DetectFrame
       DEF ControlTypeOK, planVars
<1>3. PcTypeOK'
  BY <1>1 DEF CarInv, PcTypeOK
<1>4. DriveTypeOK'
  <2>1. 0 \in 0..FullDuty /\ SteerCentre \in SteerAngles
    BY SMT DEF SteerCentre, FullDuty, SteerAngles
  <2>q. QED
    BY <1>1, <2>1, Zenon DEF CarInv, DriveTypeOK, Resting, copyVars
<1>5. OverInv'
  BY <1>1 DEF OverInv, Killed, AllJoined
<1>6. running' \in BOOLEAN
  BY <1>1, Zenon DEF CarInv
<1>q. QED
  BY <1>1, <1>2, <1>3, <1>4, <1>5, <1>6
     DEF CarInv, BootQuiet, BootStages, NothingYet, RestsWhenStopped, DoneDry,
         ControlWhileUp

LEMMA OutsideKeeps == ASSUME CarInv, ~Exited, Signal \/ Clock PROVE CarInv'
<1>1. /\ UNCHANGED <<threadVars, copyVars, driveOut>>
      /\ running' = running \/ running' = FALSE
      /\ ClockTick \/ UNCHANGED controlVars
  BY DEF Signal, Clock
<1>2. UNCHANGED <<mainPc, sensorPc, algoPc, motorPc, commPc>>
  BY <1>1 DEF threadVars
<1>3. ControlInv' /\ ControlTypeOK'
  <2>1. ControlInv'
    BY <1>1, UpFacts, ClockKeepsInv, StutterKeepsInv
  <2>q. QED
    BY <2>1 DEF ControlInv
<1>4. UNCHANGED <<mode, cmdMode, emergencyStop, pump>>
  BY <1>1 DEF ClockTick, SecondPasses, controlVars, sharedVars, sprayVars
<1>5. BootQuiet'
  BY <1>2, <1>4, BootQuietKept
<1>6. PcTypeOK' /\ DriveTypeOK' /\ RestsWhenStopped'
  BY <1>1, <1>2, DriveFrame, RestFrame DEF CarInv, PcTypeOK
<1>7. running' \in BOOLEAN
  BY <1>1, Zenon DEF CarInv
<1>8. NothingYet' /\ ~Exited'
  BY <1>2 DEF CarInv, NothingYet, Exited
<1>q. QED
  BY <1>3, <1>5, <1>6, <1>7, <1>8
     DEF CarInv, OverInv, Killed, DoneDry, ControlWhileUp, Exited

LEMMA CarStep == CarInv /\ [CarNext]_carVars => CarInv'
<1> SUFFICES ASSUME CarInv, [CarNext]_carVars PROVE CarInv'
  OBVIOUS
<1>1. CASE UNCHANGED carVars
  <2>1. UNCHANGED <<controlVars, running, mainPc, sensorPc, algoPc, motorPc,
                    commPc, copyVars, driveOut>>
    BY <1>1 DEF carVars, threadVars
  <2>2. UNCHANGED <<mode, cmdMode, emergencyStop, pump>>
    BY <2>1 DEF controlVars, sharedVars, sprayVars
  <2>3. BootQuiet' /\ PcTypeOK' /\ DriveTypeOK' /\ RestsWhenStopped'
    BY <2>1, <2>2, BootQuietKept, DriveFrame, RestFrame DEF CarInv, PcTypeOK
  <2>4. ControlTypeOK'
    BY <2>1, SharedFrame, AvoidFrame, NeckFrame, DetectFrame, SprayFrame
       DEF CarInv, ControlTypeOK, controlVars
  <2>5. ControlWhileUp'
    BY <2>1, StutterKeepsInv DEF CarInv, ControlWhileUp
  <2>6. running' \in BOOLEAN
    BY <2>1, Zenon DEF CarInv
  <2>7. NothingYet' /\ OverInv' /\ DoneDry'
    BY <2>1, <2>2 DEF CarInv, NothingYet, OverInv, DoneDry, Killed, AllJoined, AllDead
  <2>q. QED
    BY <2>3, <2>4, <2>5, <2>6, <2>7 DEF CarInv
<1>2. CASE Exited
  BY <1>1, <1>2, ExitedIsStill
<1>3. CASE ~Exited /\ CarNext
  <2>1. MainThread => CarInv'
    BY <1>3, CreateKeeps, MainKeeps, CleanUpKeeps DEF MainThread
  <2>2. ~Terminated
    BY <1>3 DEF Terminated
  <2>q. QED
    BY <1>3, <2>1, <2>2, SensorKeeps, AlgoKeeps, MotorKeeps, CommKeeps, OutsideKeeps
       DEF CarNext
<1>q. QED
  BY <1>1, <1>2, <1>3

LEMMA CarInvariant == CarSpec => []CarInv
BY CarInitKeeps, CarStep, PTL DEF CarSpec
-----------------------------------------------------------------------------
(***************************************************************************)
(* Every variable of the program keeps its type: the duties fit the PWM    *)
(* chip and the steering never leaves 45 to 135 degrees.                   *)
(***************************************************************************)
THEOREM CarTypeCorrect == CarSpec => []CarTypeOK
<1>1. CarInv => CarTypeOK
  BY CarInvImplies
<1>q. QED
  BY <1>1, CarInvariant, PTL

(***************************************************************************)
(* When main ends the program, at whatever moment a signal arrives, the    *)
(* wheels are left unpowered and centred and the pump off; when a thread   *)
(* cannot be created, the wheels are, and the pump as it was found.        *)
(***************************************************************************)
THEOREM ExitIsSafe == CarSpec => []ExitSafe
<1>1. CarInv => ExitSafe
  BY CarInvImplies
<1>q. QED
  BY <1>1, CarInvariant, PTL

(***************************************************************************)
(* The safety properties of the control core hold of the whole program, as *)
(* long as main has not made safe: main's late clearing of the mailbox and *)
(* the threads' ends break none of them.                                   *)
(***************************************************************************)
THEOREM ControlHoldsInCar == CarSpec => [](mainPc # "done" => ControlInv)
<1>1. CarInv => (mainPc # "done" => ControlInv)
  BY DEF CarInv, ControlWhileUp
<1>q. QED
  BY <1>1, CarInvariant, PTL

(***************************************************************************)
(* A copy that no stop has overtaken holds a stop that is in force.        *)
(***************************************************************************)
CopyInv == motorPc = "apply" /\ emergencyStop /\ ~overtaken => snap.estop

LEMMA CopyStep == CopyInv /\ [CarNext]_carVars => CopyInv'
<1> SUFFICES ASSUME CopyInv, [CarNext]_carVars,
                    motorPc' = "apply", emergencyStop', ~overtaken'
             PROVE  snap'.estop
  BY DEF CopyInv
<1>1. CASE motorPc = "apply" /\ UNCHANGED <<snap, overtaken, emergencyStop>>
  BY <1>1 DEF CopyInv
<1>2. CASE MotorThread
  <2>1. MotorRead
    BY <1>2 DEF MotorThread, MotorLoop, MotorRead, MotorApply, MotorFinish, Motor
  <2>2. snap'.estop = emergencyStop /\ UNCHANGED emergencyStop
    BY <2>1 DEF MotorRead, Motor, controlVars, sharedVars
  <2>q. QED
    BY <2>2
<1>3. CASE MainThread
  BY <1>1, <1>3 DEF MainThread, MainCreate, MainCreateFails, MainAbort,
     MainArm, MainLeaveLoop, MainCleanUp, Created, Elsewhere, NextStage, copyVars,
     controlVars, sharedVars
<1>4. CASE SensorThread
  BY <1>1, <1>4 DEF SensorThread, SensorInit, SensorInitFails, SensorLoop,
     SensorThermal, SensorDistance, Sensor, PublishThermal, PublishDistance,
     copyVars, controlVars, sharedVars
<1>5. CASE AlgoThread
  <2>1. UNCHANGED <<motorPc, snap, overtaken>>
    BY <1>5 DEF AlgoThread, AlgoLoop, AlgoUpdate, Algo, copyVars
  <2>2. UNCHANGED emergencyStop
    BY <1>5 DEF AlgoThread, AlgoLoop, AlgoUpdate, controlVars, sharedVars, Update,
       UpdateEmergency, UpdateStop, HandleHalted, SearchFound, SearchOn,
       DetectLost, DetectAim, ApproachLost, ApproachReached, ApproachOn,
       HandleExtinguish, SetMode
  <2>q. QED
    BY <1>1, <2>1, <2>2
<1>6. CASE CommThread
  <2>1. CASE CommLoop \/ CommIdle \/ CommDies \/ CommReportKills
    BY <1>1, <2>1 DEF CommLoop, CommIdle, CommDies, CommReportKills, Comm,
       controlVars, sharedVars
  <2>2. CASE CommLine
    <3>1. motorPc = "apply" /\ UNCHANGED snap
      BY <2>2 DEF CommLine, Comm
    <3>3. ~overtaken /\ ~EstopRaised
      <4>1. overtaken' = (overtaken \/ (motorPc = "apply" /\ EstopRaised))
        BY <2>2, Zenon DEF CommLine
      <4>q. QED
        BY <3>1, <4>1, Zenon
    <3>2. emergencyStop
      BY <3>3, Zenon DEF EstopRaised
    <3>q. QED
      BY <3>1, <3>2, <3>3 DEF CopyInv
  <2>q. QED
    BY <1>6, <2>1, <2>2 DEF CommThread
<1>7. CASE Signal \/ Clock \/ Terminated \/ UNCHANGED carVars
  BY <1>1, <1>7 DEF Signal, Clock, ClockTick, Terminated, carVars, threadVars,
     copyVars, controlVars, sharedVars
<1>q. QED
  BY <1>2, <1>3, <1>4, <1>5, <1>6, <1>7 DEF CarNext

LEMMA EstopDrivesToRest ==
    ASSUME [CarNext]_carVars, CopyInv, emergencyStop, ~overtaken
    PROVE  Resting' \/ UNCHANGED driveOut
<1>1. CASE MotorThread
  <2>1. CASE MotorApply
    <3>1. snap.estop
      BY <2>1 DEF MotorApply, Motor, CopyInv
    <3>q. QED
      BY <2>1, <3>1 DEF MotorApply, MotorStop, Resting
  <2>q. QED
    BY <1>1, <2>1 DEF MotorThread, MotorLoop, MotorRead, MotorFinish, MotorStop,
       Resting
<1>2. CASE MainThread
  BY <1>2 DEF MainThread, MainCreate, MainCreateFails, MainAbort, MainArm,
     MainLeaveLoop, MainCleanUp, MotorStop, Resting
<1>3. CASE SensorThread \/ AlgoThread \/ CommThread
  BY <1>3 DEF SensorThread, SensorInit, SensorInitFails, SensorLoop,
     SensorThermal, SensorDistance, Sensor, AlgoThread, AlgoLoop, AlgoUpdate,
     Algo, CommThread, CommLoop, CommIdle, CommDies, CommLine, CommReportKills,
     Comm
<1>4. CASE Signal \/ Clock \/ Terminated \/ UNCHANGED carVars
  BY <1>4 DEF Signal, Clock, Terminated, carVars
<1>q. QED
  BY <1>1, <1>2, <1>3, <1>4 DEF CarNext

(***************************************************************************)
(* While the emergency stop is in force the motor thread drives to rest    *)
(* only, but for a copy that the stop overtook: every copy taken since     *)
(* holds the stop, through any clearing and raising of it in between.      *)
(***************************************************************************)
THEOREM EstopHoldsWheels == CarSpec => NoRestartUnderEstop
<1>1. CarInit => CopyInv
  BY DEF CarInit, ControlInit, SharedInit, CopyInv
<1>2. CopyInv /\ [CarNext]_carVars
        => [emergencyStop /\ ~overtaken => Resting' \/ UNCHANGED driveOut]_carVars
  BY EstopDrivesToRest
<1>q. QED
  BY <1>1, <1>2, CopyStep, PTL DEF CarSpec, NoRestartUnderEstop
-----------------------------------------------------------------------------
(***************************************************************************)
(* What the program's steps do to the shared state: nothing, a step of the *)
(* control core on a state that satisfies its invariant, or main's late    *)
(* clearing of the mailbox.                                                *)
(***************************************************************************)
LEMMA SharedSteps ==
    ASSUME CarInv, [CarNext]_carVars
    PROVE  \/ UNCHANGED sharedVars
           \/ ControlInv /\ ControlNext
           \/ cmdMode' = "NONE" /\ UNCHANGED <<mode, emergencyStop, velocity>>
<1>1. CASE Exited \/ UNCHANGED carVars
  BY <1>1, ExitedIsStill DEF carVars, controlVars
<1>2. CASE ~Exited /\ CarNext
  <2>0. ControlInv
    BY <1>2, UpFacts
  <2>1. CASE SensorThread
    <3>1. Sense \/ UNCHANGED controlVars
      BY <2>1 DEF SensorThread, SensorInit, SensorInitFails, SensorLoop,
         SensorThermal, SensorDistance, Sense
    <3>q. QED
      BY <2>0, <3>1 DEF ControlNext, controlVars
  <2>2. CASE AlgoThread
    <3>1. Update \/ UNCHANGED controlVars
      BY <2>2 DEF AlgoThread, AlgoLoop, AlgoUpdate
    <3>q. QED
      BY <2>0, <3>1 DEF ControlNext, controlVars
  <2>3. CASE MotorThread
    BY <2>3 DEF MotorThread, MotorLoop, MotorRead, MotorApply, MotorFinish, Motor,
       controlVars
  <2>4. CASE CommThread
    <3>1. Operate \/ UNCHANGED controlVars
      BY <2>4 DEF CommThread, CommLoop, CommIdle, CommDies, CommLine,
         CommReportKills, Operate, Command
    <3>q. QED
      BY <2>0, <3>1 DEF ControlNext, controlVars
  <2>5. CASE MainThread
    BY <2>5 DEF MainThread, MainCreate, MainCreateFails, MainAbort, MainArm,
       MainLeaveLoop, MainCleanUp, controlVars
  <2>6. CASE Signal \/ Clock \/ Terminated
    BY <2>6 DEF Signal, Clock, Terminated, ClockTick, carVars, controlVars
  <2>q. QED
    BY <1>2, <2>1, <2>2, <2>3, <2>4, <2>5, <2>6 DEF CarNext
<1>q. QED
  BY <1>1, <1>2

(***************************************************************************)
(* The whole program keeps the operator's promises: no order of the        *)
(* threads, no signal and no failed creation lets the car be sent off but  *)
(* by an accepted START, or an emergency stop be left but by clearing it.  *)
(***************************************************************************)
THEOREM CarKeepsPromises == CarSpec => ImplementsSupervisor
<1>1. CarInit => Promise!Init
  <2> SUFFICES ASSUME CarInit PROVE Promise!Init
    OBVIOUS
  <2>1. ControlInit
    BY DEF CarInit
  <2>q. QED
    BY <2>1, CoreStartsPromised
<1>2. CarInv /\ [CarNext]_carVars => [Promise!Next]_(Promise!vars)
  <2> SUFFICES ASSUME CarInv, [CarNext]_carVars
               PROVE  Promise!Next \/ UNCHANGED Promise!vars
    OBVIOUS
  <2>1. CASE UNCHANGED sharedVars
    BY <2>1 DEF sharedVars, Promise!vars
  <2>2. CASE ControlInv /\ ControlNext
    BY <2>2, CoreStepsPromised
  <2>3. CASE cmdMode' = "NONE" /\ UNCHANGED <<mode, emergencyStop, velocity>>
    <3>1. Promise!Ask
      BY <2>3 DEF Promise!Ask, Promise!Requests
    <3>q. QED
      BY <3>1 DEF Promise!Next
  <2>q. QED
    BY <2>1, <2>2, <2>3, SharedSteps
<1>q. QED
  BY <1>1, <1>2, CarInvariant, PTL DEF CarSpec, ImplementsSupervisor, Promise!Spec

(***************************************************************************)
(* In the whole program too the commanded speed never goes from forward    *)
(* straight to reverse.                                                    *)
(***************************************************************************)
THEOREM CarBrakesBeforeReverse == CarSpec => BrakeBeforeReverse
<1>1. CarInv /\ [CarNext]_carVars => [linVel > 0 => linVel' >= 0]_controlVars
  <2> SUFFICES ASSUME CarInv, [CarNext]_carVars, linVel > 0 PROVE linVel' >= 0
    OBVIOUS
  <2>1. linVel \in Int
    BY DEF CarInv, ControlTypeOK, SharedTypeOK, VelocityTypeOK
  <2>2. linVel' = linVel \/ (ControlInv /\ ControlNext)
    BY SharedSteps DEF sharedVars, velocity
  <2>3. CASE linVel' = linVel
    BY <2>1, <2>3
  <2>4. CASE ControlInv /\ ControlNext
    BY <2>4, NeverStraightToReverse
  <2>q. QED
    BY <2>2, <2>3, <2>4
<1>q. QED
  BY <1>1, CarInvariant, PTL DEF CarSpec, BrakeBeforeReverse
=============================================================================
