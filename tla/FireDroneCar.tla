---------------------------- MODULE FireDroneCar ----------------------------
(***************************************************************************)
(* The whole program (main.c): main creates the sensor, algorithm, motor   *)
(* and communication threads, and every thread runs its own loop, reading  *)
(* the running flag, taking the mutex for a critical section of Control    *)
(* and acting on the hardware outside it.                                  *)
(*                                                                         *)
(* The shared state is touched inside critical sections only, so a section *)
(* is one step; what a thread carries out of one (the motor thread's copy  *)
(* of the velocities, a loop test already passed) is state of its own.     *)
(***************************************************************************)
EXTENDS Control, Outputs

VARIABLES
    running,                              \* g_running
    mainPc, sensorPc, algoPc, motorPc, commPc,
    snap,                                 \* the motor thread's local copies
    overtaken,                            \* history: an ESTOP came after the copy
    in1, in2, steer                       \* what the PCA9685 drives

Threads == <<"sensor", "algo", "motor", "comm">>
NoSnap == [lin |-> 0, ang |-> 0, estop |-> FALSE]

threadVars == <<mainPc, sensorPc, algoPc, motorPc, commPc>>
driveOut == <<in1, in2, steer>>
copyVars == <<snap, overtaken>>
carVars == <<controlVars, running, threadVars, copyVars, driveOut>>

\* The point at which main starts to create threads: the hardware has been
\* initialised, with the motor stopped and the steering centred; the pump is
\* as the run found it.
CarInit ==
    /\ ControlInit
    /\ running = TRUE
    /\ mainPc = "sensor"
    /\ sensorPc = "none" /\ algoPc = "none" /\ motorPc = "none" /\ commPc = "none"
    /\ snap = NoSnap /\ overtaken = FALSE
    /\ in1 = 0 /\ in2 = 0 /\ steer = SteerCentre

MotorStop == in1' = 0 /\ in2' = 0

MotorSetSpeedUnlessZero(v) ==
    /\ in1' = IF v > 0 THEN Duty(v) ELSE IF v = 0 THEN in1 ELSE 0
    /\ in2' = IF v < 0 THEN Duty(v) ELSE IF v = 0 THEN in2 ELSE 0

\* motor_set_speed turns off one input of the bridge and drives the other.
MotorSetSpeed(v) ==
    /\ in1' = IF v > 0 THEN Duty(v) ELSE 0
    /\ in2' = IF v < 0 THEN Duty(v) ELSE 0
-----------------------------------------------------------------------------
(* The sensor thread.  A read either publishes or fails; ultrasonic_init   *)
(* may fail, and then the thread ends at once.                             *)
Sensor(from, to) ==
    /\ sensorPc = from /\ sensorPc' = to
    /\ UNCHANGED <<running, mainPc, algoPc, motorPc, commPc, copyVars, driveOut>>

SensorInit == Sensor("init", "loop") /\ UNCHANGED controlVars
SensorInitFails == Sensor("init", "done") /\ UNCHANGED controlVars
SensorLoop == Sensor("loop", IF running THEN "thermal" ELSE "done")
              /\ UNCHANGED controlVars
SensorThermal ==
    /\ Sensor("thermal", "distance")
    /\ \/ PublishThermal /\ UNCHANGED <<planVars, sprayVars>>
       \/ UNCHANGED controlVars
SensorDistance ==
    /\ Sensor("distance", "loop")
    /\ \/ PublishDistance /\ UNCHANGED <<planVars, sprayVars>>
       \/ UNCHANGED controlVars

SensorThread ==
    SensorInit \/ SensorInitFails \/ SensorLoop \/ SensorThermal \/ SensorDistance
-----------------------------------------------------------------------------
(* The algorithm thread.                                                   *)
Algo(from, to) ==
    /\ algoPc = from /\ algoPc' = to
    /\ UNCHANGED <<running, mainPc, sensorPc, motorPc, commPc, copyVars, driveOut>>

AlgoLoop == Algo("loop", IF running THEN "update" ELSE "done")
            /\ UNCHANGED controlVars
AlgoUpdate == Algo("update", "loop") /\ Update

AlgoThread == AlgoLoop \/ AlgoUpdate
-----------------------------------------------------------------------------
(* The motor thread copies the command under the mutex and drives the      *)
(* hardware from the copy after releasing it.  overtaken records that an   *)
(* emergency stop was raised in between; the code keeps no such record.    *)
Motor(from, to) ==
    /\ motorPc = from /\ motorPc' = to
    /\ UNCHANGED <<controlVars, running, mainPc, sensorPc, algoPc, commPc>>

MotorLoop == Motor("loop", IF running THEN "read" ELSE "stop")
             /\ UNCHANGED <<copyVars, driveOut>>

MotorReadNoEstop ==
    /\ Motor("read", "apply")
    /\ snap' = [NoSnap EXCEPT !.lin = linVel, !.ang = angVel]
    /\ overtaken' = FALSE
    /\ UNCHANGED driveOut

MotorRead ==
    /\ Motor("read", "apply")
    /\ snap' = [lin |-> linVel, ang |-> angVel, estop |-> emergencyStop]
    /\ overtaken' = FALSE
    /\ UNCHANGED driveOut

MotorApplyBlind ==
    /\ Motor("apply", "loop")
    /\ snap' = NoSnap /\ overtaken' = FALSE
    /\ MotorSetSpeed(snap.lin)
    /\ steer' = Clamp(SteerCentre + snap.ang * 45, 450, 1350)

MotorApplySkips ==
    /\ Motor("apply", "loop")
    /\ snap' = NoSnap /\ overtaken' = FALSE
    /\ IF snap.estop
       THEN UNCHANGED driveOut
       ELSE MotorSetSpeed(snap.lin)
            /\ steer' = Clamp(SteerCentre + snap.ang * 45, 450, 1350)

MotorApply ==
    /\ Motor("apply", "loop")
    /\ snap' = NoSnap /\ overtaken' = FALSE
    /\ IF snap.estop
       THEN MotorStop /\ steer' = SteerCentre
       ELSE MotorSetSpeed(snap.lin)
            /\ steer' = Clamp(SteerCentre + snap.ang * 45, 450, 1350)

MotorFinish ==
    /\ Motor("stop", "done")
    /\ MotorStop /\ steer' = SteerCentre
    /\ UNCHANGED copyVars

MotorThread == MotorLoop \/ MotorRead \/ MotorApply \/ MotorFinish
-----------------------------------------------------------------------------
(* The communication thread: a pass of its loop handles any number of      *)
(* lines, and each line is a critical section.  It ends when the flag is   *)
(* down, when the server socket cannot be opened or when select fails.  It *)
(* ends every thread with it, in whatever they are doing, when a status    *)
(* line is sent to a peer that has gone: nothing handles SIGPIPE.          *)
Comm(from, to) ==
    /\ commPc = from /\ commPc' = to
    /\ UNCHANGED <<mainPc, sensorPc, algoPc, motorPc, snap, driveOut>>

EstopRaised == ~emergencyStop /\ emergencyStop'

CommLoopForEver ==
    Comm("loop", "serve") /\ UNCHANGED <<controlVars, running, overtaken>>

CommLoop ==
    /\ Comm("loop", IF running THEN "serve" ELSE "done")
    /\ UNCHANGED <<controlVars, running, overtaken>>
CommIdle == Comm("serve", "loop") /\ UNCHANGED <<controlVars, running, overtaken>>
CommDies == Comm("serve", "done") /\ UNCHANGED <<controlVars, running, overtaken>>
CommLine ==
    /\ Comm("serve", "serve")
    /\ \/ Operate /\ UNCHANGED running
       \/ CmdExit /\ UNCHANGED <<planVars, sprayVars>> /\ running' = FALSE
    /\ overtaken' = (overtaken \/ (motorPc = "apply" /\ EstopRaised))

CommReportKills ==
    /\ commPc = "serve"
    /\ mainPc' = "killed"
    /\ sensorPc' = "dead" /\ algoPc' = "dead" /\ motorPc' = "dead" /\ commPc' = "dead"
    /\ running' = FALSE /\ snap' = NoSnap /\ overtaken' = FALSE
    /\ UNCHANGED <<controlVars, driveOut>>

CommThread == CommLoop \/ CommIdle \/ CommDies \/ CommLine \/ CommReportKills
-----------------------------------------------------------------------------
(* main: creates the threads in order, arms the command mailbox, waits for *)
(* the flag to go down, joins the threads in order and makes safe.         *)
Main(from, to) == mainPc = from /\ mainPc' = to

Created(thread) ==
    /\ sensorPc' = IF thread = "sensor" THEN "init" ELSE sensorPc
    /\ algoPc' = IF thread = "algo" THEN "loop" ELSE algoPc
    /\ motorPc' = IF thread = "motor" THEN "loop" ELSE motorPc
    /\ commPc' = IF thread = "comm" THEN "loop" ELSE commPc

NextStage == [sensor |-> "algo", algo |-> "motor", motor |-> "comm", comm |-> "arm"]

MainCreate ==
    /\ mainPc \in DOMAIN NextStage
    /\ mainPc' = NextStage[mainPc]
    /\ Created(mainPc)
    /\ UNCHANGED <<controlVars, running, copyVars, driveOut>>

\* A failed creation takes the others down and leaves without cleaning up.
MainCreateFails ==
    /\ mainPc \in DOMAIN NextStage
    /\ mainPc' = IF mainPc = "sensor" THEN "failed" ELSE "abort"
    /\ running' = IF mainPc = "sensor" THEN running ELSE FALSE
    /\ UNCHANGED <<controlVars, sensorPc, algoPc, motorPc, commPc, copyVars, driveOut>>

Joinable(pc) == pc \in {"none", "done"}
AllJoinedButAlgo == \A pc \in {sensorPc, motorPc, commPc} : Joinable(pc)

AllJoined == \A pc \in {sensorPc, algoPc, motorPc, commPc} : Joinable(pc)

Elsewhere == UNCHANGED <<sensorPc, algoPc, motorPc, commPc, copyVars>>

MainAbort ==
    /\ Main("abort", "failed") /\ AllJoined
    /\ Elsewhere /\ UNCHANGED <<controlVars, running, driveOut>>

MainArm ==
    /\ Main("arm", "loop")
    /\ cmdMode' = "NONE"
    /\ UNCHANGED <<mode, emergencyStop, velocity, readings, planVars, sprayVars>>
    /\ Elsewhere /\ UNCHANGED <<running, driveOut>>

\* The loop body only displays a snapshot; the joins block until all are done.
MainLeaveLoop ==
    /\ Main("loop", "join") /\ ~running
    /\ Elsewhere /\ UNCHANGED <<controlVars, running, driveOut>>

MainCleanUp ==
    /\ Main("join", "done") /\ AllJoined
    /\ MotorStop /\ steer' = SteerCentre
    /\ pump' = "OFF"
    /\ UNCHANGED <<sharedVars, planVars, currentTry, spraying, sprayElapsed>>
    /\ Elsewhere /\ UNCHANGED running

MainThread ==
    \/ MainCreate \/ MainCreateFails \/ MainAbort
    \/ MainArm \/ MainLeaveLoop \/ MainCleanUp

Killed == mainPc = "killed"
Exited == mainPc \in {"done", "failed", "killed"}
-----------------------------------------------------------------------------
(* SIGINT or SIGTERM at any moment; the wall clock.                        *)
Signal ==
    /\ ~Exited /\ running' = FALSE
    /\ UNCHANGED <<controlVars, threadVars, copyVars, driveOut>>

Clock == ClockTick /\ ~Exited
         /\ UNCHANGED <<running, threadVars, copyVars, driveOut>>

Terminated == Exited /\ UNCHANGED carVars

CarNext ==
    \/ SensorThread \/ AlgoThread \/ MotorThread \/ CommThread \/ MainThread
    \/ Signal \/ Clock \/ Terminated

CarSpec == CarInit /\ [][CarNext]_carVars

\* Every thread is scheduled, the mutex is free between sections, and every
\* sensor read returns; no command and no signal need ever come.
FairCar ==
    /\ CarSpec
    /\ WF_carVars(SensorThread)
    /\ WF_carVars(AlgoThread)
    /\ WF_carVars(MotorThread)
    /\ WF_carVars(CommLoop) /\ WF_carVars(CommIdle)
    /\ WF_carVars(MainThread)

LinRange == -10000..10000
AngRange == -10..10
Snaps == [lin : LinRange, ang : AngRange, estop : BOOLEAN]
SteerAngles == 450..1350

CarTypeOK ==
    /\ ControlTypeOK
    /\ running \in BOOLEAN
    /\ mainPc \in DOMAIN NextStage \cup
                 {"arm", "loop", "join", "abort", "done", "failed", "killed"}
    /\ sensorPc \in {"none", "init", "loop", "thermal", "distance", "done", "dead"}
    /\ algoPc \in {"none", "loop", "update", "done", "dead"}
    /\ motorPc \in {"none", "loop", "read", "apply", "stop", "done", "dead"}
    /\ commPc \in {"none", "loop", "serve", "done", "dead"}
    /\ snap \in Snaps /\ overtaken \in BOOLEAN
    /\ in1 \in 0..FullDuty /\ in2 \in 0..FullDuty
    /\ steer \in SteerAngles
-----------------------------------------------------------------------------
Resting == in1 = 0 /\ in2 = 0 /\ steer = SteerCentre
Powered == in1 > 0 \/ in2 > 0

(***************************************************************************)
(* When main ends the program, after EXIT or a signal at any moment, the   *)
(* wheels are unpowered and centred and the pump is off: no thread acts    *)
(* after the one that made safe.  When main gives up because a thread      *)
(* could not be created, the wheels are at rest too, and this run has not  *)
(* touched the pump.  Of a process killed by SIGPIPE nothing is claimed.   *)
(***************************************************************************)
ExitSafe ==
    /\ mainPc = "done" => Resting /\ pump = "OFF"
    /\ mainPc = "failed" => Resting /\ pump = "FOUND"

(***************************************************************************)
(* While the emergency stop is in force, what the motor thread sends to    *)
(* the wheels is a stop and the centre, whatever velocity it copied and    *)
(* however the stop was lifted and raised again.  The one exception is the *)
(* race the code leaves open: a stop raised between the copy and its use.  *)
(***************************************************************************)
NoRestartUnderEstop ==
    [][emergencyStop /\ ~overtaken => Resting' \/ UNCHANGED driveOut]_carVars

(***************************************************************************)
(* An emergency stop reaches the wheels unless it is cleared first, also   *)
(* when the program is shut down or a thread dies at the same time; only a *)
(* killed process leaves them driven.                                      *)
(***************************************************************************)
EstopReachesWheels == emergencyStop ~> (~Powered \/ ~emergencyStop \/ Killed)

(***************************************************************************)
(* A halted mode reaches the wheels unless the car is sent off again or    *)
(* the process is killed.                                                  *)
(***************************************************************************)
HaltReachesWheels ==
    mode \in {"IDLE", "SAFE_STOP"}
        ~> (~Powered \/ mode \notin {"IDLE", "SAFE_STOP"} \/ Killed)

(***************************************************************************)
(* Once the running flag is down the program ends: every thread sees it,   *)
(* and no join waits for ever.                                             *)
(***************************************************************************)
ShutdownCompletes == ~running ~> Exited
=============================================================================
