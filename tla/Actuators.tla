----------------------------- MODULE Actuators -----------------------------
(***************************************************************************)
(* The PCA9685 and the three drivers that share it: motor_control.c,       *)
(* servo_control.c and pump_control.c.  Every I2C transaction is one step  *)
(* that succeeds or fails, and any thread's transaction may fall between   *)
(* two of another's.  The chip outlives the process: it keeps its          *)
(* registers when the process exits or dies, and the next run of the       *)
(* program finds them so.                                                  *)
(***************************************************************************)
EXTENDS Outputs, Sequences

CONSTANTS
    Speeds,       \* magnitudes of the speeds the algorithm commands
    Angles,       \* steering angles the motor thread computes
    MaxFailures,  \* bound: failed transactions in a behaviour
    MaxLives      \* bound: runs of the program in a behaviour

ASSUME ActuatorsAssumption ==
    /\ Speeds \subseteq Nat
    /\ Angles \subseteq Nat
    /\ MaxFailures \in Nat
    /\ MaxLives \in Nat \ {0}

Commands == {0} \cup Speeds \cup {-v : v \in Speeds}

VARIABLES
    mode1, prescale, led,          \* the chip: MODE1 bits, PRE_SCALE, OFF counts
    missed,                        \* history: outputs whose last write did not take
    phase, step, oldmode,          \* main: where it is, and what it read of MODE1
    motorPc, speed, angle,         \* the motor thread and its copy of the command
    algoPc, pumpOn,                \* the algorithm thread and what it wants of the pump
    switched,                      \* history: this run has switched the pump
    failures, lives

chip == <<mode1, prescale, led, missed>>
main == <<phase, step, oldmode>>
motor == <<motorPc, speed, angle>>
algo == <<algoPc, pumpOn, switched>>
actuatorVars == <<chip, main, motor, algo, failures, lives>>

Bridge == {"in1", "in2"}
PumpBytes == {"pumpLow", "pumpHigh"}
Outs == Bridge \cup PumpBytes \cup {"steer"}

PowerUpPrescale == 30    \* the chip's own, 200 Hz
MotorPrescale == 5       \* 1000 Hz
ServoPrescale == 121     \* 50 Hz, also the pump's 0x79
-----------------------------------------------------------------------------
(***************************************************************************)
(* The chip.  A five-byte write relies on auto-increment: without it all   *)
(* the bytes go to one register and the count stays what it was.  The      *)
(* prescaler is writable while the chip sleeps only.  The ON counts are    *)
(* always written as 0, and RESTART and ALLCALL change no output.          *)
(***************************************************************************)
Mode1Value(setting) ==
    CASE setting = "sleep" -> mode1 \cup {"SLEEP"}
      [] setting = "old" -> oldmode
      [] setting = "oldAuto" -> oldmode \cup {"AI"}
      [] setting = "onlySleep" -> {"SLEEP"}
      [] OTHER -> {}

Reaches(w) == w.kind = "byte" \/ (w.kind = "burst" /\ "AI" \in mode1)

Transfer(w) ==
    /\ mode1' = IF w.kind = "mode1" THEN Mode1Value(w.val) ELSE mode1
    /\ prescale' = IF w.kind = "prescale" /\ "SLEEP" \in mode1 THEN w.val ELSE prescale
    /\ led' = IF Reaches(w) THEN [led EXCEPT ![w.reg] = w.val] ELSE led
    /\ missed' = IF w.kind \notin {"byte", "burst"} THEN missed
                 ELSE IF Reaches(w) THEN missed \ {w.reg}
                 ELSE missed \cup {w.reg}
    /\ UNCHANGED failures

FailedTransfer(w) ==
    /\ failures < MaxFailures
    /\ failures' = failures + 1
    /\ missed' = IF w.kind \in {"byte", "burst"} THEN missed \cup {w.reg} ELSE missed
    /\ UNCHANGED <<mode1, prescale, led>>

Attempt(w) == Transfer(w) \/ FailedTransfer(w)

Burst(out, count) ==
    [kind |-> "burst", reg |-> out, val |-> count, checked |-> FALSE]
PumpByte(out, byte) ==
    [kind |-> "byte", reg |-> out, val |-> byte, checked |-> FALSE]
Mode1(setting, isChecked) ==
    [kind |-> "mode1", reg |-> "mode1", val |-> setting, checked |-> isChecked]
Prescale(count, isChecked) ==
    [kind |-> "prescale", reg |-> "prescale", val |-> count, checked |-> isChecked]

\* pump_on and pump_off write the bytes of the OFF count one by one.
LowByte(on) == IF on THEN 255 ELSE 0
HighByteStuck(on) == 15
HighByte(on) == IF on THEN 15 ELSE 0
-----------------------------------------------------------------------------
(***************************************************************************)
(* main's initialisation, transaction by transaction.  motor_init and      *)
(* servo_init give up at a failed open or MODE1 or PRE_SCALE write;        *)
(* motor_stop, pump_init's own writes and servo_set_angle ignore failures. *)
(***************************************************************************)
Open(driver) == [kind |-> "open", reg |-> driver, val |-> 0, checked |-> TRUE]

SetFrequency(count) ==
    <<Mode1("sleep", TRUE), Prescale(count, TRUE), Mode1("old", TRUE), Mode1("oldAuto", TRUE)>>

MotorInit ==
    <<Open("motor"), Mode1("reset", TRUE)>> \o SetFrequency(MotorPrescale)
    \o <<Burst("in1", 0), Burst("in2", 0)>>

PumpInit ==
    <<Open("pump"), Mode1("reset", FALSE), Mode1("onlySleep", FALSE),
      Prescale(ServoPrescale, FALSE), Mode1("reset", FALSE), Mode1("restart", FALSE)>>

ServoInitAwake ==
    <<Open("servo"), Mode1("reset", TRUE), Prescale(ServoPrescale, TRUE),
      Mode1("old", TRUE), Mode1("oldAuto", TRUE)>>

ServoInit ==
    <<Open("servo"), Mode1("reset", TRUE)>> \o SetFrequency(ServoPrescale)

CentreSteering == Burst("steer", AngleToCount(SteerCentre))

InitWritesServoFirst == MotorInit \o ServoInit \o PumpInit \o <<CentreSteering>>

InitWrites == MotorInit \o PumpInit \o ServoInit \o <<CentreSteering>>

CleanWritesDry ==
    <<Burst("in1", 0), Burst("in2", 0), CentreSteering>>

\* motor_stop, pump_off, servo_set_angle once all threads are joined.
CleanWrites ==
    <<Burst("in1", 0), Burst("in2", 0),
      PumpByte("pumpLow", LowByte(FALSE)), PumpByte("pumpHigh", HighByte(FALSE)),
      CentreSteering>>

ActuatorsInit ==
    /\ mode1 = {"SLEEP"} /\ prescale = PowerUpPrescale
    /\ led = [out \in Outs |-> 0] /\ missed = {}
    /\ phase = "init" /\ step = 1 /\ oldmode = {}
    /\ motorPc = "none" /\ speed = 0 /\ angle = SteerCentre
    /\ algoPc = "none" /\ pumpOn = FALSE /\ switched = FALSE
    /\ failures = 0 /\ lives = 1

NextStep(writes, next) ==
    IF step = Len(writes)
    THEN phase' = next /\ step' = 1
    ELSE step' = step + 1 /\ UNCHANGED phase

\* The read of MODE1 comes just before the write that puts the chip to sleep.
InitWrite ==
    /\ phase = "init"
    /\ LET w == InitWrites[step] IN
        /\ \/ Transfer(w) /\ NextStep(InitWrites, "run")
           \/ FailedTransfer(w) /\ ~w.checked /\ NextStep(InitWrites, "run")
           \/ FailedTransfer(w) /\ w.checked /\ phase' = "failed" /\ UNCHANGED step
        /\ oldmode' = IF w.kind = "mode1" /\ w.val = "sleep" THEN mode1 ELSE oldmode
    /\ motorPc' = IF phase' = "run" THEN "loop" ELSE motorPc
    /\ algoPc' = IF phase' = "run" THEN "loop" ELSE algoPc
    /\ UNCHANGED <<speed, angle, pumpOn, switched, lives>>
-----------------------------------------------------------------------------
(***************************************************************************)
(* The motor thread's pass: a copy of the command (an emergency stop is    *)
(* the copy of a stop), three transactions, whose results nobody reads.    *)
(***************************************************************************)
MotorOnly == UNCHANGED <<main, algo, lives>>

MotorCopy ==
    /\ motorPc = "loop" /\ phase = "run"
    /\ motorPc' = "first"
    /\ \/ speed' \in Commands /\ angle' \in Angles
       \/ speed' = 0 /\ angle' = SteerCentre
    /\ MotorOnly /\ UNCHANGED <<chip, failures>>

MotorFirst ==
    /\ motorPc = "first" /\ motorPc' = "second"
    /\ Attempt(Burst(FirstInput(speed), 0))
    /\ MotorOnly /\ UNCHANGED <<speed, angle>>

MotorSecond ==
    /\ motorPc = "second" /\ motorPc' = "steer"
    /\ Attempt(Burst(SecondInput(speed), Duty(speed)))
    /\ MotorOnly /\ UNCHANGED <<speed, angle>>

MotorSteer ==
    /\ motorPc = "steer"
    /\ motorPc' = "loop"
    /\ Attempt(Burst("steer", AngleToCount(angle)))
    /\ MotorOnly /\ UNCHANGED <<speed, angle>>

\* After the loop the thread stops and centres once more.
MotorLeave ==
    /\ motorPc = "loop" /\ phase = "join"
    /\ motorPc' = "lastFirst" /\ speed' = 0 /\ angle' = SteerCentre
    /\ MotorOnly /\ UNCHANGED <<chip, failures>>

MotorLast ==
    /\ \/ motorPc = "lastFirst" /\ motorPc' = "lastSecond" /\ Attempt(Burst("in1", 0))
       \/ motorPc = "lastSecond" /\ motorPc' = "lastSteer" /\ Attempt(Burst("in2", 0))
       \/ motorPc = "lastSteer" /\ motorPc' = "done" /\ Attempt(CentreSteering)
    /\ MotorOnly /\ UNCHANGED <<speed, angle>>

MotorThread ==
    MotorCopy \/ MotorFirst \/ MotorSecond \/ MotorSteer \/ MotorLeave \/ MotorLast
-----------------------------------------------------------------------------
(***************************************************************************)
(* The algorithm thread switches the pump when the spraying loop starts,   *)
(* ends or gives up a spray.                                               *)
(***************************************************************************)
AlgoOnly == UNCHANGED <<main, motor, lives>>

Switch(on) ==
    /\ algoPc = "loop" /\ phase = "run"
    /\ algoPc' = "low" /\ pumpOn' = on /\ switched' = TRUE
    /\ AlgoOnly /\ UNCHANGED <<chip, failures>>

SwitchOn == ~pumpOn /\ Switch(TRUE)
SwitchOff == Switch(FALSE)

AlgoLow ==
    /\ algoPc = "low" /\ algoPc' = "high"
    /\ Attempt(PumpByte("pumpLow", LowByte(pumpOn)))
    /\ AlgoOnly /\ UNCHANGED <<pumpOn, switched>>

AlgoHigh ==
    /\ algoPc = "high" /\ algoPc' = "loop"
    /\ Attempt(PumpByte("pumpHigh", HighByte(pumpOn)))
    /\ AlgoOnly /\ UNCHANGED <<pumpOn, switched>>

AlgoLeave ==
    /\ algoPc = "loop" /\ phase = "join" /\ algoPc' = "done"
    /\ AlgoOnly /\ UNCHANGED <<chip, failures, pumpOn, switched>>

AlgoThread == SwitchOn \/ SwitchOff \/ AlgoLow \/ AlgoHigh \/ AlgoLeave
-----------------------------------------------------------------------------
(***************************************************************************)
(* The end of a run: EXIT or a signal lowers the flag, main joins the      *)
(* threads and makes safe; or the process dies with the chip as it is      *)
(* (the status line sent to a client that has gone raises SIGPIPE).        *)
(***************************************************************************)
Lower ==
    /\ phase = "run" /\ phase' = "join"
    /\ UNCHANGED <<chip, step, oldmode, motor, algo, failures, lives>>

Joined ==
    /\ phase = "join" /\ motorPc = "done" /\ algoPc = "done"
    /\ phase' = "clean"
    /\ UNCHANGED <<chip, step, oldmode, motor, algo, failures, lives>>

CleanWrite ==
    /\ phase = "clean"
    /\ Attempt(CleanWrites[step])
    /\ NextStep(CleanWrites, "done")
    /\ UNCHANGED <<oldmode, motor, algo, lives>>

Die ==
    /\ phase \in {"run", "join"} /\ phase' = "dead"
    /\ UNCHANGED <<chip, step, oldmode, motor, algo, failures, lives>>

Ended == phase \in {"done", "failed", "dead"}
Running == ~Ended

\* The next run starts from fresh statics and the chip as it was left.
Rerun ==
    /\ Ended /\ lives < MaxLives
    /\ lives' = lives + 1
    /\ phase' = "init" /\ step' = 1 /\ oldmode' = {}
    /\ motorPc' = "none" /\ speed' = 0 /\ angle' = SteerCentre
    /\ algoPc' = "none" /\ pumpOn' = FALSE /\ switched' = FALSE
    /\ UNCHANGED <<chip, failures>>

Over == Ended /\ lives = MaxLives /\ UNCHANGED actuatorVars

ActuatorsNext ==
    \/ InitWrite \/ Lower \/ Joined \/ CleanWrite
    \/ Running /\ (MotorThread \/ AlgoThread)
    \/ Die \/ Rerun \/ Over

ActuatorsSpec == ActuatorsInit /\ [][ActuatorsNext]_actuatorVars

\* The motor thread of a running process is scheduled; nothing makes it end.
FairActuators ==
    /\ ActuatorsSpec
    /\ WF_actuatorVars(Running /\ MotorThread)

ActuatorsTypeOK ==
    /\ mode1 \subseteq {"SLEEP", "AI"} /\ oldmode \subseteq {"SLEEP", "AI"}
    /\ prescale \in {PowerUpPrescale, MotorPrescale, ServoPrescale}
    /\ led \in [Outs -> 0..FullDuty]
    /\ \A byte \in PumpBytes : led[byte] \in 0..255
    /\ missed \subseteq Outs
    /\ phase \in {"init", "run", "join", "clean", "done", "failed", "dead"}
    /\ step \in 1..Len(InitWrites)
    /\ motorPc \in {"none", "loop", "first", "second", "steer",
                    "lastFirst", "lastSecond", "lastSteer", "done"}
    /\ speed \in Commands /\ angle \in Angles \cup {SteerCentre}
    /\ algoPc \in {"none", "loop", "low", "high", "done"}
    /\ pumpOn \in BOOLEAN /\ switched \in BOOLEAN
    /\ failures \in 0..MaxFailures /\ lives \in 1..MaxLives
-----------------------------------------------------------------------------
Shorted == led["in1"] > 0 /\ led["in2"] > 0

(***************************************************************************)
(* Both inputs of the bridge are driven at once only after a write that    *)
(* was to turn one of them off has failed: not between the two writes of a *)
(* reversal, and not when a run is cut off in the middle of one and        *)
(* another run begins.                                                     *)
(***************************************************************************)
BridgeSafe == Shorted => missed \cap Bridge # {}

(***************************************************************************)
(* No driver sends a five-byte write to a chip that would not increment    *)
(* the register: pump_init resets MODE1 behind the motor driver's back,    *)
(* and servo_init must have run before the next such write.                *)
(***************************************************************************)
Bursting ==
    \/ phase = "init" /\ InitWrites[step].kind = "burst"
    \/ phase = "clean" /\ CleanWrites[step].kind = "burst"
    \/ phase \in {"run", "join"} /\ motorPc \notin {"loop", "done"}

NoBlindBurst == Bursting => "AI" \in mode1

(***************************************************************************)
(* Whatever pump_init's unchecked writes did to the chip, the threads      *)
(* start on one that is awake and runs at the servos' frequency.           *)
(***************************************************************************)
ChipReady ==
    phase \in {"run", "join", "clean", "done"} =>
        "SLEEP" \notin mode1 /\ prescale = ServoPrescale

(***************************************************************************)
(* A run that ends in order leaves every output whose last write took      *)
(* effect at rest.                                                         *)
(***************************************************************************)
AtRest(out) == led[out] = IF out = "steer" THEN AngleToCount(SteerCentre) ELSE 0

ExitAtRest == phase = "done" => \A out \in Outs \ missed : AtRest(out)

PumpCount == led["pumpLow"] + 256 * led["pumpHigh"]

(***************************************************************************)
(* Between two switches the relay is where the spraying loop believes it   *)
(* to be, except while a byte of its last write is missing and until this  *)
(* run first switches the pump: a run that follows one that died spraying  *)
(* starts with the pump on, and no initialisation turns it off.            *)
(***************************************************************************)
PumpFollows ==
    phase = "run" /\ algoPc = "loop" /\ switched =>
        \/ missed \cap PumpBytes # {}
        \/ PumpCount = IF pumpOn THEN FullDuty ELSE 0

(***************************************************************************)
(* The motor thread repeats its writes, so that a bridge shorted by a      *)
(* failed one does not stay so in a run that goes on.                      *)
(***************************************************************************)
ShortHeals == <>[](phase = "run") => <>[]~Shorted
=============================================================================
