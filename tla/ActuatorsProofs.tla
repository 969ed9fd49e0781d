--------------------------- MODULE ActuatorsProofs ---------------------------
(***************************************************************************)
(* The bridge is never shorted but by a failed write, for every set of     *)
(* speeds and angles and any number of failures, deaths and runs.  The     *)
(* argument: of two writes of motor_set_speed the first turns an input     *)
(* off, every other write to the bridge writes 0, and no other transaction *)
(* touches an input.                                                       *)
(***************************************************************************)
EXTENDS Actuators, ConversionProofs, SequenceTheorems

\* An output that is off, or whose last write did not take.
Off(out) == led[out] = 0 \/ out \in missed

(***************************************************************************)
(* The transactions of initialisation and clean-up.                        *)
(***************************************************************************)
Drivers == {"motor", "pump", "servo"}
Settings == {"sleep", "old", "oldAuto", "onlySleep", "reset", "restart"}
Prescales == {MotorPrescale, ServoPrescale}

QuietWrites ==
    {Open(d) : d \in Drivers}
    \cup {Mode1(s, TRUE) : s \in Settings} \cup {Mode1(s, FALSE) : s \in Settings}
    \cup {Prescale(n, TRUE) : n \in Prescales} \cup {Prescale(n, FALSE) : n \in Prescales}
    \cup {Burst(out, 0) : out \in Bridge}
    \cup {CentreSteering, PumpByte("pumpLow", LowByte(FALSE)),
          PumpByte("pumpHigh", HighByte(FALSE))}

\* What any write must be for the chip's registers to keep their types.
Fitting(w) ==
    /\ w.kind = "prescale" => w.val \in Prescales
    /\ w.kind \in {"burst", "byte"} =>
          /\ w.reg \in Outs /\ w.val \in 0..FullDuty
          /\ w.reg \in PumpBytes => w.val \in 0..255

Quiet(w) == w.kind \in {"burst", "byte"} /\ w.reg \in Bridge => w.val = 0

LEMMA QuietWritesAreQuiet == \A w \in QuietWrites : Fitting(w) /\ Quiet(w)
<1> USE DEF Fitting, Quiet
<1>1. ASSUME NEW d \in Drivers PROVE Fitting(Open(d)) /\ Quiet(Open(d))
  BY DEF Open
<1>2. ASSUME NEW s \in Settings, NEW c \in BOOLEAN
      PROVE  Fitting(Mode1(s, c)) /\ Quiet(Mode1(s, c))
  BY DEF Mode1
<1>3. ASSUME NEW n \in Prescales, NEW c \in BOOLEAN
      PROVE  Fitting(Prescale(n, c)) /\ Quiet(Prescale(n, c))
  BY DEF Prescale
<1>4. ASSUME NEW out \in Bridge PROVE Fitting(Burst(out, 0)) /\ Quiet(Burst(out, 0))
  BY DEF Burst, FullDuty, Outs, Bridge, PumpBytes
<1>5. Fitting(CentreSteering) /\ Quiet(CentreSteering)
  <2>1. AngleToCount(SteerCentre) \in 0..FullDuty
    BY CountsInRange DEF SteerCentre
  <2>q. QED
    BY <2>1 DEF CentreSteering, Burst, Outs, Bridge, PumpBytes
<1>6. LowByte(FALSE) = 0 /\ HighByte(FALSE) = 0
  BY DEF LowByte, HighByte
<1>7. ASSUME NEW byte \in PumpBytes
      PROVE  Fitting(PumpByte(byte, 0)) /\ Quiet(PumpByte(byte, 0))
  BY DEF PumpByte, FullDuty, Outs, Bridge, PumpBytes
<1> HIDE DEF Fitting, Quiet
<1>q. QED
  <2> SUFFICES ASSUME NEW w \in QuietWrites PROVE Fitting(w) /\ Quiet(w)
    OBVIOUS
  <2>1. CASE \E d \in Drivers : w = Open(d)
    BY <1>1, <2>1
  <2>2. CASE \E s \in Settings : w = Mode1(s, TRUE) \/ w = Mode1(s, FALSE)
    BY <1>2, <2>2
  <2>3. CASE \E n \in Prescales : w = Prescale(n, TRUE) \/ w = Prescale(n, FALSE)
    BY <1>3, <2>3
  <2>4. CASE \E out \in Bridge : w = Burst(out, 0)
    BY <1>4, <2>4
  <2>5. CASE w = CentreSteering
    BY <1>5, <2>5
  <2>6. CASE w = PumpByte("pumpLow", LowByte(FALSE)) \/ w = PumpByte("pumpHigh", HighByte(FALSE))
    BY <1>6, <1>7, <2>6 DEF PumpBytes
  <2>q. QED
    BY <2>1, <2>2, <2>3, <2>4, <2>5, <2>6 DEF QuietWrites

(***************************************************************************)
(* Sequences of quiet writes, of the length the code has calls.            *)
(***************************************************************************)
LEMMA FrequencyWrites ==
    ASSUME NEW n \in Prescales
    PROVE  SetFrequency(n) \in Seq(QuietWrites) /\ Len(SetFrequency(n)) = 4
<1> DEFINE a == Mode1("sleep", TRUE)  b == Prescale(n, TRUE)
           c == Mode1("old", TRUE)    d == Mode1("oldAuto", TRUE)
<1>1. a \in QuietWrites /\ b \in QuietWrites /\ c \in QuietWrites /\ d \in QuietWrites
  <2>1. "sleep" \in Settings /\ "old" \in Settings /\ "oldAuto" \in Settings
    BY DEF Settings
  <2>q. QED
    BY <2>1 DEF QuietWrites
<1>2. SetFrequency(n) = <<a, b, c, d>>
  BY DEF SetFrequency
<1> HIDE DEF a, b, c, d
<1>q. QED
  BY <1>1, <1>2

LEMMA QuietConcat ==
    \A s, t \in Seq(QuietWrites) :
        s \o t \in Seq(QuietWrites) /\ Len(s \o t) = Len(s) + Len(t)
BY ConcatProperties, Zenon

LEMMA MotorInitWrites == MotorInit \in Seq(QuietWrites) /\ Len(MotorInit) = 8
<1> DEFINE o == Open("motor")  r == Mode1("reset", TRUE)
           a == Burst("in1", 0)  b == Burst("in2", 0)
           freq == SetFrequency(MotorPrescale)
<1>1. o \in QuietWrites /\ r \in QuietWrites /\ a \in QuietWrites /\ b \in QuietWrites
  <2>1. "motor" \in Drivers /\ "reset" \in Settings /\ "in1" \in Bridge /\ "in2" \in Bridge
    BY DEF Drivers, Settings, Bridge
  <2>q. QED
    BY <2>1 DEF QuietWrites
<1>2. freq \in Seq(QuietWrites) /\ Len(freq) = 4
  BY FrequencyWrites DEF Prescales
<1> DEFINE start == <<o, r>>  stop == <<a, b>>
<1>3. MotorInit = (start \o freq) \o stop
  BY DEF MotorInit
<1> HIDE DEF o, r, a, b, freq
<1>4. /\ start \in Seq(QuietWrites) /\ Len(start) = 2
      /\ stop \in Seq(QuietWrites) /\ Len(stop) = 2
  BY <1>1
<1> HIDE DEF start, stop
<1> DEFINE both == start \o freq  all == both \o stop
<1>5. both \in Seq(QuietWrites) /\ Len(both) = Len(start) + Len(freq)
  BY <1>2, <1>4, QuietConcat, Zenon
<1> HIDE DEF both
<1>6. all \in Seq(QuietWrites) /\ Len(all) = Len(both) + Len(stop)
  BY <1>4, <1>5, QuietConcat, Zenon
<1>7. MotorInit = all
  BY <1>3, Zenon DEF both
<1> HIDE DEF all
<1>q. QED
  BY <1>2, <1>4, <1>5, <1>6, <1>7

LEMMA PumpInitWrites == PumpInit \in Seq(QuietWrites) /\ Len(PumpInit) = 6
<1> DEFINE o == Open("pump")  r == Mode1("reset", FALSE)  s == Mode1("onlySleep", FALSE)
           p == Prescale(ServoPrescale, FALSE)  t == Mode1("restart", FALSE)
<1>1. /\ o \in QuietWrites /\ r \in QuietWrites /\ s \in QuietWrites
      /\ p \in QuietWrites /\ t \in QuietWrites
  <2>1. /\ "pump" \in Drivers /\ "reset" \in Settings /\ "onlySleep" \in Settings
        /\ "restart" \in Settings /\ ServoPrescale \in Prescales
    BY DEF Drivers, Settings, Prescales
  <2>q. QED
    BY <2>1 DEF QuietWrites
<1>2. PumpInit = <<o, r, s, p, r, t>>
  BY DEF PumpInit
<1> HIDE DEF o, r, s, p, t
<1>q. QED
  BY <1>1, <1>2

LEMMA ServoInitWrites == ServoInit \in Seq(QuietWrites) /\ Len(ServoInit) = 6
<1> DEFINE o == Open("servo")  r == Mode1("reset", TRUE)
           freq == SetFrequency(ServoPrescale)
<1>1. o \in QuietWrites /\ r \in QuietWrites
  <2>1. "servo" \in Drivers /\ "reset" \in Settings
    BY DEF Drivers, Settings
  <2>q. QED
    BY <2>1 DEF QuietWrites
<1>2. freq \in Seq(QuietWrites) /\ Len(freq) = 4
  BY FrequencyWrites DEF Prescales
<1> DEFINE start == <<o, r>>
<1>3. ServoInit = start \o freq
  BY DEF ServoInit
<1> HIDE DEF o, r, freq
<1>4. start \in Seq(QuietWrites) /\ Len(start) = 2
  BY <1>1
<1> HIDE DEF start
<1> DEFINE all == start \o freq
<1>5. all \in Seq(QuietWrites) /\ Len(all) = Len(start) + Len(freq)
  BY <1>2, <1>4, QuietConcat, Zenon
<1>6. ServoInit = all
  BY <1>3, Zenon
<1> HIDE DEF all
<1>q. QED
  BY <1>2, <1>4, <1>5, <1>6

LEMMA AllInitWrites == InitWrites \in Seq(QuietWrites) /\ Len(InitWrites) = 21
<1> DEFINE centre == <<CentreSteering>>
<1>1. centre \in Seq(QuietWrites) /\ Len(centre) = 1
  <2> DEFINE w == CentreSteering
  <2>1. w \in QuietWrites
    BY DEF QuietWrites
  <2> HIDE DEF w
  <2>2. <<w>> \in Seq(QuietWrites) /\ Len(<<w>>) = 1
    BY <2>1
  <2>q. QED
    BY <2>2 DEF w
<1> HIDE DEF centre
<1> DEFINE two == MotorInit \o PumpInit  three == two \o ServoInit  all == three \o centre
<1>2. two \in Seq(QuietWrites) /\ Len(two) = Len(MotorInit) + Len(PumpInit)
  BY MotorInitWrites, PumpInitWrites, QuietConcat, Zenon
<1>3. InitWrites = all
  BY Zenon DEF InitWrites, centre
<1> HIDE DEF two
<1>4. three \in Seq(QuietWrites) /\ Len(three) = Len(two) + Len(ServoInit)
  BY <1>2, ServoInitWrites, QuietConcat, Zenon
<1> HIDE DEF three
<1>5. all \in Seq(QuietWrites) /\ Len(all) = Len(three) + Len(centre)
  BY <1>1, <1>4, QuietConcat, Zenon
<1> HIDE DEF all
<1>q. QED
  BY <1>1, <1>2, <1>3, <1>4, <1>5, MotorInitWrites, PumpInitWrites, ServoInitWrites

LEMMA AllCleanWrites == CleanWrites \in Seq(QuietWrites) /\ Len(CleanWrites) = 5
<1> DEFINE a == Burst("in1", 0)  b == Burst("in2", 0)  c == CentreSteering
           l == PumpByte("pumpLow", LowByte(FALSE))
           h == PumpByte("pumpHigh", HighByte(FALSE))
<1>1. /\ a \in QuietWrites /\ b \in QuietWrites /\ c \in QuietWrites
      /\ l \in QuietWrites /\ h \in QuietWrites
  <2>1. "in1" \in Bridge /\ "in2" \in Bridge
    BY DEF Bridge
  <2>q. QED
    BY <2>1 DEF QuietWrites
<1>2. CleanWrites = <<a, b, l, h, c>>
  BY DEF CleanWrites
<1> HIDE DEF a, b, c, l, h
<1>q. QED
  BY <1>1, <1>2
-----------------------------------------------------------------------------
(***************************************************************************)
(* The chip.                                                               *)
(***************************************************************************)
ChipTypeOK ==
    /\ mode1 \subseteq {"SLEEP", "AI"} /\ oldmode \subseteq {"SLEEP", "AI"}
    /\ prescale \in {PowerUpPrescale, MotorPrescale, ServoPrescale}
    /\ led \in [Outs -> 0..FullDuty]
    /\ \A byte \in PumpBytes : led[byte] \in 0..255
    /\ missed \subseteq Outs
    /\ failures \in 0..MaxFailures

LEMMA AttemptKeepsType ==
    ASSUME ChipTypeOK, NEW w, Fitting(w), Attempt(w), oldmode' \in {oldmode, mode1}
    PROVE  ChipTypeOK'
<1>0. failures \in Nat /\ MaxFailures \in Nat
  BY ActuatorsAssumption DEF ActuatorsAssumption, ChipTypeOK
<1>1. CASE Transfer(w)
  <2>1. mode1' \subseteq {"SLEEP", "AI"} /\ oldmode' \subseteq {"SLEEP", "AI"}
    BY <1>1 DEF ChipTypeOK, Transfer, Mode1Value
  <2>2. prescale' \in {PowerUpPrescale, MotorPrescale, ServoPrescale}
    BY <1>1 DEF ChipTypeOK, Transfer, Fitting, Prescales
  <2>3. Reaches(w) => w.reg \in Outs /\ w.val \in 0..FullDuty
                      /\ (w.reg \in PumpBytes => w.val \in 0..255)
    BY DEF Reaches, Fitting
  <2>4. /\ led' \in [Outs -> 0..FullDuty]
        /\ \A byte \in PumpBytes : led'[byte] \in 0..255
    <3>1. led' = IF Reaches(w) THEN [led EXCEPT ![w.reg] = w.val] ELSE led
      BY <1>1 DEF Transfer
    <3>2. PumpBytes \subseteq Outs
      BY DEF Outs
    <3>q. QED
      BY <2>3, <3>1, <3>2 DEF ChipTypeOK
  <2>5. missed' \subseteq Outs /\ failures' = failures
    BY <1>1 DEF ChipTypeOK, Transfer, Fitting
  <2>q. QED
    BY <2>1, <2>2, <2>4, <2>5 DEF ChipTypeOK
<1>2. CASE FailedTransfer(w)
  <2>1. missed' \subseteq Outs
    BY <1>2 DEF ChipTypeOK, FailedTransfer, Fitting
  <2>2. failures' \in 0..MaxFailures
    BY <1>0, <1>2 DEF FailedTransfer
  <2>3. mode1' = mode1 /\ prescale' = prescale /\ led' = led
    BY <1>2 DEF FailedTransfer
  <2>q. QED
    BY <2>1, <2>2, <2>3 DEF ChipTypeOK
<1>q. QED
  BY <1>1, <1>2 DEF Attempt

(***************************************************************************)
(* A write that would turn an input off leaves it off or missed; any other *)
(* write but one that drives the input leaves it as it was.                *)
(***************************************************************************)
LEMMA AttemptAtBridge ==
    ASSUME ChipTypeOK, NEW w, Fitting(w), Attempt(w), NEW out \in Bridge,
           Off(out) \/ (w.kind = "burst" /\ w.reg = out),
           w.kind \in {"burst", "byte"} /\ w.reg = out => w.val = 0
    PROVE  Off(out)'
<1>1. out \in Outs /\ DOMAIN led = Outs
  BY DEF ChipTypeOK, Outs
<1>2. CASE Transfer(w) /\ Reaches(w)
  <2>1. w.kind \in {"byte", "burst"} /\ led' = [led EXCEPT ![w.reg] = w.val]
        /\ missed' = missed \ {w.reg}
    BY <1>2 DEF Transfer, Reaches
  <2>q. QED
    BY <1>1, <2>1 DEF Off
<1>3. CASE Transfer(w) /\ ~Reaches(w)
  BY <1>3 DEF Transfer, Off
<1>4. CASE FailedTransfer(w)
  BY <1>4 DEF FailedTransfer, Off
<1>q. QED
  BY <1>2, <1>3, <1>4 DEF Attempt

LEMMA ChipFrame ==
    ASSUME ChipTypeOK, UNCHANGED <<chip, failures>>, oldmode' \in {oldmode, {}}
    PROVE  ChipTypeOK'
BY DEF ChipTypeOK, chip
-----------------------------------------------------------------------------
(***************************************************************************)
(* The invariant.  Between the two writes of motor_set_speed the input     *)
(* that the second write will not drive is off.                            *)
(***************************************************************************)
ThreadTypeOK ==
    /\ phase \in {"init", "run", "join", "clean", "done", "failed", "dead"}
    /\ motorPc \in {"none", "loop", "first", "second", "steer",
                    "lastFirst", "lastSecond", "lastSteer", "done"}
    /\ speed \in Commands /\ angle \in Angles \cup {SteerCentre}
    /\ algoPc \in {"none", "loop", "low", "high", "done"}
    /\ pumpOn \in BOOLEAN /\ switched \in BOOLEAN
    /\ lives \in 1..MaxLives

StepInPhase ==
    /\ step \in Nat
    /\ phase \in {"init", "failed"} => step \in 1..21
    /\ phase = "clean" => step \in 1..5
    /\ phase \in {"run", "join", "done", "dead"} => step \in 1..21
    /\ phase \in {"run", "join"} => step = 1

BridgeInv ==
    /\ Off("in1") \/ Off("in2")
    /\ motorPc = "second" => Off(FirstInput(speed))

ActuatorsInv == ChipTypeOK /\ ThreadTypeOK /\ StepInPhase /\ BridgeInv

LEMMA InvImplies == ActuatorsInv => ActuatorsTypeOK /\ BridgeSafe
<1> SUFFICES ASSUME ActuatorsInv PROVE ActuatorsTypeOK /\ BridgeSafe
  OBVIOUS
<1>1. step \in 1..Len(InitWrites)
  <2>1. step \in 1..21
    BY DEF ActuatorsInv, StepInPhase, ThreadTypeOK
  <2>q. QED
    BY <2>1, AllInitWrites
<1>2. ActuatorsTypeOK
  BY <1>1 DEF ActuatorsInv, ActuatorsTypeOK, ChipTypeOK, ThreadTypeOK
<1>3. BridgeSafe
  <2>1. led["in1"] \in Nat /\ led["in2"] \in Nat
    <3>1. "in1" \in Outs /\ "in2" \in Outs
      BY DEF Outs, Bridge
    <3>2. led["in1"] \in 0..FullDuty /\ led["in2"] \in 0..FullDuty
      BY <3>1 DEF ActuatorsInv, ChipTypeOK
    <3>3. ASSUME NEW c \in 0..FullDuty PROVE c \in Nat
      BY SMT DEF FullDuty
    <3>q. QED
      BY <3>2, <3>3
  <2>q. QED
    BY <2>1 DEF ActuatorsInv, BridgeInv, BridgeSafe, Shorted, Off, Bridge
<1>q. QED
  BY <1>2, <1>3

LEMMA ConstantTypes ==
    /\ Commands \subseteq Int /\ 0 \in Commands
    /\ Angles \subseteq Nat /\ SteerCentre \in Nat
    /\ MaxLives \in Nat \ {0} /\ MaxFailures \in Nat
<1>1. Commands \subseteq Int
  <2> SUFFICES ASSUME NEW v \in Commands PROVE v \in Int
    OBVIOUS
  <2>1. CASE v \in {0} \cup Speeds
    BY <2>1, ActuatorsAssumption DEF ActuatorsAssumption
  <2>2. CASE \E m \in Speeds : v = -m
    <3>1. PICK m \in Speeds : v = -m
      BY <2>2
    <3>2. m \in Nat
      BY ActuatorsAssumption DEF ActuatorsAssumption
    <3>q. QED
      BY <3>1, <3>2
  <2>q. QED
    BY <2>1, <2>2 DEF Commands
<1>2. 0 \in Commands /\ SteerCentre \in Nat
  BY DEF Commands, SteerCentre
<1>q. QED
  BY <1>1, <1>2, ActuatorsAssumption DEF ActuatorsAssumption

LEMMA Inputs ==
    ASSUME NEW v
    PROVE  FirstInput(v) \in Bridge /\ SecondInput(v) \in Bridge /\ FirstInput(v) # SecondInput(v)
BY DEF FirstInput, SecondInput, Bridge

(***************************************************************************)
(* What any write that drives no input does to the invariant.              *)
(***************************************************************************)
LEMMA QuietStep ==
    ASSUME ActuatorsInv, NEW w, Fitting(w), Quiet(w), Attempt(w),
           oldmode' \in {oldmode, mode1},
           motorPc' = "second" => motorPc = "second" /\ speed' = speed
    PROVE  ChipTypeOK' /\ BridgeInv'
<1>1. ChipTypeOK'
  BY AttemptKeepsType DEF ActuatorsInv
<1>2. ASSUME NEW out \in Bridge, Off(out) PROVE Off(out)'
  BY <1>2, AttemptAtBridge DEF ActuatorsInv, Quiet
<1>3. Off("in1")' \/ Off("in2")'
  BY <1>2 DEF ActuatorsInv, BridgeInv, Bridge
<1>4. ASSUME motorPc' = "second" PROVE Off(FirstInput(speed))'
  <2>1. Off(FirstInput(speed)) /\ FirstInput(speed) \in Bridge
    BY <1>4, Inputs DEF ActuatorsInv, BridgeInv
  <2>2. CASE FirstInput(speed) = "in1"
    <3>1. FirstInput(speed') = "in1"
      BY <1>4, <2>2
    <3>q. QED
      BY <1>2, <2>1, <2>2, <3>1
  <2>3. CASE FirstInput(speed) = "in2"
    <3>1. FirstInput(speed') = "in2"
      BY <1>4, <2>3
    <3>q. QED
      BY <1>2, <2>1, <2>3, <3>1
  <2>q. QED
    BY <2>1, <2>2, <2>3 DEF Bridge
<1>q. QED
  BY <1>1, <1>3, <1>4 DEF BridgeInv

LEMMA StillStep ==
    ASSUME ActuatorsInv, UNCHANGED <<chip, failures>>, oldmode' \in {oldmode, {}},
           motorPc' = "second" => motorPc = "second" /\ speed' = speed
    PROVE  ChipTypeOK' /\ BridgeInv'
<1>1. ChipTypeOK'
  BY ChipFrame DEF ActuatorsInv
<1>2. led' = led /\ missed' = missed
  BY DEF chip
<1>q. QED
  BY <1>1, <1>2 DEF ActuatorsInv, BridgeInv, Off
-----------------------------------------------------------------------------
(***************************************************************************)
(* One lemma per action.                                                   *)
(***************************************************************************)
LEMMA InitKeeps == ActuatorsInit => ActuatorsInv
<1> SUFFICES ASSUME ActuatorsInit PROVE ActuatorsInv
  OBVIOUS
<1>1. \A out \in Outs : led[out] = 0
  BY DEF ActuatorsInit
<1>2. ChipTypeOK
  <2>1. 0 \in 0..FullDuty
    BY SMT DEF FullDuty
  <2>2. PumpBytes \subseteq Outs
    BY DEF Outs
  <2>3. led \in [Outs -> 0..FullDuty]
    BY <2>1 DEF ActuatorsInit
  <2>4. failures \in 0..MaxFailures
    BY ConstantTypes DEF ActuatorsInit
  <2>q. QED
    BY <1>1, <2>2, <2>3, <2>4 DEF ActuatorsInit, ChipTypeOK
<1>3. ThreadTypeOK
  <2>1. lives \in 1..MaxLives
    <3>1. lives = 1
      BY DEF ActuatorsInit
    <3>q. QED
      BY <3>1, ConstantTypes
  <2>2. speed \in Commands /\ angle \in Angles \cup {SteerCentre}
    BY ConstantTypes DEF ActuatorsInit
  <2>q. QED
    BY <2>1, <2>2 DEF ActuatorsInit, ThreadTypeOK
<1>4. StepInPhase
  BY DEF ActuatorsInit, StepInPhase
<1>5. BridgeInv
  <2>1. "in1" \in Outs
    BY DEF Outs, Bridge
  <2>q. QED
    BY <1>1, <2>1 DEF ActuatorsInit, BridgeInv, Off
<1>q. QED
  BY <1>2, <1>3, <1>4, <1>5 DEF ActuatorsInv

\* The transaction that a step of a sequence of quiet writes performs.
LEMMA StepIsQuiet ==
    ASSUME NEW writes \in Seq(QuietWrites), NEW n \in 1..Len(writes)
    PROVE  Fitting(writes[n]) /\ Quiet(writes[n])
<1>1. writes[n] \in QuietWrites
  BY ElementOfSeq
<1>q. QED
  BY <1>1, QuietWritesAreQuiet

LEMMA InitWriteKeeps == ASSUME ActuatorsInv, InitWrite PROVE ActuatorsInv'
<1> DEFINE w == InitWrites[step]
<1>1. step \in 1..21 /\ phase = "init"
  BY DEF ActuatorsInv, StepInPhase, InitWrite
<1>2. Fitting(w) /\ Quiet(w)
  BY <1>1, AllInitWrites, StepIsQuiet
<1>3. /\ \/ Transfer(w) /\ NextStep(InitWrites, "run")
         \/ FailedTransfer(w) /\ NextStep(InitWrites, "run")
         \/ FailedTransfer(w) /\ phase' = "failed" /\ UNCHANGED step
      /\ oldmode' \in {oldmode, mode1}
      /\ motorPc' = IF phase' = "run" THEN "loop" ELSE motorPc
      /\ algoPc' = IF phase' = "run" THEN "loop" ELSE algoPc
      /\ UNCHANGED <<speed, angle, pumpOn, switched, lives>>
  BY DEF InitWrite
<1>4. \/ NextStep(InitWrites, "run")
      \/ phase' = "failed" /\ UNCHANGED step
  BY <1>3
<1>5. Attempt(w)
  BY <1>3 DEF Attempt
<1> HIDE DEF w
<1>6. \/ phase' = "run" /\ step' = 1
      \/ phase' = "init" /\ step' = step + 1 /\ step # 21
      \/ phase' = "failed" /\ step' = step
  BY <1>1, <1>4, AllInitWrites DEF NextStep
<1>7. StepInPhase'
  BY <1>1, <1>6 DEF StepInPhase
<1>8. ThreadTypeOK'
  BY <1>3, <1>6 DEF ActuatorsInv, ThreadTypeOK
<1>9. motorPc' = "second" => motorPc = "second" /\ speed' = speed
  BY <1>3
<1>q. QED
  BY <1>2, <1>3, <1>5, <1>7, <1>8, <1>9, QuietStep DEF ActuatorsInv

LEMMA CleanWriteKeeps == ASSUME ActuatorsInv, CleanWrite PROVE ActuatorsInv'
<1> DEFINE w == CleanWrites[step]
<1>1. step \in 1..5 /\ phase = "clean"
  BY DEF ActuatorsInv, StepInPhase, CleanWrite
<1>2. Fitting(w) /\ Quiet(w)
  BY <1>1, AllCleanWrites, StepIsQuiet
<1>3. Attempt(w) /\ NextStep(CleanWrites, "done")
      /\ UNCHANGED <<oldmode, motor, algo, lives>>
  BY DEF CleanWrite
<1> HIDE DEF w
<1>4. \/ phase' = "done" /\ step' = 1
      \/ phase' = "clean" /\ step' = step + 1 /\ step # 5
  BY <1>1, <1>3, AllCleanWrites DEF NextStep
<1>5. StepInPhase'
  BY <1>1, <1>4 DEF StepInPhase
<1>6. ThreadTypeOK' /\ (motorPc' = "second" => motorPc = "second" /\ speed' = speed)
  BY <1>3, <1>4 DEF ActuatorsInv, ThreadTypeOK, motor, algo
<1>q. QED
  BY <1>2, <1>3, <1>5, <1>6, QuietStep DEF ActuatorsInv

LEMMA MotorFirstKeeps == ASSUME ActuatorsInv, MotorFirst PROVE ActuatorsInv'
<1> DEFINE w == Burst(FirstInput(speed), 0)
<1>0. FirstInput(speed) \in Bridge /\ FirstInput(speed) \in Outs
  BY Inputs DEF Outs
<1>1. /\ w.kind = "burst" /\ w.reg = FirstInput(speed) /\ w.val = 0
      /\ Fitting(w) /\ Quiet(w)
  <2>1. FirstInput(speed) \notin PumpBytes /\ 0 \in 0..FullDuty
    BY Inputs DEF PumpBytes, Bridge, FullDuty
  <2>q. QED
    BY <1>0, <2>1 DEF Burst, Fitting, Quiet
<1>2. Attempt(w) /\ motorPc' = "second" /\ speed' = speed /\ angle' = angle
      /\ UNCHANGED <<phase, step, oldmode, algoPc, pumpOn, switched, lives>>
  BY DEF MotorFirst, MotorOnly, main, algo
<1> HIDE DEF w
<1>3. ChipTypeOK'
  BY <1>1, <1>2, AttemptKeepsType DEF ActuatorsInv
<1>4. Off(FirstInput(speed))'
  <2>1. ASSUME NEW out \in Bridge, out = FirstInput(speed) PROVE Off(out)'
    BY <1>1, <1>2, <2>1, AttemptAtBridge DEF ActuatorsInv
  <2>2. CASE FirstInput(speed) = "in1"
    <3>1. FirstInput(speed)' = "in1"
      BY <1>2, <2>2
    <3>q. QED
      BY <2>1, <2>2, <3>1 DEF Bridge
  <2>3. CASE FirstInput(speed) = "in2"
    <3>1. FirstInput(speed)' = "in2"
      BY <1>2, <2>3
    <3>q. QED
      BY <2>1, <2>3, <3>1 DEF Bridge
  <2>q. QED
    BY <1>0, <2>2, <2>3 DEF Bridge
<1>5. BridgeInv'
  <2>1. FirstInput(speed)' = "in1" \/ FirstInput(speed)' = "in2"
    BY DEF FirstInput
  <2>q. QED
    BY <1>4, <2>1 DEF BridgeInv
<1>6. ThreadTypeOK' /\ StepInPhase'
  BY <1>2 DEF ActuatorsInv, ThreadTypeOK, StepInPhase
<1>q. QED
  BY <1>3, <1>5, <1>6 DEF ActuatorsInv

LEMMA MotorSecondKeeps == ASSUME ActuatorsInv, MotorSecond PROVE ActuatorsInv'
<1> DEFINE w == Burst(SecondInput(speed), Duty(speed))
<1>1. w.kind = "burst" /\ w.reg = SecondInput(speed) /\ Fitting(w)
  <2>1. Duty(speed) \in 0..FullDuty
    BY CountsInRange, ConstantTypes DEF ActuatorsInv, ThreadTypeOK
  <2>2. SecondInput(speed) \in Outs /\ SecondInput(speed) \notin PumpBytes
    BY Inputs DEF Outs, PumpBytes, Bridge
  <2>q. QED
    BY <2>1, <2>2 DEF Burst, Fitting
<1>2. Attempt(w) /\ motorPc = "second" /\ motorPc' = "steer"
      /\ speed' = speed /\ angle' = angle
      /\ UNCHANGED <<phase, step, oldmode, algoPc, pumpOn, switched, lives>>
  BY DEF MotorSecond, MotorOnly, main, algo
<1> HIDE DEF w
<1>3. ChipTypeOK'
  BY <1>1, <1>2, AttemptKeepsType DEF ActuatorsInv
<1>4. ASSUME NEW out \in Bridge, out = FirstInput(speed) PROVE Off(out)'
  <2>1. Off(out) /\ w.reg # out
    BY <1>1, <1>2, <1>4, Inputs DEF ActuatorsInv, BridgeInv
  <2>q. QED
    BY <1>1, <1>2, <2>1, AttemptAtBridge DEF ActuatorsInv
<1>5. BridgeInv'
  <2>1. Off("in1")' \/ Off("in2")'
    BY <1>4, Inputs DEF Bridge
  <2>q. QED
    BY <1>2, <2>1 DEF BridgeInv
<1>6. ThreadTypeOK' /\ StepInPhase'
  BY <1>2 DEF ActuatorsInv, ThreadTypeOK, StepInPhase
<1>q. QED
  BY <1>3, <1>5, <1>6 DEF ActuatorsInv

LEMMA MotorSteerKeeps == ASSUME ActuatorsInv, MotorSteer PROVE ActuatorsInv'
<1> DEFINE w == Burst("steer", AngleToCount(angle))
<1>1. Fitting(w) /\ Quiet(w)
  <2>1. AngleToCount(angle) \in 0..FullDuty
    BY CountsInRange, ConstantTypes DEF ActuatorsInv, ThreadTypeOK
  <2>2. "steer" \in Outs /\ "steer" \notin PumpBytes \cup Bridge
    BY DEF Outs, PumpBytes, Bridge
  <2>q. QED
    BY <2>1, <2>2 DEF Burst, Fitting, Quiet
<1>2. Attempt(w) /\ motorPc' = "loop" /\ speed' = speed /\ angle' = angle
      /\ UNCHANGED <<phase, step, oldmode, algoPc, pumpOn, switched, lives>>
  BY DEF MotorSteer, MotorOnly, main, algo
<1> HIDE DEF w
<1>3. ThreadTypeOK' /\ StepInPhase'
  BY <1>2 DEF ActuatorsInv, ThreadTypeOK, StepInPhase
<1>q. QED
  BY <1>1, <1>2, <1>3, QuietStep DEF ActuatorsInv

LEMMA MotorLastKeeps == ASSUME ActuatorsInv, MotorLast PROVE ActuatorsInv'
<1>1. Burst("in1", 0) \in QuietWrites /\ Burst("in2", 0) \in QuietWrites
      /\ CentreSteering \in QuietWrites
  <2>1. "in1" \in Bridge /\ "in2" \in Bridge
    BY DEF Bridge
  <2>q. QED
    BY <2>1 DEF QuietWrites
<1>2. /\ Attempt(Burst("in1", 0)) \/ Attempt(Burst("in2", 0)) \/ Attempt(CentreSteering)
      /\ motorPc' \in {"lastSecond", "lastSteer", "done"}
      /\ speed' = speed /\ angle' = angle
      /\ UNCHANGED <<phase, step, oldmode, algoPc, pumpOn, switched, lives>>
  BY DEF MotorLast, MotorOnly, main, algo
<1>3. PICK w \in QuietWrites : Attempt(w)
  BY <1>1, <1>2
<1>4. Fitting(w) /\ Quiet(w)
  BY QuietWritesAreQuiet
<1>5. ThreadTypeOK' /\ StepInPhase'
  BY <1>2 DEF ActuatorsInv, ThreadTypeOK, StepInPhase
<1>q. QED
  BY <1>2, <1>3, <1>4, <1>5, QuietStep DEF ActuatorsInv

LEMMA AlgoByteKeeps == ASSUME ActuatorsInv, AlgoLow \/ AlgoHigh PROVE ActuatorsInv'
<1> DEFINE low == PumpByte("pumpLow", LowByte(pumpOn))
           high == PumpByte("pumpHigh", HighByte(pumpOn))
<1>1. Fitting(low) /\ Quiet(low) /\ Fitting(high) /\ Quiet(high)
  <2>1. ASSUME NEW byte \in PumpBytes, NEW c \in {0, 15, 255}
        PROVE  Fitting(PumpByte(byte, c)) /\ Quiet(PumpByte(byte, c))
    <3>1. c \in 0..FullDuty /\ c \in 0..255
      BY SMT DEF FullDuty
    <3>2. byte \in Outs /\ byte \notin Bridge
      BY DEF Outs, PumpBytes, Bridge
    <3>q. QED
      BY <3>1, <3>2 DEF PumpByte, Fitting, Quiet
  <2>2. LowByte(pumpOn) \in {0, 15, 255} /\ HighByte(pumpOn) \in {0, 15, 255}
    BY DEF LowByte, HighByte
  <2>3. "pumpLow" \in PumpBytes /\ "pumpHigh" \in PumpBytes
    BY DEF PumpBytes
  <2>q. QED
    BY <2>1, <2>2, <2>3
<1>2. /\ Attempt(low) \/ Attempt(high)
      /\ algoPc' \in {"high", "loop"}
      /\ UNCHANGED <<phase, step, oldmode, motorPc, speed, angle, pumpOn, switched, lives>>
  BY DEF AlgoLow, AlgoHigh, AlgoOnly, main, motor
<1> HIDE DEF low, high
<1>3. ThreadTypeOK' /\ StepInPhase'
  BY <1>2 DEF ActuatorsInv, ThreadTypeOK, StepInPhase
<1>q. QED
  BY <1>1, <1>2, <1>3, QuietStep DEF ActuatorsInv

\* The steps that send nothing to the chip.
LEMMA SilentKeeps ==
    ASSUME ActuatorsInv,
           MotorCopy \/ MotorLeave \/ SwitchOn \/ SwitchOff \/ AlgoLeave
           \/ Lower \/ Joined \/ Die \/ Rerun \/ UNCHANGED actuatorVars
    PROVE  ActuatorsInv'
<1> USE DEF ActuatorsInv, ThreadTypeOK, StepInPhase, chip, main, motor, algo
<1>1. CASE MotorCopy
  BY <1>1, ConstantTypes, StillStep DEF MotorCopy, MotorOnly
<1>2. CASE MotorLeave
  BY <1>2, ConstantTypes, StillStep DEF MotorLeave, MotorOnly
<1>3. CASE SwitchOn \/ SwitchOff
  BY <1>3, StillStep DEF SwitchOn, SwitchOff, Switch, AlgoOnly
<1>4. CASE AlgoLeave
  BY <1>4, StillStep DEF AlgoLeave, AlgoOnly
<1>5. CASE Lower \/ Joined \/ Die
  BY <1>5, StillStep DEF Lower, Joined, Die
<1>6. CASE Rerun
  <2>1. lives' \in 1..MaxLives
    BY <1>6, ConstantTypes DEF Rerun
  <2>2. ChipTypeOK' /\ BridgeInv'
    BY <1>6, StillStep DEF Rerun
  <2>3. speed' \in Commands /\ angle' \in Angles \cup {SteerCentre}
    BY <1>6, ConstantTypes DEF Rerun
  <2>4. ThreadTypeOK'
    BY <1>6, <2>1, <2>3 DEF Rerun
  <2>5. StepInPhase'
    BY <1>6 DEF Rerun
  <2>q. QED
    BY <2>2, <2>4, <2>5
<1>7. CASE UNCHANGED actuatorVars
  BY <1>7, StillStep DEF actuatorVars
<1>q. QED
  BY <1>1, <1>2, <1>3, <1>4, <1>5, <1>6, <1>7

LEMMA StepKeeps == ActuatorsInv /\ [ActuatorsNext]_actuatorVars => ActuatorsInv'
<1> SUFFICES ASSUME ActuatorsInv, [ActuatorsNext]_actuatorVars PROVE ActuatorsInv'
  OBVIOUS
<1>1. CASE InitWrite
  BY <1>1, InitWriteKeeps
<1>2. CASE CleanWrite
  BY <1>2, CleanWriteKeeps
<1>3. CASE MotorThread
  BY <1>3, SilentKeeps, MotorFirstKeeps, MotorSecondKeeps, MotorSteerKeeps, MotorLastKeeps
     DEF MotorThread
<1>4. CASE AlgoThread
  BY <1>4, SilentKeeps, AlgoByteKeeps DEF AlgoThread
<1>5. CASE Lower \/ Joined \/ Die \/ Rerun \/ Over \/ UNCHANGED actuatorVars
  BY <1>5, SilentKeeps DEF Over
<1>q. QED
  BY <1>1, <1>2, <1>3, <1>4, <1>5 DEF ActuatorsNext
-----------------------------------------------------------------------------
(***************************************************************************)
(* Every count the drivers write fits the chip's twelve bits, the pump's   *)
(* bytes fit a byte, and the threads are where their code can be.          *)
(***************************************************************************)
THEOREM ActuatorsTypeCorrect == ActuatorsSpec => []ActuatorsTypeOK
<1>1. ActuatorsInv => ActuatorsTypeOK
  BY InvImplies
<1>q. QED
  BY <1>1, InitKeeps, StepKeeps, PTL DEF ActuatorsSpec

(***************************************************************************)
(* Both inputs of the bridge are driven only after a write that was to     *)
(* turn one of them off has failed: motor_set_speed turns off before it    *)
(* drives, and neither another thread's transactions, nor a death between  *)
(* the two writes, nor the next run's initialisation undoes that.          *)
(***************************************************************************)
THEOREM BridgeIsSafe == ActuatorsSpec => []BridgeSafe
<1>1. ActuatorsInv => BridgeSafe
  BY InvImplies
<1>q. QED
  BY <1>1, InitKeeps, StepKeeps, PTL DEF ActuatorsSpec
-----------------------------------------------------------------------------
(***************************************************************************)
(* What the order of the transactions buys: main's initialisation leaves   *)
(* the chip ready for the threads although pump_init resets it unchecked,  *)
(* the relay follows the spraying loop, and an orderly end leaves the      *)
(* outputs at rest, for every number of failures, deaths and runs.         *)
(***************************************************************************)
(***************************************************************************)
(* The calls of main's initialisation that the argument looks at: the ends *)
(* of motor_init (6 to 8) and of servo_init (16 to 20), and servo centring.*)
(***************************************************************************)
LEMMA QuietIndex ==
    \A s, t \in Seq(QuietWrites) :
        \A i \in 1..(Len(s) + Len(t)) :
            (s \o t)[i] = IF i <= Len(s) THEN s[i] ELSE t[i - Len(s)]
BY ConcatProperties, Zenon

LEMMA ConcatAt ==
    ASSUME NEW s \in Seq(QuietWrites), NEW t \in Seq(QuietWrites)
    PROVE  /\ \A i \in 1..Len(s) : (s \o t)[i] = s[i]
           /\ \A i \in 1..Len(t) : (s \o t)[Len(s) + i] = t[i]
<1> DEFINE c == s \o t  n == Len(s)  m == Len(t)
<1>1. \A i \in 1..(n + m) : c[i] = IF i <= n THEN s[i] ELSE t[i - n]
  BY QuietIndex, Zenon
<1>2. n \in Nat /\ m \in Nat
  OBVIOUS
<1> HIDE DEF c, n, m
<1>3. \A i \in 1..n : c[i] = s[i]
  BY <1>1, <1>2
<1>4. \A i \in 1..m : c[n + i] = t[i]
  <2> SUFFICES ASSUME NEW i \in 1..m PROVE c[n + i] = t[i]
    OBVIOUS
  <2>1. n + i \in 1..(n + m) /\ ~(n + i <= n) /\ (n + i) - n = i
    BY <1>2
  <2>q. QED
    BY <1>1, <2>1
<1>q. QED
  BY <1>3, <1>4 DEF c, n, m

\* What such a fact says of the first six positions.
LEMMA Positions ==
    ASSUME NEW f, NEW g, NEW n \in Nat, NEW k \in 1..6, \A i \in 1..k : f[n + i] = g[i]
    PROVE  /\ f[n + 1] = g[1]
           /\ k >= 2 => f[n + 2] = g[2]
           /\ k >= 3 => f[n + 3] = g[3]
           /\ k >= 4 => f[n + 4] = g[4]
           /\ k >= 5 => f[n + 5] = g[5]
           /\ k >= 6 => f[n + 6] = g[6]
<1>1. /\ 1 \in 1..k
      /\ k >= 2 => 2 \in 1..k
      /\ k >= 3 => 3 \in 1..k
      /\ k >= 4 => 4 \in 1..k
      /\ k >= 5 => 5 \in 1..k
      /\ k >= 6 => 6 \in 1..k
  OBVIOUS
<1>q. QED
  BY <1>1, Zenon

LEMMA FrequencyCalls ==
    ASSUME NEW n
    PROVE  /\ SetFrequency(n)[1] = Mode1("sleep", TRUE)
           /\ SetFrequency(n)[2] = Prescale(n, TRUE)
           /\ SetFrequency(n)[3] = Mode1("old", TRUE)
           /\ SetFrequency(n)[4] = Mode1("oldAuto", TRUE)
<1> DEFINE a == Mode1("sleep", TRUE)  b == Prescale(n, TRUE)
           c == Mode1("old", TRUE)    d == Mode1("oldAuto", TRUE)
<1>1. SetFrequency(n) = <<a, b, c, d>>
  BY DEF SetFrequency
<1> HIDE DEF a, b, c, d
<1>2. <<a, b, c, d>>[1] = a /\ <<a, b, c, d>>[2] = b /\ <<a, b, c, d>>[3] = c /\ <<a, b, c, d>>[4] = d
  OBVIOUS
<1>q. QED
  BY <1>1, <1>2 DEF a, b, c, d

LEMMA MotorInitCalls ==
    /\ MotorInit[1] = Open("motor") /\ MotorInit[2] = Mode1("reset", TRUE)
    /\ \A i \in 1..4 : MotorInit[2 + i] = SetFrequency(MotorPrescale)[i]
    /\ MotorInit[7] = Burst("in1", 0) /\ MotorInit[8] = Burst("in2", 0)
<1> DEFINE o == Open("motor")  r == Mode1("reset", TRUE)
           a == Burst("in1", 0)  b == Burst("in2", 0)
           freq == SetFrequency(MotorPrescale)
<1>1. o \in QuietWrites /\ r \in QuietWrites /\ a \in QuietWrites /\ b \in QuietWrites
  <2>1. "motor" \in Drivers /\ "reset" \in Settings /\ "in1" \in Bridge /\ "in2" \in Bridge
    BY DEF Drivers, Settings, Bridge
  <2>q. QED
    BY <2>1 DEF QuietWrites
<1>2. freq \in Seq(QuietWrites) /\ Len(freq) = 4
  BY FrequencyWrites DEF Prescales
<1> DEFINE start == <<o, r>>  stop == <<a, b>>  both == start \o freq  all == both \o stop
<1>3. MotorInit = all
  BY DEF MotorInit
<1> HIDE DEF o, r, a, b, freq
<1>4. /\ start \in Seq(QuietWrites) /\ Len(start) = 2 /\ start[1] = o /\ start[2] = r
      /\ stop \in Seq(QuietWrites) /\ Len(stop) = 2 /\ stop[1] = a /\ stop[2] = b
  BY <1>1
<1> HIDE DEF start, stop
<1>5. /\ both \in Seq(QuietWrites) /\ Len(both) = Len(start) + Len(freq)
      /\ \A i \in 1..Len(start) : both[i] = start[i]
      /\ \A i \in 1..Len(freq) : both[Len(start) + i] = freq[i]
  BY <1>2, <1>4, QuietConcat, ConcatAt, Zenon
<1> HIDE DEF both
<1>6. /\ \A i \in 1..Len(both) : all[i] = both[i]
      /\ \A i \in 1..Len(stop) : all[Len(both) + i] = stop[i]
  BY <1>4, <1>5, ConcatAt, Zenon
<1> HIDE DEF all
<1>7. Len(both) = 6
  BY <1>2, <1>4, <1>5
<1>8. all[1] = o /\ all[2] = r
  BY <1>4, <1>5, <1>6, <1>7
<1>9. all[6 + 1] = a /\ all[6 + 2] = b
  <2>1. \A i \in 1..2 : all[6 + i] = stop[i]
    BY <1>4, <1>6, <1>7
  <2>q. QED
    BY <1>4, <2>1, Positions
<1>10. ASSUME NEW i \in 1..4 PROVE all[2 + i] = freq[i]
  <2>1. 2 + i \in 1..6 /\ i \in 1..Len(freq)
    BY <1>2
  <2>2. both[2 + i] = freq[i]
    BY <1>4, <1>5, <2>1
  <2>3. all[2 + i] = both[2 + i]
    BY <1>6, <1>7, <2>1
  <2>q. QED
    BY <2>2, <2>3
<1>q. QED
  BY <1>3, <1>8, <1>9, <1>10 DEF o, r, a, b, freq

LEMMA PumpInitKinds == \A i \in 1..6 : PumpInit[i].kind # "burst"
BY DEF PumpInit, Open, Mode1, Prescale

LEMMA ServoInitCalls ==
    /\ ServoInit[1] = Open("servo") /\ ServoInit[2] = Mode1("reset", TRUE)
    /\ \A i \in 1..4 : ServoInit[2 + i] = SetFrequency(ServoPrescale)[i]
<1> DEFINE o == Open("servo")  r == Mode1("reset", TRUE)
           freq == SetFrequency(ServoPrescale)
<1>1. o \in QuietWrites /\ r \in QuietWrites
  <2>1. "servo" \in Drivers /\ "reset" \in Settings
    BY DEF Drivers, Settings
  <2>q. QED
    BY <2>1 DEF QuietWrites
<1>2. freq \in Seq(QuietWrites) /\ Len(freq) = 4
  BY FrequencyWrites DEF Prescales
<1> DEFINE start == <<o, r>>  all == start \o freq
<1>3. ServoInit = all
  BY DEF ServoInit
<1> HIDE DEF o, r, freq
<1>4. start \in Seq(QuietWrites) /\ Len(start) = 2 /\ start[1] = o /\ start[2] = r
  BY <1>1
<1> HIDE DEF start
<1>5. /\ \A i \in 1..Len(start) : all[i] = start[i]
      /\ \A i \in 1..Len(freq) : all[Len(start) + i] = freq[i]
  BY <1>2, <1>4, ConcatAt, Zenon
<1> HIDE DEF all
<1>6. \A i \in 1..4 : all[2 + i] = freq[i]
  BY <1>2, <1>4, <1>5
<1>7. all[1] = o /\ all[2] = r
  BY <1>4, <1>5
<1>q. QED
  BY <1>3, <1>6, <1>7, Zenon DEF o, r, freq

LEMMA InitWritesIndex ==
    /\ \A i \in 1..8 : InitWrites[i] = MotorInit[i]
    /\ \A i \in 1..6 : InitWrites[8 + i] = PumpInit[i]
    /\ \A i \in 1..6 : InitWrites[14 + i] = ServoInit[i]
    /\ InitWrites[21] = CentreSteering
<1> DEFINE centre == <<CentreSteering>>
<1>1. centre \in Seq(QuietWrites) /\ Len(centre) = 1 /\ centre[1] = CentreSteering
  <2> DEFINE w == CentreSteering
  <2>1. w \in QuietWrites
    BY DEF QuietWrites
  <2> HIDE DEF w
  <2>2. <<w>> \in Seq(QuietWrites) /\ Len(<<w>>) = 1 /\ <<w>>[1] = w
    BY <2>1
  <2>q. QED
    BY <2>2 DEF w
<1> HIDE DEF centre
<1> DEFINE two == MotorInit \o PumpInit  three == two \o ServoInit  all == three \o centre
<1>2. InitWrites = all
  BY Zenon DEF InitWrites, centre
<1>3. /\ two \in Seq(QuietWrites) /\ Len(two) = Len(MotorInit) + Len(PumpInit)
      /\ \A i \in 1..Len(MotorInit) : two[i] = MotorInit[i]
      /\ \A i \in 1..Len(PumpInit) : two[Len(MotorInit) + i] = PumpInit[i]
  BY MotorInitWrites, PumpInitWrites, QuietConcat, ConcatAt, Zenon
<1> HIDE DEF two
<1>4. Len(two) = 14
  BY <1>3, MotorInitWrites, PumpInitWrites
<1>5. /\ three \in Seq(QuietWrites) /\ Len(three) = Len(two) + Len(ServoInit)
      /\ \A i \in 1..Len(two) : three[i] = two[i]
      /\ \A i \in 1..Len(ServoInit) : three[Len(two) + i] = ServoInit[i]
  BY <1>3, ServoInitWrites, QuietConcat, ConcatAt, Zenon
<1> HIDE DEF three
<1>6. Len(three) = 20
  BY <1>4, <1>5, ServoInitWrites
<1>7. /\ \A i \in 1..Len(three) : all[i] = three[i]
      /\ \A i \in 1..Len(centre) : all[Len(three) + i] = centre[i]
  BY <1>1, <1>5, ConcatAt, Zenon
<1> HIDE DEF all
<1>8. ASSUME NEW i \in 1..14 PROVE all[i] = two[i]
  <2>1. i \in 1..Len(two) /\ i \in 1..Len(three)
    BY <1>4, <1>6
  <2>q. QED
    BY <1>5, <1>7, <2>1
<1>9. ASSUME NEW i \in 1..8 PROVE all[i] = MotorInit[i]
  <2>1. i \in 1..14 /\ i \in 1..Len(MotorInit)
    BY MotorInitWrites
  <2>q. QED
    BY <1>3, <1>8, <2>1
<1>10. ASSUME NEW i \in 1..6 PROVE all[8 + i] = PumpInit[i]
  <2>1. 8 + i \in 1..14 /\ i \in 1..Len(PumpInit)
    BY PumpInitWrites
  <2>2. two[8 + i] = PumpInit[i]
    BY <1>3, <2>1, MotorInitWrites
  <2>q. QED
    BY <1>8, <2>1, <2>2
<1>11. ASSUME NEW i \in 1..6 PROVE all[14 + i] = ServoInit[i]
  <2>1. 14 + i \in 1..Len(three) /\ i \in 1..Len(ServoInit)
    BY <1>6, ServoInitWrites
  <2>2. three[14 + i] = ServoInit[i]
    BY <1>4, <1>5, <2>1
  <2>q. QED
    BY <1>7, <2>1, <2>2
<1>12. all[21] = CentreSteering
  <2>1. 1 \in 1..Len(centre) /\ Len(three) + 1 = 21
    BY <1>1, <1>6
  <2>2. all[Len(three) + 1] = centre[1]
    BY <1>7, <2>1, Zenon
  <2>q. QED
    BY <1>1, <2>1, <2>2
<1>q. QED
  BY <1>2, <1>9, <1>10, <1>11, <1>12

LEMMA InitCalls ==
    /\ InitWrites[6] = Mode1("oldAuto", TRUE)
    /\ InitWrites[7] = Burst("in1", 0) /\ InitWrites[8] = Burst("in2", 0)
    /\ InitWrites[16] = Mode1("reset", TRUE) /\ InitWrites[17] = Mode1("sleep", TRUE)
    /\ InitWrites[18] = Prescale(ServoPrescale, TRUE)
    /\ InitWrites[19] = Mode1("old", TRUE) /\ InitWrites[20] = Mode1("oldAuto", TRUE)
    /\ InitWrites[21] = CentreSteering
    /\ \A i \in 1..21 : InitWrites[i].kind = "burst" => i \in {7, 8, 21}
<1>1. /\ InitWrites[1] = Open("motor") /\ InitWrites[2] = Mode1("reset", TRUE)
      /\ InitWrites[3] = Mode1("sleep", TRUE) /\ InitWrites[4] = Prescale(MotorPrescale, TRUE)
      /\ InitWrites[5] = Mode1("old", TRUE) /\ InitWrites[6] = Mode1("oldAuto", TRUE)
      /\ InitWrites[7] = Burst("in1", 0) /\ InitWrites[8] = Burst("in2", 0)
  <2>1. /\ MotorInit[2 + 1] = Mode1("sleep", TRUE)
        /\ MotorInit[2 + 2] = Prescale(MotorPrescale, TRUE)
        /\ MotorInit[2 + 3] = Mode1("old", TRUE)
        /\ MotorInit[2 + 4] = Mode1("oldAuto", TRUE)
    <3> DEFINE freq == SetFrequency(MotorPrescale)
    <3>1. \A i \in 1..4 : MotorInit[2 + i] = freq[i]
      BY MotorInitCalls
    <3>2. /\ freq[1] = Mode1("sleep", TRUE) /\ freq[2] = Prescale(MotorPrescale, TRUE)
          /\ freq[3] = Mode1("old", TRUE) /\ freq[4] = Mode1("oldAuto", TRUE)
      BY FrequencyCalls, Zenon
    <3> HIDE DEF freq
    <3>3. /\ MotorInit[2 + 1] = freq[1] /\ MotorInit[2 + 2] = freq[2]
          /\ MotorInit[2 + 3] = freq[3] /\ MotorInit[2 + 4] = freq[4]
      BY <3>1, Positions
    <3>q. QED
      BY <3>2, <3>3, Zenon
  <2>2. \A i \in 1..8 : InitWrites[i] = MotorInit[i]
    BY InitWritesIndex
  <2>3. /\ InitWrites[1] = MotorInit[1] /\ InitWrites[2] = MotorInit[2]
        /\ InitWrites[3] = MotorInit[2 + 1] /\ InitWrites[4] = MotorInit[2 + 2]
        /\ InitWrites[5] = MotorInit[2 + 3] /\ InitWrites[6] = MotorInit[2 + 4]
        /\ InitWrites[7] = MotorInit[7] /\ InitWrites[8] = MotorInit[8]
    BY <2>2
  <2>q. QED
    BY <2>1, <2>3, MotorInitCalls
<1>2. ASSUME NEW i \in 9..14 PROVE InitWrites[i].kind # "burst"
  <2>1. i - 8 \in 1..6 /\ 8 + (i - 8) = i
    OBVIOUS
  <2>2. InitWrites[8 + (i - 8)] = PumpInit[i - 8]
    BY <2>1, InitWritesIndex
  <2>q. QED
    BY <2>1, <2>2, PumpInitKinds
<1>3. /\ InitWrites[15] = Open("servo") /\ InitWrites[16] = Mode1("reset", TRUE)
      /\ InitWrites[17] = Mode1("sleep", TRUE) /\ InitWrites[18] = Prescale(ServoPrescale, TRUE)
      /\ InitWrites[19] = Mode1("old", TRUE) /\ InitWrites[20] = Mode1("oldAuto", TRUE)
  <2>1. /\ ServoInit[2 + 1] = Mode1("sleep", TRUE)
        /\ ServoInit[2 + 2] = Prescale(ServoPrescale, TRUE)
        /\ ServoInit[2 + 3] = Mode1("old", TRUE)
        /\ ServoInit[2 + 4] = Mode1("oldAuto", TRUE)
    <3> DEFINE freq == SetFrequency(ServoPrescale)
    <3>1. \A i \in 1..4 : ServoInit[2 + i] = freq[i]
      BY ServoInitCalls
    <3>2. /\ freq[1] = Mode1("sleep", TRUE) /\ freq[2] = Prescale(ServoPrescale, TRUE)
          /\ freq[3] = Mode1("old", TRUE) /\ freq[4] = Mode1("oldAuto", TRUE)
      BY FrequencyCalls, Zenon
    <3> HIDE DEF freq
    <3>3. /\ ServoInit[2 + 1] = freq[1] /\ ServoInit[2 + 2] = freq[2]
          /\ ServoInit[2 + 3] = freq[3] /\ ServoInit[2 + 4] = freq[4]
      BY <3>1, Positions
    <3>q. QED
      BY <3>2, <3>3, Zenon
  <2>2. /\ InitWrites[14 + 1] = ServoInit[1] /\ InitWrites[14 + 2] = ServoInit[2]
        /\ InitWrites[14 + 3] = ServoInit[3] /\ InitWrites[14 + 4] = ServoInit[4]
        /\ InitWrites[14 + 5] = ServoInit[5] /\ InitWrites[14 + 6] = ServoInit[6]
    <3>1. \A i \in 1..6 : InitWrites[14 + i] = ServoInit[i]
      BY InitWritesIndex
    <3>q. QED
      BY <3>1, Positions
  <2>3. /\ InitWrites[15] = ServoInit[1] /\ InitWrites[16] = ServoInit[2]
        /\ InitWrites[17] = ServoInit[2 + 1] /\ InitWrites[18] = ServoInit[2 + 2]
        /\ InitWrites[19] = ServoInit[2 + 3] /\ InitWrites[20] = ServoInit[2 + 4]
    BY <2>2
  <2>q. QED
    BY <2>1, <2>3, ServoInitCalls
<1>4. \A i \in 1..6 \cup 15..20 : InitWrites[i].kind # "burst"
  <2>1. \A i \in 1..6 : InitWrites[i].kind # "burst"
    BY <1>1 DEF Open, Mode1, Prescale
  <2>2. \A i \in 15..20 : InitWrites[i].kind # "burst"
    BY <1>3 DEF Open, Mode1, Prescale
  <2>q. QED
    BY <2>1, <2>2
<1>5. \A i \in 1..21 : i \in 1..6 \cup 15..20 \/ i \in 9..14 \/ i \in {7, 8, 21}
  OBVIOUS
<1>q. QED
  BY <1>1, <1>2, <1>3, <1>4, <1>5, InitWritesIndex
-----------------------------------------------------------------------------
(***************************************************************************)
(* The invariant: MODE1 and the prescaler along main's initialisation, the *)
(* pump's bytes along the algorithm thread's writes, and the outputs at    *)
(* rest along main's clean-up.  It is inductive beside ActuatorsInv.       *)
(***************************************************************************)
Holds(out, count) == led[out] = count \/ out \in missed

Booting ==
    phase = "init" =>
        /\ ~switched /\ motorPc = "none" /\ algoPc = "none"
        /\ step \in {7, 8} => "AI" \in mode1
        /\ step = 17 => mode1 = {}
        /\ step \in 18..20 => oldmode = {}
        /\ step = 18 => "SLEEP" \in mode1
        /\ step \in 19..21 => prescale = ServoPrescale
        /\ step = 21 => mode1 = {"AI"}

Booted ==
    phase \in {"run", "join", "clean", "done"} =>
        mode1 = {"AI"} /\ prescale = ServoPrescale

PumpWritten ==
    phase = "run" /\ switched =>
        /\ algoPc \in {"high", "loop"} => Holds("pumpLow", LowByte(pumpOn))
        /\ algoPc = "loop" => Holds("pumpHigh", HighByte(pumpOn))

Cleaned(n) ==
    /\ n > 1 => Holds("in1", 0)
    /\ n > 2 => Holds("in2", 0)
    /\ n > 3 => Holds("pumpLow", 0)
    /\ n > 4 => Holds("pumpHigh", 0)
    /\ n > 5 => Holds("steer", AngleToCount(SteerCentre))

Cleaning ==
    /\ phase \in {"clean", "done"} => motorPc = "done" /\ algoPc = "done"
    /\ phase = "clean" => Cleaned(step)
    /\ phase = "done" => Cleaned(6)

ChipInv == ActuatorsInv /\ Booting /\ Booted /\ PumpWritten /\ Cleaning

LEMMA ChipInvImplies ==
    ChipInv => NoBlindBurst /\ ChipReady /\ ExitAtRest /\ PumpFollows
<1> SUFFICES ASSUME ChipInv PROVE NoBlindBurst /\ ChipReady /\ ExitAtRest /\ PumpFollows
  OBVIOUS
<1>1. NoBlindBurst
  <2>1. phase = "init" /\ InitWrites[step].kind = "burst" => step \in {7, 8, 21}
    BY InitCalls DEF ChipInv, ActuatorsInv, StepInPhase
  <2>q. QED
    BY <2>1 DEF ChipInv, Booting, Booted, NoBlindBurst, Bursting
<1>2. ChipReady
  BY DEF ChipInv, Booted, ChipReady
<1>3. ExitAtRest
  <2> SUFFICES ASSUME phase = "done", NEW out \in Outs \ missed PROVE AtRest(out)
    BY DEF ExitAtRest
  <2>1. Cleaned(6)
    BY DEF ChipInv, Cleaning
  <2>2. /\ Holds("in1", 0) /\ Holds("in2", 0) /\ Holds("pumpLow", 0) /\ Holds("pumpHigh", 0)
        /\ Holds("steer", AngleToCount(SteerCentre))
    BY <2>1 DEF Cleaned
  <2>q. QED
    BY <2>2 DEF Holds, AtRest, Outs, Bridge, PumpBytes
<1>4. PumpFollows
  <2> SUFFICES ASSUME phase = "run", algoPc = "loop", switched, missed \cap PumpBytes = {}
               PROVE  PumpCount = IF pumpOn THEN FullDuty ELSE 0
    BY DEF PumpFollows
  <2>1. Holds("pumpLow", LowByte(pumpOn)) /\ Holds("pumpHigh", HighByte(pumpOn))
    BY DEF ChipInv, PumpWritten
  <2>2. "pumpLow" \notin missed /\ "pumpHigh" \notin missed
    BY DEF PumpBytes
  <2>3. led["pumpLow"] = LowByte(pumpOn) /\ led["pumpHigh"] = HighByte(pumpOn)
    BY <2>1, <2>2 DEF Holds
  <2>4. pumpOn \in BOOLEAN
    BY DEF ChipInv, ActuatorsInv, ThreadTypeOK
  <2>5. CASE pumpOn
    <3>1. led["pumpLow"] = 255 /\ led["pumpHigh"] = 15
      BY <2>3, <2>5 DEF LowByte, HighByte
    <3>q. QED
      BY <2>5, <3>1 DEF PumpCount, FullDuty
  <2>6. CASE ~pumpOn
    <3>1. led["pumpLow"] = 0 /\ led["pumpHigh"] = 0
      BY <2>3, <2>6 DEF LowByte, HighByte
    <3>q. QED
      BY <2>6, <3>1 DEF PumpCount
  <2>q. QED
    BY <2>5, <2>6
<1>q. QED
  BY <1>1, <1>2, <1>3, <1>4

(***************************************************************************)
(* What one transaction does to an output and to the chip's mode.          *)
(***************************************************************************)
LEMMA WrittenHolds ==
    ASSUME ChipTypeOK, NEW w, Attempt(w), w.kind \in {"burst", "byte"}, w.reg \in Outs
    PROVE  led'[w.reg] = w.val \/ w.reg \in missed'
<1>1. DOMAIN led = Outs
  BY DEF ChipTypeOK
<1>2. CASE Transfer(w)
  BY <1>1, <1>2 DEF Transfer, Reaches
<1>3. CASE FailedTransfer(w)
  BY <1>3 DEF FailedTransfer
<1>q. QED
  BY <1>2, <1>3 DEF Attempt

LEMMA OtherHolds ==
    ASSUME ChipTypeOK, NEW w, Attempt(w), NEW out \in Outs, NEW count, Holds(out, count),
           w.kind \in {"burst", "byte"} => w.reg # out
    PROVE  led'[out] = count \/ out \in missed'
<1>1. DOMAIN led = Outs
  BY DEF ChipTypeOK
<1>2. CASE Transfer(w)
  BY <1>1, <1>2 DEF Holds, Transfer, Reaches
<1>3. CASE FailedTransfer(w)
  BY <1>3 DEF Holds, FailedTransfer
<1>q. QED
  BY <1>2, <1>3 DEF Attempt

LEMMA OutputOnly ==
    ASSUME NEW w, Attempt(w), w.kind \in {"burst", "byte"}
    PROVE  mode1' = mode1 /\ prescale' = prescale
BY DEF Attempt, Transfer, FailedTransfer
-----------------------------------------------------------------------------
(***************************************************************************)
(* One lemma per kind of step.                                             *)
(***************************************************************************)
ChipPart == Booting /\ Booted /\ PumpWritten /\ Cleaning

LEMMA CheckedCalls ==
    ASSUME NEW w, InitWrite, w = InitWrites[step], w.checked, phase' # "failed"
    PROVE  Transfer(w)
BY DEF InitWrite

LEMMA InitWriteKeepsChip == ASSUME ChipInv, InitWrite PROVE ChipPart'
<1> DEFINE w == InitWrites[step]
<1>1. /\ step \in 1..21 /\ phase = "init" /\ ~switched /\ switched' = switched
      /\ Attempt(w)
      /\ phase' # "run" => motorPc' = motorPc /\ algoPc' = algoPc
      /\ oldmode' = IF w.kind = "mode1" /\ w.val = "sleep" THEN mode1 ELSE oldmode
  <2>1. step \in 1..21 /\ ~switched
    BY DEF ChipInv, ActuatorsInv, StepInPhase, Booting, InitWrite
  <2>q. QED
    BY <2>1 DEF InitWrite, Attempt
<1>2. \/ phase' = "run" /\ step = 21
      \/ phase' = "init" /\ step' = step + 1 /\ step # 21
      \/ phase' = "failed"
  <2>1. NextStep(InitWrites, "run") \/ phase' = "failed"
    BY DEF InitWrite
  <2>q. QED
    BY <1>1, <2>1, AllInitWrites DEF NextStep
<1>3. ASSUME phase' # "failed", w.checked PROVE Transfer(w)
  BY <1>3, CheckedCalls
<1>4. step = 6 /\ phase' # "failed" => "AI" \in mode1'
  BY <1>3, InitCalls DEF Mode1, Transfer, Mode1Value
<1>5. step \in {7, 8, 21} => mode1' = mode1 /\ prescale' = prescale
  <2>1. step \in {7, 8, 21} => w.kind = "burst"
    BY InitCalls DEF Burst, CentreSteering
  <2>q. QED
    BY <1>1, <2>1, OutputOnly
<1>6. step = 16 /\ phase' # "failed" => mode1' = {}
  BY <1>3, InitCalls DEF Mode1, Transfer, Mode1Value
<1>7. step = 17 /\ phase' # "failed" => "SLEEP" \in mode1' /\ oldmode' = mode1
  BY <1>1, <1>3, InitCalls DEF Mode1, Transfer, Mode1Value
<1>8. step = 18 /\ phase' # "failed" =>
          ("SLEEP" \in mode1 => prescale' = ServoPrescale) /\ oldmode' = oldmode
  BY <1>1, <1>3, InitCalls DEF Prescale, Transfer
<1>9. step = 19 /\ phase' # "failed" => prescale' = prescale /\ oldmode' = oldmode
  BY <1>1, <1>3, InitCalls DEF Mode1, Transfer
<1>10. step = 20 /\ phase' # "failed" => prescale' = prescale /\ mode1' = oldmode \cup {"AI"}
  BY <1>3, InitCalls DEF Mode1, Transfer, Mode1Value
<1> HIDE DEF w
<1>11. Booting
  BY DEF ChipInv
<1>12. CASE phase' = "init" /\ step' = step + 1 /\ step # 21
  <2>2. step' \in {7, 8} => "AI" \in mode1'
    BY <1>1, <1>4, <1>5, <1>11, <1>12 DEF Booting
  <2>3. step' = 17 => mode1' = {}
    BY <1>1, <1>6, <1>12
  <2>4. step' \in 18..20 => oldmode' = {}
    BY <1>1, <1>7, <1>8, <1>9, <1>11, <1>12 DEF Booting
  <2>5. step' = 18 => "SLEEP" \in mode1'
    BY <1>1, <1>7, <1>12
  <2>6. step' \in 19..21 => prescale' = ServoPrescale
    BY <1>1, <1>8, <1>9, <1>10, <1>11, <1>12 DEF Booting
  <2>7. step' = 21 => mode1' = {"AI"}
    BY <1>1, <1>10, <1>11, <1>12 DEF Booting
  <2>q. QED
    BY <1>1, <1>11, <1>12, <2>2, <2>3, <2>4, <2>5, <2>6, <2>7
       DEF ChipPart, Booting, Booted, PumpWritten, Cleaning
<1>13. CASE phase' = "run" /\ step = 21
  <2>1. mode1' = {"AI"} /\ prescale' = ServoPrescale
    BY <1>1, <1>5, <1>11, <1>13 DEF Booting
  <2>q. QED
    BY <1>1, <1>13, <2>1 DEF ChipPart, Booting, Booted, PumpWritten, Cleaning
<1>14. CASE phase' = "failed"
  BY <1>14 DEF ChipPart, Booting, Booted, PumpWritten, Cleaning
<1>q. QED
  BY <1>2, <1>12, <1>13, <1>14

LEMMA CleanCalls ==
    /\ CleanWrites[1] = Burst("in1", 0) /\ CleanWrites[2] = Burst("in2", 0)
    /\ CleanWrites[3] = PumpByte("pumpLow", 0) /\ CleanWrites[4] = PumpByte("pumpHigh", 0)
    /\ CleanWrites[5] = CentreSteering
<1> DEFINE a == Burst("in1", 0)  b == Burst("in2", 0)  c == CentreSteering
           l == PumpByte("pumpLow", 0)  h == PumpByte("pumpHigh", 0)
<1>1. CleanWrites = <<a, b, l, h, c>>
  BY DEF CleanWrites, LowByte, HighByte
<1> HIDE DEF a, b, c, l, h
<1>q. QED
  BY <1>1 DEF a, b, c, l, h

LEMMA CleanWriteKeepsChip == ASSUME ChipInv, CleanWrite PROVE ChipPart'
<1> DEFINE w == CleanWrites[step]
<1>1. step \in 1..5 /\ phase = "clean" /\ Cleaned(step) /\ ChipTypeOK /\ Booted
  BY DEF ChipInv, ActuatorsInv, StepInPhase, Cleaning, CleanWrite
<1>2. Attempt(w) /\ motorPc' = "done" /\ algoPc' = "done"
  BY DEF CleanWrite, ChipInv, Cleaning, motor, algo
<1>3. \/ phase' = "done" /\ step = 5
      \/ phase' = "clean" /\ step' = step + 1 /\ step # 5
  BY <1>1, AllCleanWrites DEF CleanWrite, NextStep
<1>4. /\ w.kind \in {"burst", "byte"}
      /\ step = 1 => w.reg = "in1" /\ w.val = 0
      /\ step = 2 => w.reg = "in2" /\ w.val = 0
      /\ step = 3 => w.reg = "pumpLow" /\ w.val = 0
      /\ step = 4 => w.reg = "pumpHigh" /\ w.val = 0
      /\ step = 5 => w.reg = "steer" /\ w.val = AngleToCount(SteerCentre)
  <2>1. step = 1 \/ step = 2 \/ step = 3 \/ step = 4 \/ step = 5
    BY <1>1
  <2>q. QED
    BY <2>1, CleanCalls DEF Burst, PumpByte, CentreSteering
<1> HIDE DEF w
<1>5. mode1' = {"AI"} /\ prescale' = ServoPrescale
  BY <1>1, <1>2, <1>4, OutputOnly DEF Booted
<1>6. "in1" \in Outs /\ "in2" \in Outs /\ "pumpLow" \in Outs /\ "pumpHigh" \in Outs
      /\ "steer" \in Outs
  BY DEF Outs, Bridge, PumpBytes
<1>7. w.reg \in Outs /\ (led'[w.reg] = w.val \/ w.reg \in missed')
  <2>1. w.reg \in Outs
    BY <1>1, <1>4, <1>6
  <2>q. QED
    BY <1>1, <1>2, <1>4, <2>1, WrittenHolds
<1>8. ASSUME NEW out \in Outs, NEW count, Holds(out, count), w.reg # out
      PROVE  led'[out] = count \/ out \in missed'
  BY <1>1, <1>2, <1>8, OtherHolds
<1>9. ASSUME NEW n, n = step + 1 PROVE Cleaned(n)'
  <2>1. led'["in1"] = 0 \/ "in1" \in missed'
    BY <1>1, <1>4, <1>6, <1>7, <1>8 DEF Cleaned
  <2>2. step > 1 => led'["in2"] = 0 \/ "in2" \in missed'
    BY <1>1, <1>4, <1>6, <1>7, <1>8 DEF Cleaned
  <2>3. step > 2 => led'["pumpLow"] = 0 \/ "pumpLow" \in missed'
    BY <1>1, <1>4, <1>6, <1>7, <1>8 DEF Cleaned
  <2>4. step > 3 => led'["pumpHigh"] = 0 \/ "pumpHigh" \in missed'
    BY <1>1, <1>4, <1>6, <1>7, <1>8 DEF Cleaned
  <2>5. step > 4 => led'["steer"] = AngleToCount(SteerCentre) \/ "steer" \in missed'
    BY <1>1, <1>4, <1>7
  <2>q. QED
    BY <1>1, <1>9, <2>1, <2>2, <2>3, <2>4, <2>5 DEF Cleaned, Holds
<1>10. Cleaning'
  <2>1. CASE phase' = "done" /\ step = 5
    <3>1. Cleaned(6)'
      BY <1>9, <2>1
    <3>q. QED
      BY <1>2, <2>1, <3>1 DEF Cleaning
  <2>2. CASE phase' = "clean" /\ step' = step + 1
    <3>1. \A n : n = step + 1 => Cleaned(n)'
      BY <1>9
    <3>2. Cleaned(step)'
      BY <2>2, <3>1 DEF Cleaned, Holds
    <3>q. QED
      BY <1>2, <2>2, <3>2 DEF Cleaning
  <2>q. QED
    BY <1>3, <2>1, <2>2
<1>q. QED
  BY <1>3, <1>5, <1>10 DEF ChipPart, Booting, Booted, PumpWritten

\* The threads write to outputs only, and not while main does.
LEMMA ThreadWriteKeepsChip ==
    ASSUME ChipInv, NEW w, Attempt(w), w.kind \in {"burst", "byte"},
           phase' = phase, phase \in {"run", "join"}
    PROVE  Booting' /\ Booted' /\ Cleaning'
<1>1. mode1' = mode1 /\ prescale' = prescale
  BY OutputOnly
<1>q. QED
  BY <1>1 DEF ChipInv, Booting, Booted, Cleaning

LEMMA MotorKeepsChip == ASSUME ChipInv, MotorThread, Running PROVE ChipPart'
<1>1. /\ UNCHANGED <<phase, algoPc, pumpOn, switched>>
      /\ motorPc \notin {"none", "done"}
  BY DEF MotorThread, MotorCopy, MotorFirst, MotorSecond, MotorSteer, MotorLeave, MotorLast,
         MotorOnly, main, algo
<1>2. phase \in {"run", "join"}
  BY <1>1 DEF ChipInv, ActuatorsInv, ThreadTypeOK, Cleaning, Booting, Running, Ended
<1>3. ChipTypeOK /\ "pumpLow" \in Outs /\ "pumpHigh" \in Outs
  BY DEF ChipInv, ActuatorsInv, Outs, PumpBytes
<1>4. CASE MotorCopy \/ MotorLeave
  <2>1. UNCHANGED <<mode1, prescale, led, missed>>
    BY <1>4 DEF MotorCopy, MotorLeave, chip
  <2>q. QED
    BY <1>1, <1>2, <2>1
       DEF ChipInv, ChipPart, Booting, Booted, PumpWritten, Cleaning, Holds
<1>5. CASE MotorFirst \/ MotorSecond \/ MotorSteer \/ MotorLast
  <2>1. PICK out \in Bridge \cup {"steer"} : \E count : Attempt(Burst(out, count))
    <3>1. "in1" \in Bridge /\ "in2" \in Bridge
          /\ FirstInput(speed) \in Bridge /\ SecondInput(speed) \in Bridge
      BY Inputs DEF Bridge
    <3>2. \/ Attempt(Burst(FirstInput(speed), 0))
          \/ Attempt(Burst(SecondInput(speed), Duty(speed)))
          \/ Attempt(Burst("steer", AngleToCount(angle)))
          \/ Attempt(Burst("in1", 0)) \/ Attempt(Burst("in2", 0))
          \/ Attempt(Burst("steer", AngleToCount(SteerCentre)))
      BY <1>5 DEF MotorFirst, MotorSecond, MotorSteer, MotorLast, CentreSteering
    <3>q. QED
      BY <3>1, <3>2, Zenon
  <2>2. PICK count : Attempt(Burst(out, count))
    BY <2>1
  <2> DEFINE w == Burst(out, count)
  <2>3. w.kind = "burst" /\ w.reg = out /\ Attempt(w)
    BY <2>2 DEF Burst
  <2> HIDE DEF w
  <2>4. out # "pumpLow" /\ out # "pumpHigh"
    BY DEF Bridge
  <2>5. ASSUME NEW byte \in PumpBytes, NEW val, Holds(byte, val)
        PROVE  led'[byte] = val \/ byte \in missed'
    BY <1>3, <2>3, <2>4, <2>5, OtherHolds DEF PumpBytes
  <2>6. PumpWritten'
    BY <1>1, <1>2, <2>5 DEF ChipInv, PumpWritten, Holds, PumpBytes
  <2>q. QED
    BY <1>1, <1>2, <2>3, <2>6, ThreadWriteKeepsChip DEF ChipPart
<1>q. QED
  BY <1>4, <1>5 DEF MotorThread

LEMMA AlgoKeepsChip == ASSUME ChipInv, AlgoThread, Running PROVE ChipPart'
<1>1. phase' = phase /\ algoPc \notin {"none", "done"}
  BY DEF AlgoThread, SwitchOn, SwitchOff, Switch, AlgoLow, AlgoHigh, AlgoLeave, AlgoOnly, main
<1>2. phase \in {"run", "join"}
  BY <1>1 DEF ChipInv, ActuatorsInv, ThreadTypeOK, Cleaning, Booting, Running, Ended
<1>3. ChipTypeOK /\ "pumpLow" \in Outs /\ "pumpHigh" \in Outs
  BY DEF ChipInv, ActuatorsInv, Outs, PumpBytes
<1>4. CASE SwitchOn \/ SwitchOff \/ AlgoLeave
  <2>1. UNCHANGED <<mode1, prescale>> /\ algoPc' \in {"low", "done"}
    BY <1>4 DEF SwitchOn, SwitchOff, Switch, AlgoLeave, chip
  <2>q. QED
    BY <1>1, <1>2, <2>1 DEF ChipInv, ChipPart, Booting, Booted, PumpWritten, Cleaning
<1>5. CASE AlgoLow
  <2> DEFINE w == PumpByte("pumpLow", LowByte(pumpOn))
  <2>1. w.kind = "byte" /\ w.reg = "pumpLow" /\ w.val = LowByte(pumpOn)
    BY DEF PumpByte
  <2>2. Attempt(w) /\ algoPc' = "high" /\ pumpOn' = pumpOn
    BY <1>5 DEF AlgoLow
  <2> HIDE DEF w
  <2>3. led'["pumpLow"] = LowByte(pumpOn) \/ "pumpLow" \in missed'
    BY <1>3, <2>1, <2>2, WrittenHolds
  <2>4. PumpWritten'
    BY <2>2, <2>3 DEF PumpWritten, Holds
  <2>q. QED
    BY <1>1, <1>2, <2>1, <2>2, <2>4, ThreadWriteKeepsChip DEF ChipPart
<1>6. CASE AlgoHigh
  <2> DEFINE w == PumpByte("pumpHigh", HighByte(pumpOn))
  <2>1. w.kind = "byte" /\ w.reg = "pumpHigh" /\ w.val = HighByte(pumpOn)
    BY DEF PumpByte
  <2>2. Attempt(w) /\ algoPc = "high" /\ algoPc' = "loop"
        /\ pumpOn' = pumpOn /\ switched' = switched
    BY <1>6 DEF AlgoHigh
  <2> HIDE DEF w
  <2>3. led'["pumpHigh"] = HighByte(pumpOn) \/ "pumpHigh" \in missed'
    BY <1>3, <2>1, <2>2, WrittenHolds
  <2>4. Holds("pumpLow", LowByte(pumpOn))
            => led'["pumpLow"] = LowByte(pumpOn) \/ "pumpLow" \in missed'
    BY <1>3, <2>1, <2>2, OtherHolds
  <2>5. PumpWritten'
    BY <1>1, <2>2, <2>3, <2>4 DEF ChipInv, PumpWritten, Holds
  <2>q. QED
    BY <1>1, <1>2, <2>1, <2>2, <2>5, ThreadWriteKeepsChip DEF ChipPart
<1>q. QED
  BY <1>4, <1>5, <1>6 DEF AlgoThread

LEMMA OthersKeepChip ==
    ASSUME ChipInv, Lower \/ Joined \/ Die \/ Rerun \/ UNCHANGED actuatorVars
    PROVE  ChipPart'
<1> USE DEF ChipInv, ChipPart, Booting, Booted, PumpWritten, Cleaning, Holds, chip, main, motor, algo
<1>1. CASE Lower
  BY <1>1 DEF Lower
<1>2. CASE Joined
  <2>1. step = 1
    BY <1>2 DEF Joined, ActuatorsInv, StepInPhase
  <2>q. QED
    BY <1>2, <2>1 DEF Joined, Cleaned
<1>3. CASE Die
  BY <1>3 DEF Die
<1>4. CASE Rerun
  BY <1>4 DEF Rerun
<1>5. CASE UNCHANGED actuatorVars
  BY <1>5 DEF actuatorVars, Cleaned
<1>q. QED
  BY <1>1, <1>2, <1>3, <1>4, <1>5

LEMMA ChipInit == ActuatorsInit => ChipInv
<1>1. ActuatorsInit => ActuatorsInv
  BY InitKeeps
<1>2. ActuatorsInit => Booting /\ Booted /\ PumpWritten /\ Cleaning
  BY DEF ActuatorsInit, Booting, Booted, PumpWritten, Cleaning
<1>q. QED
  BY <1>1, <1>2 DEF ChipInv

LEMMA ChipStep == ChipInv /\ [ActuatorsNext]_actuatorVars => ChipInv'
<1> SUFFICES ASSUME ChipInv, [ActuatorsNext]_actuatorVars PROVE ChipInv'
  OBVIOUS
<1>1. ActuatorsInv'
  BY StepKeeps DEF ChipInv
<1>2. ChipPart'
  <2>1. CASE InitWrite
    BY <2>1, InitWriteKeepsChip
  <2>2. CASE CleanWrite
    BY <2>2, CleanWriteKeepsChip
  <2>3. CASE Running /\ MotorThread
    BY <2>3, MotorKeepsChip
  <2>4. CASE Running /\ AlgoThread
    BY <2>4, AlgoKeepsChip
  <2>5. CASE Lower \/ Joined \/ Die \/ Rerun \/ Over \/ UNCHANGED actuatorVars
    BY <2>5, OthersKeepChip DEF Over
  <2>q. QED
    BY <2>1, <2>2, <2>3, <2>4, <2>5 DEF ActuatorsNext
<1>q. QED
  BY <1>1, <1>2 DEF ChipInv, ChipPart

LEMMA ChipInvariant == ActuatorsSpec => []ChipInv
BY ChipInit, ChipStep, PTL DEF ActuatorsSpec
-----------------------------------------------------------------------------
(***************************************************************************)
(* No driver sends a five-byte write to a chip that would not increment    *)
(* the register: pump_init resets MODE1 after motor_init has set it, and   *)
(* the checks of servo_init stop the program before the next such write.   *)
(***************************************************************************)
THEOREM NoBurstIsBlind == ActuatorsSpec => []NoBlindBurst
<1>1. ChipInv => NoBlindBurst
  BY ChipInvImplies
<1>q. QED
  BY <1>1, ChipInvariant, PTL

(***************************************************************************)
(* The threads start on a chip that is awake and at the servos' frequency, *)
(* whatever pump_init's unchecked writes did to it.                        *)
(***************************************************************************)
THEOREM ChipIsReady == ActuatorsSpec => []ChipReady
<1>1. ChipInv => ChipReady
  BY ChipInvImplies
<1>q. QED
  BY <1>1, ChipInvariant, PTL

(***************************************************************************)
(* A run that ends in order leaves at rest every output whose last write   *)
(* took effect: no thread writes once main has joined it.                  *)
(***************************************************************************)
THEOREM ExitLeavesRest == ActuatorsSpec => []ExitAtRest
<1>1. ChipInv => ExitAtRest
  BY ChipInvImplies
<1>q. QED
  BY <1>1, ChipInvariant, PTL

(***************************************************************************)
(* Between two switches the relay is where the spraying loop believes it   *)
(* to be, except while a byte of its last write is missing and until this  *)
(* run first switches the pump.                                            *)
(***************************************************************************)
THEOREM PumpIsFollowed == ActuatorsSpec => []PumpFollows
<1>1. ChipInv => PumpFollows
  BY ChipInvImplies
<1>q. QED
  BY <1>1, ChipInvariant, PTL
=============================================================================
