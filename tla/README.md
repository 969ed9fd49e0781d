# FireDroneCar: TLA+ models, checks and proofs

FireDroneCar is a fire-fighting model car on a Raspberry Pi. One C program
(`fire-drone-car/src`) runs four threads beside `main`: a sensor thread (thermal camera and
ultrasonic range finder), an algorithm thread (the mode machine, every 50 ms), a motor thread
(every 20 ms) and a communication thread (a TCP server for the operator's commands). They
share one structure under one mutex, and three drivers share one PWM chip. This directory
models that program, checks it with TLC and proves much of it with TLAPS.

## 1. Inventory

| Part | State | Operations | Hard behaviour | What makes it correct |
|---|---|---|---|---|
| Shared state (`common.h`, `shared_state.c`) | mode, one-slot command mailbox, emergency flag, commanded velocity, last readings | init; critical sections of every thread | every thread reads what others wrote some time ago | mode, flag, mailbox and velocity agree |
| Navigation (`navigation.c`) | avoidance state, ticks, cooldown, side, toggle, clearance flag | one search tick, reset, approach motion | readings change between ticks; counters reloaded on conditions | brake before reverse, one yaw direction per manoeuvre, every manoeuvre ends, both sides are tried, a crash distance is answered |
| Neck (`navigation.c`) | scan position and direction, aim, servo angles | scan step, aim, re-centre | scanning interrupted by aiming, inexact steps | mechanical range, the whole field is swept |
| State machine (`state_machine.c`) | mode, statics of `handle_detect` | one update per tick | commands between any two ticks; statics outlive the mode | halts stand still, counters mean what they count |
| Extinguishing (`extinguish_logic.c`) | tries, spraying, start time, relay | one call per tick in EXTINGUISH | interrupted in the middle of a spray; whole-second clock | relay and loop agree, tries bounded, sprays end |
| Commands (`comm.c`) | none of its own | START, STOP, MANUAL, ESTOP, CLEAR_ESTOP, EXIT | single slot overwritten before it is read | the emergency stop wins, clearing it forgets requests |
| Communication thread (`comm.c`) | server socket, client, receive buffer | set up, select, accept, receive, cut lines, report, end | clients replaced in mid-line, lines in pieces and too long, sends to a peer that has gone | whole lines handled once and in order, no descriptor lost, the thread ends |
| Threads (`main.c`) | running flag, threads, local copies | create, loop, join, clean up, signal | stale copy of the command, failure half-way, shutdown order | hardware safe at exit, shutdown completes |
| Motor, servo and pump drivers (`motor_control.c`, `servo_control.c`, `pump_control.c`) | the registers of one PCA9685 | init, stop, set speed, set angle, pump on/off | three drivers and two threads on one chip, unchecked writes, a process that dies and is started again | the bridge never shorted, the chip ready, outputs follow the commands and rest at the end |
| Thermal sensor (`thermal_sensor.c`) and the library below it (`MLX90641_API.c`) | EEPROM status, tries, frame | init, read a reading of two frames | camera measures while it is read, failing transfers, stale frames, damaged EEPROM words | whole and fresh frames, corrected words right, reads end |
| Ultrasonic sensor (`ultrasonic.c`) | echo timing, average | three echoes | lost echoes, preemption, a clock that wraps | the average is near the truth or nothing is published |
| `ui_remote.py`, `client.py`, test programs, empty files | - | - | - | not modelled, see section 7 |

The threads interact through the shared structure, except that `state_machine_update` calls
navigation and the extinguishing loop directly, with the mutex held, that the EXIT command and
signals lower the running flag, and that the drivers meet on the PWM chip, which no mutex
protects between two transactions. The hazards of each part, at the lines where they bite, are
listed in `PROJECT.json` with the properties that watch them.

## 2. Modules

| Module | Models | Extends |
|---|---|---|
| `SharedState` | shared structure, publication of readings | - |
| `Neck` | scan, aim and re-centring of the neck, with a specification of its own | - |
| `Navigation` | the avoidance machine, DETECT and APPROACH motions, as operations | `SharedState`, `Neck` |
| `SearchDrive` | the car searching: search ticks against changing distances | `Navigation` |
| `Extinguish` | the spraying loop, the pump, the clock it reads | `SharedState` |
| `StateMachine` | `state_machine_update`, one action per branch | `Navigation`, `Extinguish` |
| `Commands` | `comm_handle_command_line`, one action per command | `SharedState` |
| `Control` | the control core: ticks, readings, commands, seconds, interleaved | `StateMachine`, `Commands` |
| `Aiming` | the control core watched: what DETECT has really seen, beside what its counters say | `Control` |
| `Supervisor` | abstract: what the operator is promised | - |
| `Outputs` | the drivers' arithmetic: duties and servo counts | - |
| `FireDroneCar` | the threads, shutdown, motor and steering outputs | `Control`, `Outputs` |
| `Actuators` | the PCA9685 and its drivers, transaction by transaction; failing transactions, death and restart of the process | `Outputs` |
| `LineLink` | abstract: what the operator may expect of the command link | - |
| `CommLink` | the communication thread's sockets, buffer and lines; clients that connect, send, replace each other and hang up | - |
| `Eeprom` | the error-correcting code of the camera's EEPROM | - |
| `Thermal` | `thermal_sensor_init`, `thermal_sensor_read`, `MLX90641_GetFrameData`, the camera measuring | `Eeprom` |
| `Ultrasonic` | the range finder's polling loops and average | - |
| `Sensors` | the sensor thread over both sensors | `Thermal`, `Ultrasonic` |
| `NavigationProofs` | theorems about `Neck` and `SearchDrive` | `SearchDrive`, `TLAPS` |
| `ConversionProofs` | theorems about the pure conversions: `Outputs`, `Eeprom` | both |
| `ControlProofs`, `ActuatorsProofs`, `CommLinkProofs`, `SensorsProofs` | theorems about the module named | that module |
| `AimingProofs` | theorems about `Aiming` | `Aiming`, `ControlProofs` |
| `CarProofs` | theorems about the whole program | `FireDroneCar`, `ControlProofs`, `ConversionProofs` |

How code becomes state and action:

* Every function that `state_machine_update` calls runs with the mutex held, so a whole update
  is one step. It has eleven branches (`UpdateEmergency` .. `HandleExtinguish`), and each is an
  action with the guards of the `if`s before it.
* Units: `distance` in cm, `linVel` in 1/10000 of full speed, `angVel` in tenths, angles in
  tenths of a degree, PWM counts of 4096. Every constant of the code is an integer in these
  units. The sensors' floats are represented by the values on each side of the thresholds the
  code compares them with.
* Tick counts, numbers of tries and frames, buffer sizes and the steps of the neck are CONSTANTS
  with named assumptions: the theorems hold for every value, the runs choose small ones (the
  search runs keep the car's own).
* In `Control` a failed sensor read simply lets more time pass before the next reading, since it
  publishes nothing; in `FireDroneCar` the failure is a choice of the read step; in `Sensors` it
  is what comes of failed transfers and lost echoes.
* `time(NULL)` in the spraying loop is `sprayElapsed`, the second boundaries since the spray began.
* The pump is `"FOUND"` until this run switches it: neither `pump_init` nor `extinguish_init` writes
  its channel, so that it is on when an earlier run died spraying. No code reads it back.
* `Aiming` adds three history variables to the control core, which no step depends on: the column
  DETECT last saw, for how many looks in a row it kept still, and for how many of them it was
  besides hot and centred.
* In `FireDroneCar` each thread has a program counter. The test of the running flag, the
  critical section and the hardware access after it are steps of their own, so that a
  thread can act on a copy or a loop test that is out of date. `overtaken` is a history variable:
  an emergency stop was raised while the motor thread held its copy. `CommReportKills` is the
  SIGPIPE of a status line sent to a peer that has gone: every thread is dead at once, wherever it
  is, and the outputs stay as they are.
* In `Actuators` a step is one I2C transaction. A failed one changes nothing on the chip
  and is ignored, or ends the program, as the driver does. A five-byte write reaches its register
  only when MODE1 has auto-increment set, PRE_SCALE is writable only while the chip sleeps, and
  the sequences of transactions (`MotorInit`, `PumpInit`, `ServoInit`, `CleanWrites`) are those of
  the driver functions in the order `main` calls them. `Die` is the SIGPIPE of a send to a closed
  socket: the chip keeps its registers and the next run starts on them. `missed` is a history
  variable: the outputs whose last write did not take effect.
* In `CommLink` data travel in units; a line is `n` of them, the last its end of line. `recv`
  returns any part of what has arrived. `got`, `torn`, `handled` and `verdict` are history
  variables. A unit carries its connection, its line's number there and its place in it; `handled`
  is the line whose end of line was cut out, and `LineLink` asks that it be the next one.
* In `Thermal` the camera is a process of its own that ends measurements at any moment and fills
  the two subpages in turn; a frame is read block by block, so that blocks of two measurements
  can be mixed. `MLX90641_GetFrameData` returns the number of the subpage and its caller
  takes 1 for an error, as the code does. The auxiliary words are read after the pixels, from the
  camera's last measurement; when `ValidateAuxData` refuses them, `g_frame` keeps those it has, and
  no error is reported. `HammingDecode` is computed bit by bit.
* In `Ultrasonic` the thread may be away for up to `MaxDelay` between two polls, and `micros()`
  counts modulo `ClockSize`; the differences are compared as signed numbers, as the code does.
* Some definitions have a neighbour with a longer name (`CrashStartUnbraked` before
  `CrashStart`): the form a slip in that code would give it. No specification uses them. Each
  property is shown able to fail by putting one in the place of its original
  (`mutants` in `PROJECT.json`).

## 3. Runs that pass

`tlc -config <cfg> <module>`; times with two workers.

| Run | Configuration, module | Shows | States |
|---|---|---|---|
| `search_drive` | `SearchDrive.cfg`, `SearchDrive` | `YawKept` in every step; `CrashAnswered`, `ManoeuvreEnds`, `ClearPathResumes`, `TriesBothSides` under fairness of the tick | 13 000, 3 s |
| `neck` | `Neck.cfg`, `Neck` | `ServosInRange`, `SweepsBothWays` | 11 000, 1 s |
| `control` | `Control.cfg`, `Aiming` | `ControlTypeOK`, `SafeStopLatched`, `HaltedStandStill`, `SprayAccounted`, `SprayAtStandstill`, `ImplementsSupervisor`; `LockEarned`, by what the history variables saw | 666 000, 44 s |
| `control_live` | `ControlLive.cfg`, `Control` | `AvoidanceAtRest`, `BrakeBeforeReverse` over manoeuvres that fires and commands interrupt; `EstopNoticed`, `SprayEnds`, `FireGoneResumesSearch` | 243 000, 90 s |
| `car` | `Car.cfg`, `FireDroneCar` | `ExitSafe`, `NoRestartUnderEstop` | 1 988 000, 60 s |
| `car_live` | `CarLive.cfg`, `FireDroneCar` | `EstopReachesWheels`, `HaltReachesWheels`, `ShutdownCompletes` | 181 000, 185 s |
| `actuators` | `Actuators.cfg`, `Actuators` | `BridgeSafe`, `NoBlindBurst`, `ChipReady`, `ExitAtRest`, `PumpFollows`, `ShortHeals` | 450 000, 25 s |
| `comm_link` | `CommLink.cfg`, `CommLink` | `CommTypeOK`, `NoLeak`, `ImplementsLineLink`, `LinesArrive`, `LinkEnds` | 159 000, 40 s |
| `sensors` | `Sensors.cfg`, `Sensors` | `EepromSound`, `PublishedFresh`, `FrameWhole`, `DistanceTrue`; `SensorStops` while the camera measures | 954 000, 107 s |

Bounds, and why they are enough:

* `search_drive` runs the car's own tick counts (2, 18, 22, 12, 15, 6). Its distances 1, 11,
  12, 30 and 50 cm are one value in every class that the comparisons with 1, 12, 30, 50 and
  900 cm tell apart while searching (1 is not a valid reading, 12 is not below 12, and so on).
  The neck's steps are as wide as its range there: navigation does not read the neck.
* `neck` takes steps of 7 and 40 tenths, which do not divide the ranges of 500 and 900, so that the
  scan overshoots as it does with an inexact 0.3 degrees; 70 tenths per column saturates the aim.
* The control runs freeze the scan (step 0), which nothing else reads, and pan 15 degrees per
  column to keep the aim's values few. Temperatures 30, 45, 180 and 200 lie on each side of the
  thresholds 35, 40, 50 and 180 (180 itself is ready for DETECT but not enough for
  APPROACH to hand over); columns 8, 10 and 12 are centred, at the tolerance and outside it, and in
  `Control.cfg` 9 lies between the first two: a spot that moves by one keeps still, by two it does
  not, and either may stay centred. `Control.cfg` has distances 45 and 60, around the 50 cm of APPROACH, two
  tries of two seconds, three lock and two stable ticks: each counter can be interrupted below,
  at and past its limit. `ControlLive.cfg` instead varies the distance over 11, 29 and 60 and
  gives the brake four ticks so that a crash start still brakes for one tick more.
* The car runs keep one reading of each kind that makes the car search and spray (200
  degrees, or 0 for the liveness run, where the fire plays no part). What they vary is the
  interleaving of five threads, any number of command lines, a signal at any moment, every
  creation failure and the end of the communication thread.
* `actuators` has one speed in both directions, the two extreme angles, two failed transactions
  and two runs of the program: a short needs one failure and a reversal, a partly written pump
  byte one, and the second run finds whatever the first can leave.
* `comm_link` has two connections (one to be replaced by the other), two lines, a buffer of four
  units and pieces of two: a line of 1 is blank, of 3 is the longest that always fits, of 4
  overflows the buffer or not, depending on how it is cut.
* `sensors` has two EEPROM words, each undamaged or with one or two bits flipped (all pairs),
  two frames of two blocks, three tries, three stamps to tell measurements apart, and two echoes of
  one width (the code takes three: one lost beside one that is timed is enough to show a lost one
  in the average). With a timeout of 10 and polls at most 2 apart, an echo of 8 is always timed if
  its start is not missed, and an average of such echoes must be above 4; one of 11 is lost or
  timed as the polls fall. The clock of 32 starts at 28, so that it wraps before or within an echo.

Fairness:

* `DriveSpec` and `FairControl` assume weak fairness of the algorithm thread's tick, an endless
  loop of a 50 ms sleep and a short critical section; `FairControl` also that the clock
  reaches the next second.
* `FairCar` assumes weak fairness of every thread's own loop, that the mutex is free
  between sections (each is short and takes no other lock) and that a sensor read returns; the
  communication thread need not die, and no line and no signal ever has to come.
* `FairActuators` assumes that the motor thread of a running process is scheduled.
* `FairComm` assumes that the thread goes on, which includes that peers read the status lines they
  are sent (the socket blocks), and strong fairness of `Select`: interruptions by signals do not
  keep it from ever returning.
* `FairSensors` assumes that the thread is scheduled and that the camera measures for ever;
  transfers may fail any number of times, since the code limits the tries itself. `FairThread`, of
  the run `thermal_hang`, leaves the camera out.
* `SweepsBothWays` assumes nothing of the scheduler: it is conditional on scanning for ever.

`FireDroneCar` ends in `Terminated`, `Actuators` in `Over`, so that deadlock is checked there.
`CommLink.cfg` turns the check off: the thread really ends, and then nothing is left to happen.

## 4. Runs that find a disagreement

Each checks one sentence of the repository's documents or comments, as a formula, and TLC shows
a run of the code that breaks it. `PROJECT.json` quotes the sentences under `findings`.

| Run | Claim | What the code does |
|---|---|---|
| `thermal_hang` | a frame is waited for one second at most (`thermal_sensor.c` 65) | one try polls the status register without a limit (`MLX90641_API.c` 274) |
| `clearance_stall` | not cleared: another avoidance follows (`navigation.c` 252) | between 30 and 50 cm the car then stands still for ever |
| `estop_pump` | emergency stop: pump off (README 72) | nothing switches the pump in SAFE_STOP |

Read in the code while modelling, and not given a run of their own: below 12 cm the README (48)
and `navigation.c` 187 say to avoid at once, but the guard is skipped during a manoeuvre, so that
forward arc and recovery drive on (`CrashAnswered` says what does hold: not for long); a STOP
is forgotten when MANUAL or START overwrites it in the mailbox (README 517); a STOP in the middle
of a spray and a START after it search with the pump on (README 37 says stop, then spray); after the
last failed try within 0.5 m the car sprays again from the same place (README 56: get closer);
APPROACH only slows down for an obstacle within 30 cm (README 734-736: stop and avoid); DETECT
enters EXTINGUISH at any distance (README 452-453: APPROACH does, within 0.5 m); stability is
counted in ticks, several to a thermal frame (`state_machine.c` 94 and 104 speak of frames);
the count of consecutive ticks
of a kept aim (`state_machine.c` 80, 110) survives STOP and ESTOP and resumes (`LockEarned` says
what does hold); every frame of subpage 1 counts as a failed try (`thermal_sensor.c` 68).

## 5. Proofs

`tlapm <module>` for each of the modules of section 2 named `...Proofs`.

* `NeckInRange`: for every step width and gain, the scan overshoots by less than a step and turns
  back, and no servo is told an angle outside the range by a step. The invariant is
  `NeckTypeOK /\ ScanReturns /\ ServosInRange`; `ScanReturns` is what makes it inductive, since
  the position after a step is bounded only if the direction at the edge is known.
* `YawIsKept`: the invariant `YawInv` says that whenever the car yaws it does so to
  the side `turnSign`, reversed or not; a tick that takes another side stops the car.
* `ControlInvariant`: `ControlSpec => []ControlInv`. `ControlInv` joins the safety properties of
  `Control` with the type invariant and two parts that make it inductive. `ReverseArcBacksOff` says
  that in a reverse arc the commanded speed is not forward: without it the step into a reverse
  command could follow a forward one. `ApproachDry` says that APPROACH never has the loop spraying:
  without it APPROACH could hand a running pump and its own velocity to EXTINGUISH.
  `SprayAccounted` carries the count of tries below its limit while not spraying, from which the
  bound after the next start follows. One lemma per kind of step (`UpdateKeepsInv` with one case
  per branch of the update, `SenseKeepsInv`, `OperateKeepsInv`, `ClockKeepsInv`) and
  `SearchMotionSafe` for the eight branches of a search tick. From it: `ControlTypeCorrect`,
  `SafeStopIsLatched`, `HaltsStandStill`, `SpraysAreAccounted`, `SpraysFromStandstill`,
  `AvoidanceRests` and, with `NeverStraightToReverse` for a single step,
  `BrakesBeforeReverse`.
* `LocksAreEarned` (`AimingProofs`): the statics of `handle_detect` never exceed what the history
  variables saw. `lastHotCol` is `spot`, `stableHotCount` is at most `steady`, and `lockCount` at most
  `aimed` and, when it is not 0, below `steady` by the frames of stability it began with. STOP, ESTOP and
  the other modes change neither side; a tick of DETECT moves both. `AimingIsControl` shows that
  watching restricts nothing.
* `ControlKeepsPromises`: the control core implements `Supervisor`. Each command is a step of it
  (`OperateRefines`), each branch of the update a step or a stutter (`UpdateRefines`, from the
  invariant, which is needed to know that a tick in SAFE_STOP or IDLE leaves the drive still).
* `CarProofs`: `CarInv` joins the control core's type invariant and the threads' with five facts
  about the order of `main` (nothing has been commanded or switched before the communication thread
  exists; no thread runs before its creation; a motor thread that has ended has left its outputs at
  rest; `main` is over only once all threads are; it leaves the pump off) and `ControlInv` as long
  as `main` is not over (`main` itself switches the pump off last, which `SprayAccounted` does not
  survive). `CopyInv` says that while the emergency stop is in force, the motor thread's copy holds
  it or has been overtaken by it: the copy is taken under the mutex, a command can raise the stop
  after it, and nothing else can part the two. From these `CarTypeCorrect`, `ExitIsSafe`,
  `ControlHoldsInCar` and `EstopHoldsWheels`. A kill by SIGPIPE (`KillKeeps`) keeps them all and is
  no end of `main`'s: `ExitSafe` claims nothing after it.
* `ActuatorsProofs`: `ActuatorsInv` gives `ActuatorsTypeCorrect` and `BridgeIsSafe`. What makes it
  inductive is that between the two writes of `motor_set_speed` the input that was to be turned
  off is off or missed. Initialisation and clean-up are shown to write only zeros to the bridge
  (`QuietWritesAreQuiet`). `ChipInv` follows MODE1 and PRE_SCALE through the last transactions of
  `motor_init` and of `servo_init`, the pump's bytes through `pump_on` and `pump_off`, and the
  outputs through the clean-up, during which both threads have ended. From it `NoBurstIsBlind`,
  `ChipIsReady`, `ExitLeavesRest` and `PumpIsFollowed`, for every number of failures and of runs
  before.
* `CommLinkProofs`: `CommTypeCorrect` (the buffer is never overrun: a piece is at most
  `ChunkSize`, which the buffer holds), `NothingLeaks`, and the refinement `LinesAreKept`. The
  refinement says that `Parse` hands over the next line of the connection served, identified by
  the end of line it cuts out, and whole, unit for unit, unless it may be broken; what a `Parse`
  does depends on what every earlier `recv` left in the buffer, so the invariant `LinkInv` follows
  each unit from the peer to the buffer. `ServedOK`: the buffer followed by the stream of the
  client is, after a foreign half line at most, exactly what is left of the lines sent and not yet
  handled, part by part and up to the last line sent unless the peer hung up (`Rest`). `Served`
  then accounts for the two ways to lose a beginning: units of another connection in front are
  there only while `torn`, and a line whose first parts are missing is `torn` or longer than
  `SafeLength`. The latter is the case argument of `ServedOverflows`: the buffer is discarded only
  when no piece fits any more and it holds no end of line, and then the line in it has more than
  `BufSize - ChunkSize` units. `HalfLineKept` says that a client is only ever replaced under
  `torn` or with an empty buffer, `NoEndKept` that no complete line waits in the buffer outside
  `Parse`, and `WaitingOK` that a connection not yet accepted has its lines intact. `LinkStep` has
  one lemma per action, `LinkMaps` one case per action.
* `CarKeepsPromises`: the whole program implements `Supervisor` too. `SharedSteps` shows from
  `CarInv` that a step of any thread changes the shared state as a step of the control core does, or is
  `main`'s clearing of the mailbox (`MainArm`), which is an `Ask`, or changes none of it; the
  clean-up, after which `ControlInv` no longer holds, is of the last kind. From the same lemma
  `CarBrakesBeforeReverse`.
* `HammingDecodes` (`ConversionProofs`): for all 2048 data and every choice of bits, `Check` and
  `Decoded` recover a sound word, repair one flipped bit and refuse two. Its steps are algebraic: the
  parity of a set changes with each flipped member (`FlipChangesParity`), and the set of checks a bit
  belongs to is its own, always with the parity of all, and is the one the decoder's table undoes
  (`ColumnsDiffer`). Hence
  `EepromIsSound` (`SensorsProofs`): the status kept over the words is that of the worst of them.
* `PublishedIsFresh` and `FrameIsWhole`: one invariant, `FrameInv`, over the thread and the camera. A
  frame holds blocks of one measurement as long as the camera has not ended two since the ready
  bit was read, because the first of the two fills the other subpage: `LapsOK` says which
  subpage the camera filled last, `WholeOK` that until the second the blocks read and the
  subpage agree. For freshness, `FreshOK` says that once the thread has cleared the ready bit, a bit
  found set stands for a measurement ended since; only the first frame of a reading may be an old one,
  which is why a reading takes at least two (`thermal_sensor.c` reads two). `AuxOK` says the same of the
  auxiliary words as far as the camera gave valid ones.
* `DistanceIsTrue`: `EchoOK` says that an edge is seen within `MaxDelay` of its time and relates
  `Elapsed`, the 32-bit difference, to the true time `since` the ping. What makes it inductive is
  `ElapsedGrows`: the difference modulo `ClockSize` grows by each delay, wherever the clock wraps, as
  long as it stays below half a round. `SumOK` carries the bounds of the echoes summed, from which
  `AverageBetween` gives the average's.

The proofs assume only the named assumptions of the constants (`SensorAssumption`,
`NeckAssumption`, `TicksAssumption`, `SprayAssumption`, `FramesAssumption`,
`ActuatorsAssumption`, `CommAssumption`, `ThermalAssumption`, `UltrasonicAssumption`): readings are
numbers, columns are 0 to 15, tick, second, try and frame counts are positive naturals, a piece fits
the buffer (256 of 1024 bytes in `comm.c`), a reading takes two frames at least (it takes exactly
two), and `Timeout + MaxDelay < ClockSize \div 2` (the time-out of an echo is 30 ms and half a round of
`micros()` 35 minutes: a thread would have to be away that long between two polls). The runs evaluate
each of them.

Every invariant, action property and refinement of section 3 is a theorem. Only model-checked are
the liveness properties, since fairness and ENABLED are beyond the prover: `CrashAnswered`,
`ManoeuvreEnds`, `ClearPathResumes`, `TriesBothSides`, `SweepsBothWays`, `EstopNoticed`,
`SprayEnds`, `FireGoneResumesSearch`, `EstopReachesWheels`, `HaltReachesWheels`,
`ShutdownCompletes`, `ShortHeals`, `LinesArrive`, `LinkEnds` and `SensorStops`; and the claims of
section 4, which are false.

## 6. Plan

Done: every thread and driver of the program, the abstract `Supervisor` and `LineLink`, and the
proofs of section 5. What is left, in order:

1. The safety half of the liveness properties, as far as a bound on steps can state it: a
   manoeuvre's ticks never grow but at its start, tries never decrease within a fight.
2. The composition of `Actuators` with `FireDroneCar`: today the first sees arbitrary speeds and
   the second treats the two writes of a speed as one. A theorem that the transactions implement
   `MotorApply` when none fails.
3. A spray clock finer than a second, for the bounds of a spray's length.

## 7. Not modelled

* Of the MLX90641 library, the calibration arithmetic (floating point over the EEPROM's parameters
  and the frame), which is all that the contents of the auxiliary data are for. Of `thermal_sensor.c`, the temperatures
  computed with it and the choice of the hottest pixel: readings are free within their sets.
* The writes to the two neck servos in `Actuators`: they share the chip and nothing else;
  `Neck` has the angles last commanded.
* A multi-byte I2C write that fails half-way: it is taken to change nothing.
* The operator's programs, whose commands are already arbitrary; the interactive hardware
  tests and the empty files; log texts and the wording of the status line.
* Failures of the system calls of `main` before the first thread, which end the program at
  once; a wall clock set by hand; a peer that keeps its connection and never reads.
* The response of a real fire to the car's actions.
