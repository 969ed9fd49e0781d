------------------------------ MODULE Sensors ------------------------------
(***************************************************************************)
(* The sensor side of the program: thermal_sensor_init in main, then       *)
(* sensor_thread_func, which reads the camera and the range finder in      *)
(* turn until the running flag is lowered.                                 *)
(***************************************************************************)
EXTENDS Thermal, Ultrasonic

VARIABLES running    \* g_running

sensorVars == <<thermalVars, ultrasonicVars, running>>

SensorsInit == ThermalInit /\ UltrasonicInit /\ running = TRUE

ThermalOnly == UNCHANGED <<ultrasonicVars, running>>
StepOnly == UNCHANGED <<eepromVars, camera, loops, subPage, reading, running>>

SensorLoop ==
    /\ pc = "loop"
    /\ pc' = IF running THEN "read" ELSE "stopped"
    /\ StepOnly /\ UNCHANGED <<frame, lapped, auxVars, ultrasonicVars>>

\* What is written to the shared state is PublishThermal of SharedState.
PublishFrame ==
    /\ pc = "publish" /\ pc' = "range"
    /\ frame' = <<>> /\ lapped' = 0 /\ auxData' = NoData /\ auxFresh' = FALSE
    /\ StepOnly /\ UNCHANGED ultrasonicVars

Ranging ==
    /\ pc = "range" /\ ReadRange
    /\ StepOnly /\ UNCHANGED <<pc, frame, lapped, auxVars>>

\* PublishDistance of SharedState, when one echo at least was valid.
PublishRange ==
    /\ pc = "range" /\ usPc = "done"
    /\ pc' = "loop" /\ usPc' = "idle"
    /\ width' = 0 /\ sample' = 0 /\ valid' = 0 /\ sum' = 0
    /\ StepOnly /\ UNCHANGED <<frame, lapped, auxVars, echoVars>>

Stop ==
    /\ running' = FALSE
    /\ UNCHANGED <<thermalVars, ultrasonicVars>>

SensorThread ==
    \/ (InitCamera \/ ReadThermal) /\ ThermalOnly
    \/ SensorLoop \/ PublishFrame \/ Ranging \/ PublishRange

SensorsNext ==
    \/ SensorThread \/ Stop
    \/ (TransferFails \/ Measure) /\ ThermalOnly

SensorsSpec == SensorsInit /\ [][SensorsNext]_sensorVars

\* The thread is scheduled and its transactions are not bound to fail;
\* nothing is said of the camera.
FairThread == SensorsSpec /\ WF_sensorVars(SensorThread)

\* The camera measures for ever.
FairSensors == FairThread /\ WF_sensorVars(Measure /\ ThermalOnly)

SensorsTypeOK ==
    /\ pc \in {"dump", "extract", "rate", "loop", "read", "poll", "clear", "blocks",
               "aux", "control", "publish", "range", "stopped", "failed"}
    /\ ThermalTypeOK /\ UltrasonicTypeOK /\ running \in BOOLEAN

\* Once the flag is lowered the thread ends, whatever fails on the way, so
\* that main's first join returns: every loop it can be in has a limit but
\* the polling, which the camera ends.
SensorStops == ~running ~> pc \in {"stopped", "failed"}

\* thermal_sensor.c line 65: a frame is waited for one second at most.
ThermalReadReturns == (pc = "poll") ~> (pc \in {"publish", "range"})
=============================================================================
