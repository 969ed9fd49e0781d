----------------------------- MODULE Extinguish -----------------------------
(***************************************************************************)
(* The spraying loop (extinguish_logic.c) and the relay it switches.       *)
(*                                                                         *)
(* run_extinguish_loop compares time(NULL), in whole seconds, with the     *)
(* time it noted when the spray began: sprayElapsed is the number of       *)
(* second boundaries passed since, counted as far as SprayDuration, the    *)
(* only value it is compared with.                                         *)
(*                                                                         *)
(* Neither pump_init nor extinguish_init writes the relay's channel, and   *)
(* no code reads it back: until the first pump_on or pump_off it is as an  *)
(* earlier run, or the chip's own reset, left it.  "FOUND" is that state,  *)
(* either on or off.                                                       *)
(***************************************************************************)
EXTENDS SharedState

CONSTANTS
    SprayDuration,   \* SPRAY_DURATION_SEC: 3 on the car
    ExtinguishTry    \* EXTINGUISH_TRY: 5 on the car

ASSUME SprayAssumption ==
    SprayDuration \in Nat \ {0} /\ ExtinguishTry \in Nat \ {0}

VARIABLES currentTry, spraying, sprayElapsed, pump

ExtinguishTemp == 40

sprayVars == <<currentTry, spraying, sprayElapsed, pump>>

ExtinguishInit ==
    /\ currentTry = 0 /\ spraying = FALSE /\ sprayElapsed = 0
    /\ pump = "FOUND"

FireOut == tFire < ExtinguishTemp
SprayOver == sprayElapsed >= SprayDuration

ExtinguishReset == currentTry' = 0 /\ spraying' = FALSE /\ sprayElapsed' = 0

(* The outcomes of one call, by what they return.                          *)
SpraySuccess ==
    /\ FireOut
    /\ pump' = "OFF"
    /\ ExtinguishReset

SprayStart ==
    /\ ~FireOut /\ ~spraying
    /\ pump' = "ON"
    /\ spraying' = TRUE
    /\ sprayElapsed' = 0
    /\ currentTry' = currentTry + 1

SprayOn == ~FireOut /\ spraying /\ ~SprayOver /\ UNCHANGED sprayVars

SprayEndRestarts ==
    /\ ~FireOut /\ spraying /\ SprayOver /\ currentTry < ExtinguishTry
    /\ sprayElapsed' = 0
    /\ UNCHANGED <<pump, spraying, currentTry>>

SprayEnd ==
    /\ ~FireOut /\ spraying /\ SprayOver /\ currentTry < ExtinguishTry
    /\ pump' = "OFF"
    /\ spraying' = FALSE
    /\ UNCHANGED <<currentTry, sprayElapsed>>

SprayInProgress == SprayStart \/ SprayOn \/ SprayEnd

SprayGiveUp ==
    /\ ~FireOut /\ spraying /\ SprayOver /\ currentTry >= ExtinguishTry
    /\ pump' = "OFF"
    /\ ExtinguishReset

\* The wall clock reaches the next second.
SecondPasses ==
    /\ spraying /\ ~SprayOver
    /\ sprayElapsed' = sprayElapsed + 1
    /\ UNCHANGED <<currentTry, spraying, pump>>

SprayTypeOK ==
    /\ currentTry \in Nat
    /\ spraying \in BOOLEAN
    /\ sprayElapsed \in 0..SprayDuration
    /\ pump \in {"FOUND", "ON", "OFF"}
=============================================================================
