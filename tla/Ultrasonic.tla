----------------------------- MODULE Ultrasonic -----------------------------
(***************************************************************************)
(* The range finder: ultrasonic_read_distance_cm_avg and the three echoes  *)
(* it times with two polling loops.  The thread may be kept waiting at any *)
(* poll, and micros() wraps around.  Distances stay in the microseconds of *)
(* the echo, which the code multiplies by a constant.                      *)
(***************************************************************************)
EXTENDS Integers, FiniteSets

CONSTANTS
    Samples,      \* echoes of one reading (3)
    Timeout,      \* timeout_usec
    ClockSize,    \* bound: micros() counts modulo this (2^32)
    ClockStarts,  \* what it may show when a pulse is sent
    Rises,        \* times from the pulse to the echo's rise; 0: no echo comes
    Widths,       \* lengths of the echo
    MaxDelay      \* bound: longest time from one poll to the next

ASSUME UltrasonicAssumption ==
    /\ Samples \in Nat \ {0} /\ Timeout \in Nat /\ ClockSize \in Nat \ {0}
    /\ ClockStarts \subseteq 0..(ClockSize - 1)
    /\ Rises \subseteq Nat /\ Widths \subseteq Nat \ {0} /\ MaxDelay \in Nat \ {0}
    \* No poll waits for half a round of the clock, which takes 71 minutes.
    /\ Timeout + MaxDelay < ClockSize \div 2

VARIABLES
    usPc,              \* "idle", "ping", "rise", "fall", "done"
    clock, from,       \* micros(), and start_wait or pulse_start
    since,             \* time since the pulse was sent
    rise, width,       \* the echo: width is that of the obstacle in front
    sample, valid, sum \* the loop of ultrasonic_read_distance_cm_avg

echoVars == <<clock, from, since, rise>>
averageVars == <<sample, valid, sum>>
ultrasonicVars == <<usPc, echoVars, width, averageVars>>

UltrasonicInit ==
    /\ usPc = "idle" /\ clock = 0 /\ from = 0 /\ since = 0 /\ rise = 0 /\ width = 0
    /\ sample = 0 /\ valid = 0 /\ sum = 0

\* The obstacle keeps its distance during one reading.
RangeBegins ==
    /\ usPc = "idle" /\ usPc' = "ping"
    /\ width' \in Widths
    /\ sample' = 0 /\ valid' = 0 /\ sum' = 0
    /\ UNCHANGED echoVars

Ping ==
    /\ usPc = "ping" /\ sample < Samples
    /\ usPc' = "rise"
    /\ clock' \in ClockStarts /\ from' = clock' /\ since' = 0 /\ rise' \in Rises
    /\ UNCHANGED <<width, averageVars>>

High == rise > 0 /\ rise <= since /\ since < rise + width

\* unsigned differences, taken for int when compared with the timeout.
Elapsed(now) == (now - from) % ClockSize
Signed(n) == IF n >= ClockSize \div 2 THEN n - ClockSize ELSE n

TimePasses == \E d \in 1..MaxDelay : clock' = (clock + d) % ClockSize /\ since' = since + d

\* d > 0 is what makes an echo valid; without one the sample is left out.
Count(duration) ==
    /\ sample' = sample + 1
    /\ IF duration > 0 THEN valid' = valid + 1 /\ sum' = sum + duration
                       ELSE UNCHANGED <<valid, sum>>

NextPing == usPc' = "ping" /\ rise' = 0 /\ from' = 0

Waiting(level, here) ==
    /\ usPc = here /\ High = level
    /\ TimePasses
    /\ IF Signed(Elapsed(clock')) > Timeout
       THEN NextPing /\ Count(-1)
       ELSE UNCHANGED <<usPc, from, rise, averageVars>>
    /\ UNCHANGED width

WaitForRise == Waiting(FALSE, "rise")
WaitForFall == Waiting(TRUE, "fall")

Rose ==
    /\ usPc = "rise" /\ High /\ usPc' = "fall"
    /\ TimePasses /\ from' = clock'
    /\ UNCHANGED <<rise, width, averageVars>>

Fell ==
    /\ usPc = "fall" /\ ~High
    /\ TimePasses
    /\ NextPing /\ Count(Elapsed(clock'))
    /\ UNCHANGED width

RangeEnds ==
    /\ usPc = "ping" /\ sample = Samples
    /\ usPc' = "done"
    /\ clock' = 0 /\ since' = 0
    /\ UNCHANGED <<from, rise, width, averageVars>>

ReadRange == RangeBegins \/ Ping \/ WaitForRise \/ WaitForFall \/ Rose \/ Fell \/ RangeEnds

DistanceOverAll == sum \div Samples

\* The average of the valid echoes.
Distance == sum \div valid
-----------------------------------------------------------------------------
UltrasonicTypeOK ==
    /\ usPc \in {"idle", "ping", "rise", "fall", "done"}
    /\ clock \in 0..(ClockSize - 1) /\ from \in 0..(ClockSize - 1)
    /\ since \in Nat /\ rise \in Rises \cup {0} /\ width \in Widths \cup {0}
    /\ sample \in 0..Samples /\ valid \in 0..sample /\ sum \in Nat

\* The distance published is that of the obstacle, to within the delays of
\* two polls at each end of the echo: lost echoes and the wrap-around of the
\* clock do not pull the average away from it.
DistanceTrue ==
    (usPc = "done" /\ valid > 0) =>
        /\ Distance > width - 2 * MaxDelay
        /\ Distance < width + 2 * MaxDelay
=============================================================================
