------------------------------ MODULE Outputs ------------------------------
(***************************************************************************)
(* What the drivers make of a commanded speed and angle: counts of the     *)
(* 4096 of a PCA9685 cycle.  Speeds are in 1e-4 of full speed and angles   *)
(* in tenths of a degree.                                                  *)
(***************************************************************************)
EXTENDS Integers

FullDuty == 4095
SteerCentre == 900

Magnitude(v) == IF v < 0 THEN -v ELSE v

\* motor_set_speed clips to full speed and truncates the product.
Duty(v) == IF Magnitude(v) > 10000 THEN FullDuty
           ELSE (Magnitude(v) * FullDuty) \div 10000

\* motor_set_speed first turns off the input of the bridge it will not
\* drive, then drives the other; motor_stop is the same with a duty of 0.
FirstInputDriven(v) == IF v > 0 THEN "in1" ELSE "in2"
FirstInputFixed(v) == "in1"
FirstInput(v) == IF v > 0 THEN "in2" ELSE "in1"
SecondInput(v) == IF v > 0 THEN "in1" ELSE "in2"

\* 0 to 180 degrees are pulses of 500 to 2400 us in a cycle of 20 ms.  In
\* 1/18 us a tenth of a degree is 19, and the cycle 360000.
ServoRange(angle) == IF angle < 0 THEN 0 ELSE IF angle > 1800 THEN 1800 ELSE angle
AngleToCount(angle) == ((9000 + 19 * ServoRange(angle)) * FullDuty) \div 360000
=============================================================================
