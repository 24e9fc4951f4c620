------------------------------ MODULE FanCurve ------------------------------
(***************************************************************************)
(* The arithmetic between a temperature and a fan command: package curve,  *)
(* and the clamp of package controller.                                    *)
(*                                                                         *)
(* The program works in float64 percentages and commands a PWM value in    *)
(* 0..255.  Here a percentage is an integer number of units of 1/51 of a   *)
(* percent, so that both scales are exact: one percent is 51 units, one    *)
(* PWM step is 20 units, and 100 percent is 5100 = 255 * 20 units.         *)
(***************************************************************************)
EXTENDS Integers, Sequences

Pct(n) == 51 * n
Full == Pct(100)
RawMax == 255
RawStep == 20

(***************************************************************************)
(* A definition named Faulty... is no part of the model: it is the one     *)
(* that follows it with a plausible bug, there to show that the properties *)
(* can tell the two apart.                                                 *)
(***************************************************************************)

Clamp(v, lo, hi) == IF v < lo THEN lo ELSE IF v > hi THEN hi ELSE v

\* Truncates instead of rounding: the + 0.5 is lost.
FaultyPctToRaw(u) == Clamp(u, 0, Full) \div RawStep

\* Rounds to the nearest PWM step, a tie upwards.
PctToRaw(u) == (Clamp(u, 0, Full) + RawStep \div 2) \div RawStep

\* Takes the raw value for a percentage.
FaultyRawToPct(r) == Pct(r)

RawToPct(r) == RawStep * r

(***************************************************************************)
(* Eval: piecewise linear between the points, flat outside them.  A point  *)
(* is [temp, pct].  Segment is the loop: the first point the temperature   *)
(* does not exceed.  The interpolated value is rounded down to a unit,     *)
(* which no later rounding to a PWM step can tell from the real quotient.  *)
(* Two points at one temperature (the span <= 0 branch) are refused by     *)
(* Validate and have no branch here.                                       *)
(***************************************************************************)
\* Takes the last point the temperature does not exceed, not the first.
FaultySegment(points, temp) ==
  CHOOSE i \in 2..Len(points) :
    /\ temp <= points[i].temp
    /\ \A j \in (i + 1)..Len(points) : points[j].temp < temp

Segment(points, temp) ==
  CHOOSE i \in 2..Len(points) :
    /\ temp <= points[i].temp
    /\ \A j \in 2..(i - 1) : points[j].temp < temp

\* Starts from the upper point of the segment.
FaultyInterpolate(lo, hi, temp) ==
  hi.pct + ((temp - lo.temp) * (hi.pct - lo.pct)) \div (hi.temp - lo.temp)

Interpolate(lo, hi, temp) ==
  lo.pct + ((temp - lo.temp) * (hi.pct - lo.pct)) \div (hi.temp - lo.temp)

Eval(points, temp) ==
  CASE Len(points) = 0 -> 0
    [] Len(points) > 0 /\ temp <= points[1].temp -> points[1].pct
    [] Len(points) > 0 /\ temp > points[1].temp /\ temp >= points[Len(points)].temp ->
         points[Len(points)].pct
    [] OTHER -> LET i == Segment(points, temp)
                IN  Interpolate(points[i - 1], points[i], temp)

\* What config.Validate accepts as the points of a curve.
ValidPoints(points) ==
  /\ points \in Seq([temp : Int, pct : 0..Full]) /\ Len(points) >= 2
  /\ \A i, j \in 1..Len(points) :
       i < j => points[i].temp < points[j].temp /\ points[i].pct <= points[j].pct
=============================================================================
