----------------------------- MODULE MCFanCurve -----------------------------
(***************************************************************************)
(* A sweep: over every valid curve of two or three points on a small grid, *)
(* a temperature rises one degree at a time, and the floor it demands is   *)
(* put through the conversion to the wire scale and back.                  *)
(***************************************************************************)
EXTENDS FanCurve

CONSTANTS Degrees,  \* the temperatures of curve points
          Floors,   \* the percentages of curve points
          Hottest   \* the last temperature of the sweep

VARIABLES points, temp

Point == [temp : Degrees, pct : {Pct(p) : p \in Floors}]
Curves == {c \in [1..2 -> Point] \cup [1..3 -> Point] : ValidPoints(c)}

Init == points \in Curves /\ temp = 0
Warm == temp < Hottest /\ temp' = temp + 1 /\ UNCHANGED points
Spec == Init /\ [][Warm]_<<points, temp>>

Demand == Eval(points, temp)

(***************************************************************************)
(* The reference: the graph of the curve read off without a search.  Every *)
(* pair of neighbouring points around the temperature puts the demand on   *)
(* the chord between them, to within the unit it is rounded down to.       *)
(* It is about Eval's scan finding the segment the temperature is in.      *)
(***************************************************************************)
DemandLiesOnTheCurve ==
  \A i \in 1..(Len(points) - 1) :
    LET lo == points[i]
        hi == points[i + 1]
        span == hi.temp - lo.temp
        rise == (temp - lo.temp) * (hi.pct - lo.pct) - (Demand - lo.pct) * span
    IN  temp \in lo.temp..hi.temp => rise \in 0..(span - 1)

(***************************************************************************)
(* A bad reading far outside the points cannot demand more than the last   *)
(* point or less than the first: Eval clamps and does not extrapolate.     *)
(***************************************************************************)
DemandStaysBetweenEnds ==
  Demand \in points[1].pct..points[Len(points)].pct

(***************************************************************************)
(* The raw value commanded is the PWM step nearest to the demand, so what  *)
(* apply records (RawToPct of it) is at most half a step from the demand,  *)
(* and no other step would have been closer.                               *)
(***************************************************************************)
CommandIsNearestStep ==
  LET Off(r) == IF RawToPct(r) >= Demand THEN RawToPct(r) - Demand ELSE Demand - RawToPct(r)
  IN  \A r \in 0..RawMax : Off(PctToRaw(Demand)) <= Off(r)

(***************************************************************************)
(* Getting hotter never lowers the command: neither the demand of the      *)
(* curve nor the PWM value it rounds to.                                   *)
(***************************************************************************)
HotterNeverLowersCommand ==
  [][PctToRaw(Demand') >= PctToRaw(Demand) /\ Demand' >= Demand]_<<points, temp>>
=============================================================================
