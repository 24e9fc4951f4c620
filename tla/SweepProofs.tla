----------------------------- MODULE SweepProofs -----------------------------
(***************************************************************************)
(* What the sweep of MCFanCurve checks on a grid, for every valid curve    *)
(* and without a last temperature: the steps of its specification are      *)
(* those of any curve and any reading.                                     *)
(***************************************************************************)
EXTENDS MCFanCurve, FanCurveProofs

SweepInv == ValidPoints(points) /\ temp \in Int

\* The curve stays a valid one and the temperature a number.
LEMMA SweepInvariant == Spec => []SweepInv
<1>1. Init => SweepInv
  BY DEF Init, SweepInv, Curves
<1>2. SweepInv /\ [Warm]_<<points, temp>> => SweepInv'
  BY DEF SweepInv, Warm
<1> QED
  BY <1>1, <1>2, PTL DEF Spec

(***************************************************************************)
(* Eval never extrapolates: on every curve the demand stays between the    *)
(* percentages of its ends.                                                *)
(***************************************************************************)
THEOREM SweepBetweenEnds == Spec => []DemandStaysBetweenEnds
<1>1. SweepInv => DemandStaysBetweenEnds
  BY EvalBetweenEnds DEF SweepInv, DemandStaysBetweenEnds, Demand
<1> QED
  BY <1>1, SweepInvariant, PTL

(***************************************************************************)
(* Eval's scan finds the segment the temperature is in: on every curve the *)
(* demand is on its graph.                                                 *)
(***************************************************************************)
THEOREM SweepOnTheCurve == Spec => []DemandLiesOnTheCurve
<1>1. SweepInv => DemandLiesOnTheCurve
  <2> SUFFICES ASSUME SweepInv, NEW i \in 1..(Len(points) - 1),
                      temp \in points[i].temp..points[i + 1].temp
               PROVE  LET lo == points[i]
                          hi == points[i + 1]
                          span == hi.temp - lo.temp
                      IN  (temp - lo.temp) * (hi.pct - lo.pct) - (Demand - lo.pct) * span
                            \in 0..(span - 1)
    BY DEF DemandLiesOnTheCurve
  <2>1. ValidPoints(points) /\ temp \in Int /\ Len(points) \in Nat
    BY PointsTyped DEF SweepInv
  <2>2. i + 1 \in 2..Len(points) /\ (i + 1) - 1 = i
    BY <2>1
  <2>3. points[(i + 1) - 1].temp <= temp /\ temp <= points[i + 1].temp
    BY <2>2, <2>1, PointsInOrder
  <2> QED
    BY <2>1, <2>2, <2>3, EvalOnTheCurve DEF Demand
<1> QED
  BY <1>1, SweepInvariant, PTL

(***************************************************************************)
(* The command is the PWM step nearest to the demand of any curve.         *)
(***************************************************************************)
THEOREM SweepNearestStep == Spec => []CommandIsNearestStep
<1>1. SweepInv => CommandIsNearestStep
  <2> SUFFICES ASSUME SweepInv, NEW r \in 0..RawMax
               PROVE  LET Off(s) == IF RawToPct(s) >= Demand THEN RawToPct(s) - Demand
                                    ELSE Demand - RawToPct(s)
                      IN  Off(PctToRaw(Demand)) <= Off(r)
    BY DEF CommandIsNearestStep
  <2>1. Demand \in 0..Full
    BY EvalBetweenEnds DEF SweepInv, Demand
  <2> QED
    BY <2>1, NearestStep
<1> QED
  BY <1>1, SweepInvariant, PTL

(***************************************************************************)
(* A hotter reading lowers neither the demand nor the command, on any      *)
(* curve.                                                                  *)
(***************************************************************************)
THEOREM SweepMonotone == Spec => HotterNeverLowersCommand
<1>1. SweepInv /\ [Warm]_<<points, temp>> =>
        [PctToRaw(Demand') >= PctToRaw(Demand) /\ Demand' >= Demand]_<<points, temp>>
  <2> SUFFICES ASSUME SweepInv, Warm
               PROVE  PctToRaw(Demand') >= PctToRaw(Demand) /\ Demand' >= Demand
    OBVIOUS
  <2>1. /\ ValidPoints(points) /\ points' = points
        /\ temp \in Int /\ temp' \in Int /\ temp <= temp'
    BY DEF SweepInv, Warm
  <2>2. Demand = Eval(points, temp) /\ Demand' = Eval(points, temp')
    BY <2>1 DEF Demand
  <2>3. /\ Demand <= Demand'
        /\ Demand \in 0..Full /\ Demand' \in 0..Full
    BY <2>1, <2>2, EvalMonotone, EvalBetweenEnds
  <2>4. Demand \in Int /\ Demand' \in Int
    BY <2>3 DEF Full, Pct
  <2>5. PctToRaw(Demand) <= PctToRaw(Demand')
    BY <2>3, <2>4, PctToRawMonotone
  <2>6. PctToRaw(Demand) \in Int /\ PctToRaw(Demand') \in Int
    BY <2>4, PctToRawIsByte DEF RawMax
  <2> QED
    BY <2>3, <2>4, <2>5, <2>6
<1> QED
  BY <1>1, SweepInvariant, PTL DEF Spec, HotterNeverLowersCommand
=============================================================================
