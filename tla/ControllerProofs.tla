-------------------------- MODULE ControllerProofs --------------------------
(***************************************************************************)
(* What a decision computes for every valid configuration, and invariants  *)
(* of the controller for every set of BMCs, fans and configurations, every *)
(* number of faults, restarts and edits, and any reloaders.                *)
(***************************************************************************)
EXTENDS Controller, FanCurveProofs

(***************************************************************************)
(* What decide and the first half of apply compute.                        *)
(***************************************************************************)

\* The members of the intervals Validate bounds a number by.
LEMMA IntervalNumbers ==
  /\ Full \in Int
  /\ \A n \in 0..Full : n \in Int /\ 0 <= n /\ n <= Full
  /\ \A n \in 1..Full : n \in Int /\ n <= Full /\ n \in 0..Full
  /\ \A n \in Int : \A m \in 0..n : m \in Int /\ 0 <= m /\ m <= n
<1>1. Full \in Int
  BY DEF Full, Pct
<1>2. \A n \in 0..Full : n \in Int /\ 0 <= n /\ n <= Full
  BY <1>1
<1>3. \A n \in 1..Full : n \in Int /\ n <= Full /\ n \in 0..Full
  BY <1>1
<1>4. \A n \in Int : \A m \in 0..n : m \in Int /\ 0 <= m /\ m <= n
  OBVIOUS
<1> QED
  BY <1>1, <1>2, <1>3, <1>4

\* The fields of a configuration that Validate has accepted.
LEMMA ValidNumbers ==
  ASSUME NEW c, ValidConfig(c)
  PROVE  /\ c.min \in Int /\ c.max \in Int /\ c.fixed \in 0..Full
         /\ 0 <= c.min /\ c.min <= c.max /\ c.max <= Full
         /\ c.hyst \in Int /\ c.ramp \in Int
<1>1. /\ c.max \in 1..Full /\ c.min \in 0..c.max /\ c.fixed \in 1..Full
      /\ c.hyst \in Int /\ c.ramp \in Int
  BY DEF ValidConfig
<1> QED
  BY <1>1, IntervalNumbers

\* A set of percentages that is not empty has a highest member.
LEMMA HighestIsIn ==
  ASSUME NEW S \in SUBSET (0..Full), S # {}
  PROVE  Highest(S) \in S /\ \A y \in S : y <= Highest(S)
<1> DEFINE T == {Full - x : x \in S}
<1>1. Full \in Int /\ T \in SUBSET Nat /\ T # {}
  <2>1. Full \in Int
    BY DEF Full, Pct
  <2>2. \A x \in S : Full - x \in Nat
    BY <2>1
  <2> QED BY <2>1, <2>2
<1>2. PICK t \in T : \A u \in T : t <= u
  <2> HIDE DEF T
  <2> QED BY <1>1, LeastNatural
<1>3. PICK x \in S : t = Full - x
  BY DEF T
<1>4. \A y \in S : y <= x
  <2> SUFFICES ASSUME NEW y \in S PROVE y <= x
    OBVIOUS
  <2>1. Full - y \in T
    BY DEF T
  <2>2. t <= Full - y
    BY <2>1, <1>2
  <2>3. x \in Int /\ y \in Int
    BY <1>1
  <2> QED BY <2>2, <2>3, <1>1, <1>3
<1> QED
  BY <1>4 DEF Highest

\* One curve demands a percentage, whether its sensor has a value or not.
LEMMA CurveDemandIsPercentage ==
  ASSUME NEW c, ValidConfig(c), NEW cv \in c.curves,
         NEW values, \A s \in DOMAIN values : values[s] \in Int
  PROVE  CurveDemand(c, cv, values) \in 0..Full
<1>1. CASE cv.sensor \in DOMAIN values
  <2>1. ValidPoints(cv.points)
    BY DEF ValidConfig
  <2>2. Eval(cv.points, values[cv.sensor]) \in 0..Full
    BY <1>1, <2>1, EvalBetweenEnds
  <2> QED BY <1>1, <2>2 DEF CurveDemand
<1>2. CASE cv.sensor \notin DOMAIN values
  BY <1>2, ValidNumbers DEF CurveDemand
<1> QED
  BY <1>1, <1>2

(***************************************************************************)
(* decide: every fan of the config gets a demand within the limits, none   *)
(* below what any curve over one of its zones asks for (up to the          *)
(* maximum), and in a critical cycle exactly the maximum.                  *)
(***************************************************************************)
THEOREM DemandsWithinLimits ==
  ASSUME NEW c, ValidConfig(c), NEW f \in c.fans,
         NEW values, \A s \in DOMAIN values : values[s] \in Int
  PROVE  LET d == Demands(c, values)[f]
         IN  /\ d \in c.min..c.max
             /\ \A cv \in c.curves : f \in FanIndexesForZones(c, cv.zones) =>
                  d = c.max \/ CurveDemand(c, cv, values) <= d
             /\ IsCritical(c, values) => d = c.max
<1> DEFINE S == DemandsOn(c, values, f)
           d == Demands(c, values)[f]
<1>1. /\ c.min \in Int /\ c.max \in Int /\ Full \in Int
      /\ 0 <= c.min /\ c.min <= c.max /\ c.max <= Full
  BY ValidNumbers DEF Full, Pct
<1>2. /\ S \in SUBSET (0..Full) /\ S # {}
      /\ \A cv \in c.curves : f \in FanIndexesForZones(c, cv.zones) =>
           CurveDemand(c, cv, values) \in S
  BY <1>1, CurveDemandIsPercentage DEF DemandsOn
<1>3. Highest(S) \in S /\ \A y \in S : y <= Highest(S)
  <2> HIDE DEF S
  <2> QED BY <1>2, HighestIsIn
<1>4. d = Clamp(IF IsCritical(c, values) THEN c.max ELSE Highest(S), c.min, c.max)
  BY DEF Demands
<1>5. /\ Highest(S) \in Int
      /\ \A cv \in c.curves : f \in FanIndexesForZones(c, cv.zones) =>
           /\ CurveDemand(c, cv, values) \in Int
           /\ CurveDemand(c, cv, values) <= Highest(S)
  <2>1. ASSUME NEW y \in S PROVE y \in Int
    <3> HIDE DEF S
    <3>1. y \in 0..Full /\ Full \in Int
      BY <1>1, <1>2
    <3> QED BY <3>1
  <2> HIDE DEF S
  <2> QED BY <1>2, <1>3, <2>1
<1>6. IsCritical(c, values) => d = c.max
  BY <1>1, <1>4 DEF Clamp
<1>7. ~IsCritical(c, values) =>
        /\ d \in c.min..c.max
        /\ \A cv \in c.curves : f \in FanIndexesForZones(c, cv.zones) =>
             d = c.max \/ CurveDemand(c, cv, values) <= d
  <2> HIDE DEF S, d
  <2> QED BY <1>1, <1>4, <1>5 DEF Clamp
<1> QED
  BY <1>1, <1>6, <1>7

(***************************************************************************)
(* apply: whatever was commanded before, the next command is within the    *)
(* limits of the configuration.                                            *)
(***************************************************************************)
THEOREM CommandWithinLimits ==
  ASSUME NEW c, ValidConfig(c), NEW had \in BOOLEAN, NEW prev, had => prev \in Int,
         NEW target \in Int, NEW crit \in BOOLEAN
  PROVE  /\ FloorToCommand(c, had, prev, target, crit) \in PctToRaw(c.min)..PctToRaw(c.max)
         /\ FloorToCommand(c, had, prev, target, crit) \in 0..RawMax
<1> DEFINE v == Ramped(c, had, prev, target, crit)
<1>1. c.min \in Int /\ c.max \in Int /\ c.min <= c.max /\ c.ramp \in Int
  BY ValidNumbers
<1>2. v \in Int
  BY <1>1 DEF Ramped, Falls
<1>3. Clamp(v, c.min, c.max) \in c.min..c.max
  <2> HIDE DEF v
  <2> QED BY <1>1, <1>2, ClampInLimits
<1>4. \A u \in c.min..c.max : /\ PctToRaw(c.min) <= PctToRaw(u)
                              /\ PctToRaw(u) <= PctToRaw(c.max)
                              /\ PctToRaw(u) \in 0..RawMax
  BY <1>1, PctToRawMonotone, PctToRawIsByte
<1>5. PctToRaw(c.min) \in 0..RawMax /\ PctToRaw(c.max) \in 0..RawMax
  BY <1>1, PctToRawIsByte
<1>6. FloorToCommand(c, had, prev, target, crit) = PctToRaw(Clamp(v, c.min, c.max))
  BY DEF FloorToCommand
<1> QED
  <2> HIDE DEF v
  <2> QED BY <1>3, <1>4, <1>5, <1>6 DEF RawMax

(***************************************************************************)
(* apply: a command below the last one is at most the ramp limit, and the  *)
(* half step lost in rounding, below it, unless that one was above the     *)
(* maximum.  A critical cycle, which skips the limit, cannot lower one     *)
(* that was within it.                                                     *)
(***************************************************************************)
THEOREM CommandFallsSlowly ==
  ASSUME NEW c, ValidConfig(c), NEW prev \in Int, NEW target \in Int, NEW crit \in BOOLEAN,
         crit => target = c.max
  PROVE  LET new == RawToPct(FloorToCommand(c, TRUE, prev, target, crit))
         IN  new < prev => \/ prev > RawToPct(PctToRaw(c.max))
                           \/ c.ramp <= 0
                           \/ prev - new <= c.ramp + RawStep \div 2
<1> DEFINE v == Ramped(c, TRUE, prev, target, crit)
           u == Clamp(v, c.min, c.max)
           new == RawToPct(PctToRaw(u))
<1>1. /\ c.min \in Int /\ c.max \in Int /\ c.ramp \in Int
      /\ 0 <= c.min /\ c.min <= c.max /\ c.max <= Full
  BY ValidNumbers
<1>2. FloorToCommand(c, TRUE, prev, target, crit) = PctToRaw(u)
  BY DEF FloorToCommand
<1>3. v \in Int /\ (c.ramp > 0 => v >= prev - c.ramp \/ (crit /\ v = c.max))
  BY <1>1 DEF Ramped, Falls
<1>4. u \in Int /\ u \in 0..Full /\ (u >= v \/ u = c.max) /\ (v = c.max => u = c.max)
  <2> HIDE DEF v
  <2>1. u \in c.min..c.max /\ (u >= v \/ u = c.max) /\ (v = c.max => u = c.max)
    BY <1>1, <1>3 DEF Clamp
  <2> HIDE DEF u
  <2> QED BY <1>1, <2>1, IntervalNumbers
<1>5. new \in Int /\ new - u \in (-9)..10
  <2> HIDE DEF u
  <2> QED BY <1>4, RoundingError
<1>6. CASE u = c.max
  BY <1>2, <1>6
<1>7. CASE c.ramp > 0 /\ u >= prev - c.ramp
  <2>1. prev - new <= c.ramp + 10
    <3> HIDE DEF u, new
    <3> QED BY <1>1, <1>4, <1>5, <1>7
  <2>2. RawStep \div 2 = 10
    BY SMT DEF RawStep
  <2> HIDE DEF new, u
  <2>3. new = RawToPct(FloorToCommand(c, TRUE, prev, target, crit))
    BY <1>2 DEF new
  <2> QED BY <2>1, <2>2, <2>3
<1> QED
  <2> HIDE DEF u, v, new
  <2>1. c.ramp <= 0 \/ u = c.max \/ (c.ramp > 0 /\ u >= prev - c.ramp)
    BY <1>1, <1>3, <1>4
  <2> QED BY <2>1, <1>6, <1>7
-----------------------------------------------------------------------------
(***************************************************************************)
(* One decision against another: hotter readings, and the floor a cycle    *)
(* leaves behind.                                                          *)
(***************************************************************************)

\* One curve does not demand less of a hotter sensor.
LEMMA CurveDemandMonotone ==
  ASSUME NEW c, ValidConfig(c), NEW cv \in c.curves, NEW v, NEW w, DOMAIN v = DOMAIN w,
         \A s \in DOMAIN v : v[s] \in Int /\ w[s] \in Int /\ v[s] <= w[s]
  PROVE  CurveDemand(c, cv, v) <= CurveDemand(c, cv, w)
<1>1. CASE cv.sensor \in DOMAIN v
  <2>1. ValidPoints(cv.points)
    BY DEF ValidConfig
  <2>2. Eval(cv.points, v[cv.sensor]) <= Eval(cv.points, w[cv.sensor])
    BY <1>1, <2>1, EvalMonotone
  <2> QED BY <1>1, <2>2 DEF CurveDemand
<1>2. CASE cv.sensor \notin DOMAIN v
  <2>1. c.fixed \in 0..Full
    BY ValidNumbers
  <2>2. c.fixed \in Int
    BY <2>1, IntervalNumbers
  <2> QED BY <1>2, <2>2 DEF CurveDemand
<1> QED
  BY <1>1, <1>2

\* A critical reading stays one when the sensors get hotter.
LEMMA CriticalMonotone ==
  ASSUME NEW c, ValidConfig(c), NEW v, NEW w, DOMAIN v = DOMAIN w,
         \A s \in DOMAIN v : v[s] \in Int /\ w[s] \in Int /\ v[s] <= w[s]
  PROVE  IsCritical(c, v) => IsCritical(c, w)
<1> SUFFICES ASSUME NEW cr \in c.critical, cr.sensor \in DOMAIN v, v[cr.sensor] >= cr.temp
             PROVE  w[cr.sensor] >= cr.temp
  BY DEF IsCritical
<1>1. cr.temp \in Int
  BY DEF ValidConfig
<1> QED
  BY <1>1

LEMMA ClampMonotone ==
  ASSUME NEW u \in Int, NEW v \in Int, NEW lo \in Int, NEW hi \in Int, lo <= hi, u <= v
  PROVE  Clamp(u, lo, hi) <= Clamp(v, lo, hi)
BY DEF Clamp

(***************************************************************************)
(* decide: when no sensor group is cooler, no fan's demand is lower.  A    *)
(* group without a value has none in both.                                 *)
(***************************************************************************)
THEOREM DemandsMonotone ==
  ASSUME NEW c, ValidConfig(c), NEW f \in c.fans, NEW v, NEW w, DOMAIN v = DOMAIN w,
         \A s \in DOMAIN v : v[s] \in Int /\ w[s] \in Int /\ v[s] <= w[s]
  PROVE  Demands(c, v)[f] <= Demands(c, w)[f]
<1>1. /\ c.min \in Int /\ c.max \in Int /\ Full \in Int
      /\ 0 <= c.min /\ c.min <= c.max /\ c.max <= Full
  BY ValidNumbers, IntervalNumbers
<1>2. CASE IsCritical(c, w)
  <2>1. Demands(c, w)[f] = c.max
    BY <1>2, DemandsWithinLimits
  <2>2. Demands(c, v)[f] \in c.min..c.max
    BY DemandsWithinLimits
  <2> QED BY <1>1, <2>1, <2>2
<1>3. CASE ~IsCritical(c, w)
  <2> DEFINE S == DemandsOn(c, v, f)
             T == DemandsOn(c, w, f)
  <2>1. S \in SUBSET (0..Full) /\ S # {} /\ T \in SUBSET (0..Full) /\ T # {}
    BY <1>1, CurveDemandIsPercentage DEF DemandsOn
  <2>2. Highest(S) \in S /\ Highest(T) \in T /\ \A y \in T : y <= Highest(T)
    <3> HIDE DEF S, T
    <3> QED BY <2>1, HighestIsIn
  <2>3. \A x \in S : \E y \in T : x <= y
    <3> SUFFICES ASSUME NEW x \in S PROVE \E y \in T : x <= y
      OBVIOUS
    <3>1. CASE x = c.min
      BY <1>1, <3>1 DEF DemandsOn
    <3>2. CASE \E cv \in {u \in c.curves : f \in FanIndexesForZones(c, u.zones)} :
                 x = CurveDemand(c, cv, v)
      <4>1. PICK cv \in c.curves : /\ f \in FanIndexesForZones(c, cv.zones)
                                   /\ x = CurveDemand(c, cv, v)
        BY <3>2
      <4>2. x <= CurveDemand(c, cv, w)
        BY <4>1, CurveDemandMonotone
      <4>3. CurveDemand(c, cv, w) \in T
        BY <4>1 DEF DemandsOn
      <4> QED BY <4>2, <4>3
    <3> QED BY <3>1, <3>2 DEF DemandsOn
  <2>4. Highest(S) \in Int /\ Highest(T) \in Int /\ Highest(S) <= Highest(T)
    <3> HIDE DEF S, T
    <3>1. PICK y \in T : Highest(S) <= y
      BY <2>2, <2>3
    <3>2. y <= Highest(T)
      BY <2>2
    <3>3. y \in Int /\ Highest(S) \in Int /\ Highest(T) \in Int
      BY <2>1, <2>2, IntervalNumbers
    <3> QED BY <3>1, <3>2, <3>3
  <2>5. ~IsCritical(c, v)
    BY <1>3, CriticalMonotone
  <2>6. /\ Demands(c, v)[f] = Clamp(Highest(S), c.min, c.max)
        /\ Demands(c, w)[f] = Clamp(Highest(T), c.min, c.max)
    BY <1>3, <2>5 DEF Demands
  <2>7. Clamp(Highest(S), c.min, c.max) <= Clamp(Highest(T), c.min, c.max)
    <3> HIDE DEF S, T
    <3> QED BY <1>1, <2>4, ClampMonotone
  <2> QED BY <2>6, <2>7
<1> QED
  BY <1>2, <1>3

\* The floor in force after apply has gone over a fan that had floor prev,
\* when the command goes through.
FloorLeft(c, prev, target, crit) ==
  IF \/ HeldByHysteresis(c, TRUE, prev, target, crit)
     \/ FloorToCommand(c, TRUE, prev, target, crit) = PctToRaw(prev)
  THEN prev ELSE RawToPct(FloorToCommand(c, TRUE, prev, target, crit))

\* The percentage on the wire for a demand.
OnWire(target) == RawToPct(PctToRaw(target))

\* RawToPct and PctToRaw between recorded floors and commands, in numbers.
LEMMA WireNumbers ==
  /\ \A r \in 0..RawMax : /\ RawToPct(r) \in Int /\ RawToPct(r) \in 0..Full
                          /\ RawToPct(r) = 20 * r /\ PctToRaw(RawToPct(r)) = r
  /\ \A u \in 0..Full : /\ PctToRaw(u) \in 0..RawMax /\ PctToRaw(u) \in Int
                        /\ OnWire(u) \in Int /\ OnWire(u) = 20 * PctToRaw(u)
                        /\ OnWire(u) - u \in (-9)..10
<1>1. ASSUME NEW r \in 0..RawMax
      PROVE  /\ RawToPct(r) \in Int /\ RawToPct(r) \in 0..Full
             /\ RawToPct(r) = 20 * r /\ PctToRaw(RawToPct(r)) = r
  <2>1. RawToPct(r) \in 0..Full /\ PctToRaw(RawToPct(r)) = r
    BY RoundTrip
  <2>2. RawToPct(r) = 20 * r
    BY DEF RawToPct, RawStep
  <2> QED BY <2>1, <2>2, IntervalNumbers
<1>2. ASSUME NEW u \in 0..Full
      PROVE  /\ PctToRaw(u) \in 0..RawMax /\ PctToRaw(u) \in Int
             /\ OnWire(u) \in Int /\ OnWire(u) = 20 * PctToRaw(u)
             /\ OnWire(u) - u \in (-9)..10
  <2>1. PctToRaw(u) \in 0..RawMax
    BY PctToRawIsByte, IntervalNumbers
  <2>2. PctToRaw(u) \in Int /\ OnWire(u) \in Int /\ OnWire(u) - u \in (-9)..10
    BY RoundingError DEF OnWire
  <2>3. OnWire(u) = 20 * PctToRaw(u)
    BY DEF OnWire, RawToPct, RawStep
  <2> QED BY <2>1, <2>2, <2>3
<1> QED
  BY <1>1, <1>2

\* The percentage a fall is clamped and limited to, in plain numbers.
FallTo(lo, hi, ramp, prev, target) ==
  Clamp(IF ramp > 0 /\ prev - target > ramp THEN prev - ramp ELSE target, lo, hi)

LEMMA FallNumbers ==
  ASSUME NEW lo \in Int, NEW hi \in Int, NEW ramp \in Int, NEW prev \in Int, NEW target \in Int,
         lo <= target, target <= hi, target < prev
  PROVE  LET v == FallTo(lo, hi, ramp, prev, target)
         IN  /\ v \in Int /\ target <= v /\ v <= hi /\ v <= prev
             /\ ramp <= 0 \/ prev - target <= ramp => v = target
             /\ ramp > 0 /\ prev - target > ramp =>
                  v = IF prev - ramp <= hi THEN prev - ramp ELSE hi
BY DEF FallTo, Clamp

LEMMA FallOfConfig ==
  ASSUME NEW c, ValidConfig(c), NEW prev \in Int, NEW target \in Int,
         c.min <= target, target <= c.max, target < prev
  PROVE  LET v == FallTo(c.min, c.max, c.ramp, prev, target)
         IN  /\ v \in Int /\ target <= v /\ v <= c.max /\ v <= prev
             /\ c.ramp <= 0 \/ prev - target <= c.ramp => v = target
             /\ c.ramp > 0 /\ prev - target > c.ramp =>
                  v = IF prev - c.ramp <= c.max THEN prev - c.ramp ELSE c.max
<1> DEFINE lo == c.min
           hi == c.max
           ramp == c.ramp
           v == FallTo(lo, hi, ramp, prev, target)
<1>1. lo \in Int /\ hi \in Int /\ ramp \in Int /\ lo <= target /\ target <= hi
  BY ValidNumbers
<1>2. /\ v \in Int /\ target <= v /\ v <= hi /\ v <= prev
      /\ ramp <= 0 \/ prev - target <= ramp => v = target
      /\ ramp > 0 /\ prev - target > ramp => v = IF prev - ramp <= hi THEN prev - ramp ELSE hi
  <2> HIDE DEF lo, hi, ramp
  <2> QED BY <1>1, FallNumbers
<1> QED
  BY <1>2

\* The three outcomes of apply for a fan that has a floor.
LEMMA FloorLeftCases ==
  ASSUME NEW c, ValidConfig(c), NEW r \in 0..RawMax, NEW prev, prev = RawToPct(r),
         NEW target \in Int, c.min <= target, target <= c.max, NEW crit \in BOOLEAN
  PROVE  /\ crit \/ prev <= target => FloorLeft(c, prev, target, crit) = OnWire(target)
         /\ ~crit /\ target < prev =>
              FloorLeft(c, prev, target, crit) =
                IF prev - target < c.hyst THEN prev
                ELSE OnWire(FallTo(c.min, c.max, c.ramp, prev, target))
<1>1. prev \in Int /\ PctToRaw(prev) = r /\ c.min \in Int /\ c.max \in Int
  BY ValidNumbers, WireNumbers
<1>2. FloorLeft(c, prev, target, crit) =
        IF HeldByHysteresis(c, TRUE, prev, target, crit) THEN prev
        ELSE RawToPct(FloorToCommand(c, TRUE, prev, target, crit))
  BY <1>1 DEF FloorLeft
<1>3. CASE crit \/ prev <= target
  <2>1. ~Falls(TRUE, prev, target, crit)
    BY <1>1, <1>3 DEF Falls
  <2>2. FloorToCommand(c, TRUE, prev, target, crit) = PctToRaw(Clamp(target, c.min, c.max))
    BY <2>1 DEF FloorToCommand, Ramped
  <2>3. Clamp(target, c.min, c.max) = target
    BY <1>1, SMT DEF Clamp
  <2>4. ~(~crit /\ target < prev)
    BY <1>1, <1>3
  <2> QED BY <1>2, <1>3, <2>1, <2>2, <2>3, <2>4 DEF HeldByHysteresis, OnWire
<1>4. CASE ~crit /\ target < prev
  <2>1. Falls(TRUE, prev, target, crit)
    BY <1>4 DEF Falls
  <2>2. FloorToCommand(c, TRUE, prev, target, crit) =
          PctToRaw(FallTo(c.min, c.max, c.ramp, prev, target))
    BY <2>1 DEF FloorToCommand, Ramped, FallTo
  <2>3. HeldByHysteresis(c, TRUE, prev, target, crit) <=> prev - target < c.hyst
    BY <2>1 DEF HeldByHysteresis
  <2>4. ~(crit \/ prev <= target)
    BY <1>1, <1>4
  <2> QED BY <1>2, <1>4, <2>2, <2>3, <2>4 DEF OnWire
<1> QED
  BY <1>1, <1>3, <1>4

\* OnWire, and a recorded floor, against each other.
LEMMA OnWireMonotone ==
  /\ \A u, v \in 0..Full : u <= v => OnWire(u) <= OnWire(v)
  /\ \A u \in 0..Full, r \in 0..RawMax :
       /\ u <= RawToPct(r) => OnWire(u) <= RawToPct(r)
       /\ RawToPct(r) <= u => RawToPct(r) <= OnWire(u)
<1>1. ASSUME NEW u \in 0..Full, NEW v \in 0..Full, u <= v PROVE OnWire(u) <= OnWire(v)
  <2>1. u \in Int /\ v \in Int
    BY IntervalNumbers
  <2>2. PctToRaw(u) <= PctToRaw(v)
    BY <1>1, <2>1, PctToRawMonotone
  <2>3. /\ PctToRaw(u) \in Int /\ OnWire(u) = 20 * PctToRaw(u)
        /\ PctToRaw(v) \in Int /\ OnWire(v) = 20 * PctToRaw(v)
    BY WireNumbers
  <2> QED BY <2>2, <2>3
<1>2. \A r \in 0..RawMax : RawToPct(r) \in 0..Full /\ OnWire(RawToPct(r)) = RawToPct(r)
  BY WireNumbers DEF OnWire
<1> QED
  BY <1>1, <1>2

(***************************************************************************)
(* apply: of two cycles that find the same floor, the one with the higher  *)
(* demand does not leave the lower floor, whatever hysteresis, the ramp    *)
(* limit and the skipped re-write do in each.  A floor above the maximum   *)
(* (one that a reload has lowered since) is exempt: a critical cycle takes *)
(* it down to the maximum, while hysteresis may hold it.                   *)
(***************************************************************************)
THEOREM HigherDemandKeepsMore ==
  ASSUME NEW c, ValidConfig(c), NEW r \in 0..RawMax, RawToPct(r) <= OnWire(c.max),
         NEW t \in Int, NEW u \in Int, c.min <= t, t <= u, u <= c.max,
         NEW critT \in BOOLEAN, NEW critU \in BOOLEAN,
         critT => critU, critT => t = c.max, critU => u = c.max
  PROVE  FloorLeft(c, RawToPct(r), t, critT) <= FloorLeft(c, RawToPct(r), u, critU)
<1> DEFINE prev == RawToPct(r)
           lo == c.min
           hi == c.max
           a == FallTo(c.min, c.max, c.ramp, prev, t)
           b == FallTo(c.min, c.max, c.ramp, prev, u)
<1>1. /\ lo \in Int /\ hi \in Int /\ c.ramp \in Int /\ c.hyst \in Int
      /\ 0 <= lo /\ hi <= Full /\ Full \in Int /\ prev \in Int /\ prev \in 0..Full
  BY ValidNumbers, WireNumbers, IntervalNumbers
<1>2. t \in 0..Full /\ u \in 0..Full /\ OnWire(t) \in Int /\ OnWire(u) \in Int
      /\ OnWire(t) <= OnWire(u)
  <2>1. t \in 0..Full /\ u \in 0..Full
    <3> HIDE DEF prev, lo, hi, a, b
    <3>1. lo <= t /\ t <= u /\ u <= hi
      BY DEF lo, hi
    <3> QED BY <1>1, <3>1
  <2> QED BY <2>1, WireNumbers, OnWireMonotone
<1>3. CASE critT \/ prev <= t
  <2>1. critU \/ prev <= u
    <3> HIDE DEF prev
    <3> QED BY <1>1, <1>3
  <2>2. /\ FloorLeft(c, prev, t, critT) = OnWire(t)
        /\ FloorLeft(c, prev, u, critU) = OnWire(u)
    <3>1. t <= c.max /\ c.min <= u
      <4> HIDE DEF prev, a, b
      <4> QED BY <1>1
    <3> QED BY <1>3, <2>1, <3>1, FloorLeftCases
  <2> QED BY <1>2, <2>2
<1>4. CASE ~critT /\ t < prev
  <2>1. /\ a \in Int /\ t <= a /\ a <= hi /\ a <= prev
        /\ c.ramp <= 0 \/ prev - t <= c.ramp => a = t
        /\ c.ramp > 0 /\ prev - t > c.ramp =>
             a = IF prev - c.ramp <= hi THEN prev - c.ramp ELSE hi
    <3>1. lo <= t /\ t <= hi
      <4> HIDE DEF prev, a, b
      <4> QED BY <1>1
    <3> QED BY <1>1, <1>4, <3>1, FallOfConfig
  <2>2. a \in 0..Full /\ OnWire(a) \in Int /\ OnWire(a) <= prev
    <3>1. a \in 0..Full
      <4> HIDE DEF prev, a, b, lo, hi
      <4> QED BY <1>1, <1>2, <2>1
    <3> QED BY <2>1, <3>1, WireNumbers, OnWireMonotone
  <2>3. FloorLeft(c, prev, t, critT) = IF prev - t < c.hyst THEN prev ELSE OnWire(a)
    <3>1. t <= c.max
      <4> HIDE DEF prev, a, b
      <4> QED BY <1>1
    <3> QED BY <1>4, <3>1, FloorLeftCases
  <2>4. CASE critU \/ prev <= u
    <3>1. FloorLeft(c, prev, u, critU) = OnWire(u)
      <4>1. c.min <= u
        <5> HIDE DEF prev, a, b
        <5> QED BY <1>1
      <4> QED BY <2>4, <4>1, FloorLeftCases
    <3>2. prev <= OnWire(u)
      <4>1. u = hi \/ prev <= u
        BY <2>4
      <4> QED BY <1>2, <4>1, OnWireMonotone
    <3>3. FloorLeft(c, prev, t, critT) <= FloorLeft(c, prev, u, critU)
      <4> HIDE DEF prev, a, b, lo, hi
      <4> QED BY <1>1, <1>2, <2>2, <2>3, <3>1, <3>2
    <3> QED BY <3>3
  <2>5. CASE ~critU /\ u < prev
    <3>1. lo <= u /\ u <= hi
      <4> HIDE DEF prev, a, b
      <4> QED BY <1>1
    <3>2. FloorLeft(c, prev, u, critU) = IF prev - u < c.hyst THEN prev ELSE OnWire(b)
      BY <2>5, <3>1, FloorLeftCases
    <3>3. /\ b \in Int /\ u <= b /\ b <= hi
          /\ c.ramp <= 0 \/ prev - u <= c.ramp => b = u
          /\ c.ramp > 0 /\ prev - u > c.ramp =>
               b = IF prev - c.ramp <= hi THEN prev - c.ramp ELSE hi
      BY <1>1, <2>5, <3>1, FallOfConfig
    <3>4. a <= b /\ b \in 0..Full
      <4> HIDE DEF prev, a, b, lo, hi
      <4> QED BY <1>1, <1>2, <2>1, <3>3
    <3>5. OnWire(a) <= OnWire(b)
      <4> HIDE DEF prev, a, b, lo, hi
      <4> QED BY <2>2, <3>4, OnWireMonotone
    <3>6. FloorLeft(c, prev, t, critT) <= FloorLeft(c, prev, u, critU)
      <4> HIDE DEF prev, a, b, lo, hi
      <4> QED BY <1>1, <2>2, <2>3, <3>2, <3>5
    <3> QED BY <3>6
  <2> HIDE DEF prev, a, b, lo, hi
  <2> QED BY <1>1, <2>4, <2>5
<1> HIDE DEF a, b, lo, hi
<1>5. critT \/ prev <= t \/ (~critT /\ t < prev)
  <2> HIDE DEF prev
  <2> QED BY <1>1
<1> QED
  BY <1>3, <1>4, <1>5

(***************************************************************************)
(* A cycle over hotter readings: from the same remembered floor, no fan    *)
(* ends with a lower one, from the sensor values through curves, critical  *)
(* limits, hysteresis, the ramp and rounding to the wire.                  *)
(***************************************************************************)
THEOREM HotterNeverLeavesSlower ==
  ASSUME NEW c, ValidConfig(c), NEW f \in c.fans, NEW v, NEW w, DOMAIN v = DOMAIN w,
         \A s \in DOMAIN v : v[s] \in Int /\ w[s] \in Int /\ v[s] <= w[s],
         NEW r \in 0..RawMax, RawToPct(r) <= OnWire(c.max)
  PROVE  FloorLeft(c, RawToPct(r), Demands(c, v)[f], IsCritical(c, v))
           <= FloorLeft(c, RawToPct(r), Demands(c, w)[f], IsCritical(c, w))
<1> DEFINE t == Demands(c, v)[f]
           u == Demands(c, w)[f]
<1>1. c.min \in Int /\ c.max \in Int
  BY ValidNumbers
<1>2. /\ t \in c.min..c.max /\ (IsCritical(c, v) => t = c.max)
      /\ u \in c.min..c.max /\ (IsCritical(c, w) => u = c.max)
  BY DemandsWithinLimits
<1>3. t <= u
  BY DemandsMonotone
<1>4. IsCritical(c, v) => IsCritical(c, w)
  BY CriticalMonotone
<1>5. IsCritical(c, v) \in BOOLEAN /\ IsCritical(c, w) \in BOOLEAN
  BY DEF IsCritical
<1> HIDE DEF t, u
<1>6. t \in Int /\ u \in Int /\ c.min <= t /\ u <= c.max
  BY <1>1, <1>2
<1>7. FloorLeft(c, RawToPct(r), t, IsCritical(c, v))
        <= FloorLeft(c, RawToPct(r), u, IsCritical(c, w))
  BY <1>2, <1>3, <1>4, <1>5, <1>6, HigherDemandKeepsMore
<1> QED
  BY <1>7 DEF t, u

(***************************************************************************)
(* apply heads for the demand and does not pass it: a rise reaches the     *)
(* wire value of the demand at once, a fall stays between the two; and a   *)
(* fall that hysteresis does not hold makes headway, unless the ramp limit *)
(* is positive but no more than half a PWM step.                           *)
(***************************************************************************)
THEOREM FloorHeadsForDemand ==
  ASSUME NEW c, ValidConfig(c), NEW r \in 0..RawMax, NEW prev, prev = RawToPct(r),
         NEW target \in Int, c.min <= target, target <= c.max, NEW crit \in BOOLEAN
  PROVE  LET new == FloorLeft(c, prev, target, crit)
         IN  /\ crit \/ prev <= target => new = OnWire(target)
             /\ ~crit /\ target < prev => OnWire(target) <= new /\ new <= prev
             /\ ~crit /\ target < prev /\ prev - target >= c.hyst
                  /\ (c.ramp <= 0 \/ c.ramp > RawStep \div 2) =>
                  new = OnWire(target) \/ prev - new >= RawStep
<1> DEFINE new == FloorLeft(c, prev, target, crit)
           v == FallTo(c.min, c.max, c.ramp, prev, target)
<1>1. /\ c.min \in Int /\ c.max \in Int /\ c.ramp \in Int /\ c.hyst \in Int
      /\ 0 <= c.min /\ c.max <= Full /\ Full \in Int /\ prev \in Int /\ prev = 20 * r
  BY ValidNumbers, WireNumbers, IntervalNumbers
<1>2. crit \/ prev <= target => new = OnWire(target)
  BY FloorLeftCases
<1>3. CASE ~crit /\ target < prev
  <2>1. /\ v \in Int /\ target <= v /\ v <= c.max /\ v <= prev
        /\ c.ramp <= 0 \/ prev - target <= c.ramp => v = target
        /\ c.ramp > 0 /\ prev - target > c.ramp =>
             v = IF prev - c.ramp <= c.max THEN prev - c.ramp ELSE c.max
    BY <1>1, <1>3, FallOfConfig
  <2>2. new = IF prev - target < c.hyst THEN prev ELSE OnWire(v)
    BY <1>3, FloorLeftCases
  <2>3. target \in 0..Full /\ v \in 0..Full
    <3> HIDE DEF v, new
    <3> QED BY <1>1, <2>1
  <2>4. /\ OnWire(target) \in Int /\ OnWire(v) \in Int /\ OnWire(v) - v \in (-9)..10
        /\ PctToRaw(v) \in Int /\ OnWire(v) = 20 * PctToRaw(v)
        /\ OnWire(target) <= OnWire(v) /\ OnWire(v) <= prev /\ OnWire(target) <= prev
    <3> HIDE DEF v, new
    <3> QED BY <1>3, <2>1, <2>3, WireNumbers, OnWireMonotone
  <2>5. OnWire(target) <= new /\ new <= prev
    <3> HIDE DEF v, new
    <3> QED BY <1>1, <2>2, <2>4
  <2>6. ASSUME prev - target >= c.hyst, c.ramp <= 0 \/ c.ramp > 10
        PROVE  new = OnWire(target) \/ prev - new >= 20
    <3>1. new = OnWire(v)
      <4> HIDE DEF v, new
      <4> QED BY <1>1, <2>2, <2>6
    <3>2. CASE v = target
      BY <3>1, <3>2
    <3>3. CASE c.ramp > 10 /\ v <= prev - c.ramp
      <4> DEFINE q == PctToRaw(v)
                 wv == OnWire(v)
      <4>1. q \in Int /\ wv = 20 * q /\ wv - v <= 10 /\ wv \in Int
        BY <2>4
      <4> HIDE DEF v, new, q, wv
      <4>2. 20 * q < 20 * r
        BY <1>1, <2>1, <3>3, <4>1
      <4>3. q <= r - 1
        BY <4>1, <4>2
      <4>4. prev - wv >= 20
        BY <1>1, <4>1, <4>3
      <4> QED BY <3>1, <4>4 DEF wv
    <3>4. v = target \/ (c.ramp > 10 /\ v <= prev - c.ramp)
      <4> HIDE DEF v, new
      <4> QED BY <1>1, <2>1, <2>6
    <3> QED BY <3>2, <3>3, <3>4
  <2>7. RawStep \div 2 = 10 /\ RawStep = 20
    BY SMT DEF RawStep
  <2> HIDE DEF new, v
  <2>8. ~(crit \/ prev <= target)
    BY <1>1, <1>3
  <2> QED BY <2>5, <2>6, <2>7, <2>8 DEF new
<1> HIDE DEF new, v
<1>4. (crit \/ prev <= target) \/ (~crit /\ target < prev)
  BY <1>1
<1>5. CASE crit \/ prev <= target
  <2>1. ~(~crit /\ target < prev)
    BY <1>1, <1>5
  <2> QED BY <1>2, <2>1 DEF new
<1> QED
  BY <1>3, <1>4, <1>5

(***************************************************************************)
(* The exception is real: a ramp limit that is positive and at most half a *)
(* PWM step (below 0.2 percent) is lost in rounding, so a floor further    *)
(* from its demand than the limit never falls again.                       *)
(***************************************************************************)
THEOREM SmallRampNeverFalls ==
  ASSUME NEW c, ValidConfig(c), NEW r \in 0..RawMax, NEW prev, prev = RawToPct(r),
         prev <= OnWire(c.max), NEW target \in Int, c.min <= target, target <= c.max,
         0 < c.ramp, c.ramp <= RawStep \div 2, prev - target > c.ramp
  PROVE  FloorLeft(c, prev, target, FALSE) = prev
<1> DEFINE v == FallTo(c.min, c.max, c.ramp, prev, target)
<1>1. /\ c.min \in Int /\ c.max \in Int /\ c.ramp \in Int /\ c.hyst \in Int
      /\ 0 <= c.min /\ c.min <= c.max /\ c.max <= Full /\ Full \in Int
      /\ prev \in Int /\ prev = 20 * r
      /\ c.max \in 0..Full
  <2>1. /\ c.min \in Int /\ c.max \in Int /\ c.ramp \in Int /\ c.hyst \in Int
        /\ 0 <= c.min /\ c.min <= c.max /\ c.max <= Full /\ Full \in Int
        /\ prev \in Int /\ prev = 20 * r
    BY ValidNumbers, WireNumbers, IntervalNumbers
  <2> QED BY <2>1
<1>2. c.ramp <= 10
  BY SMT DEF RawStep
<1>3. target < prev
  BY <1>1
<1>4. v = IF prev - c.ramp <= c.max THEN prev - c.ramp ELSE c.max
  BY <1>1, <1>3, FallOfConfig
<1>5. FloorLeft(c, prev, target, FALSE) = IF prev - target < c.hyst THEN prev ELSE OnWire(v)
  BY <1>3, FloorLeftCases
<1>6. OnWire(v) = prev
  <2>1. CASE v = c.max /\ c.max <= prev
    BY <1>1, <2>1, WireNumbers, OnWireMonotone
  <2>2. CASE v = prev - c.ramp
    <3>1. v \in 0..Full
      <4> HIDE DEF v
      <4> QED BY <1>1, <1>3, <1>4, <2>2
    <3>2. /\ PctToRaw(v) \in Int /\ OnWire(v) = 20 * PctToRaw(v) /\ OnWire(v) - v \in (-9)..10
          /\ OnWire(v) \in Int
      BY <3>1, WireNumbers
    <3> DEFINE q == PctToRaw(v)
    <3> HIDE DEF v, q
    <3>3. 20 * q >= 20 * r - 19 /\ 20 * q <= 20 * r + 9
      BY <1>1, <1>2, <2>2, <3>2 DEF q
    <3>4. q = r
      BY <3>2, <3>3 DEF q
    <3> QED BY <1>1, <3>2, <3>4 DEF q
  <2>3. (v = c.max /\ c.max <= prev) \/ v = prev - c.ramp
    <3> HIDE DEF v
    <3> QED BY <1>1, <1>4
  <2> QED BY <2>1, <2>2, <2>3
<1> QED
  BY <1>5, <1>6
-----------------------------------------------------------------------------
(***************************************************************************)
(* Types of the controller.                                                *)
(***************************************************************************)

\* What the constants give of one configuration.
LEMMA ConfigFacts ==
  ASSUME NEW c \in Configs
  PROVE  /\ ValidConfig(c) /\ c.fans \subseteq Fan /\ c.ilo \in Host
         /\ c.min \in Int /\ c.max \in Int /\ c.min <= c.max
         /\ PctToRaw(c.min) \in 0..RawMax
         /\ PctToRaw(c.min) <= PctToRaw(c.max)
<1>1. ValidConfig(c) /\ c.fans \subseteq Fan /\ c.ilo \in Host
  BY ControllerAssumption
<1> QED
  BY <1>1, ValidNumbers, PctToRawIsByte, PctToRawMonotone

\* The values in the type invariant are distinguishable.
LEMMA Distinct ==
  /\ None \notin Floor /\ None \notin 0..RawMax /\ None \notin 0..100
  /\ \A r \in 0..RawMax : RawToPct(r) \in Floor
BY BmcAssumption, RoundTrip, IntervalNumbers DEF Floor, RawMax

\* A step that leaves a group of variables alone keeps its types.
LEMMA SameTypes ==
  /\ BmcTypeOK /\ UNCHANGED bmcVars => BmcTypeOK'
  /\ FileTypeOK /\ UNCHANGED fileVars => FileTypeOK'
  /\ CtlTypeOK /\ UNCHANGED ctlVars => CtlTypeOK'
  /\ AskTypeOK /\ UNCHANGED askVars => AskTypeOK'
  /\ LoopTypeOK /\ UNCHANGED loopVars => LoopTypeOK'
  /\ ViewTypeOK /\ UNCHANGED viewVars => ViewTypeOK'
  /\ RelTypeOK /\ UNCHANGED rel => RelTypeOK'
BY DEF BmcTypeOK, bmcVars, FileTypeOK, fileVars, CtlTypeOK, ctlVars, AskTypeOK, askVars,
       LoopTypeOK, loopVars, ViewTypeOK, viewVars, RelTypeOK
-----------------------------------------------------------------------------
(***************************************************************************)
(* The BMC's side of each call.                                            *)
(***************************************************************************)
LEMMA FailsType ==
  ASSUME faults \in 0..MaxFaults, NEW cancelled, Fails(cancelled)
  PROVE  faults' \in 0..MaxFaults
BY BmcAssumption DEF Fails

\* Connect.
LEMMA ConnectType ==
  ASSUME BmcTypeOK, NEW c \in Client, NEW cancelled, NEW ok, Connect(c, cancelled, ok),
         UNCHANGED <<fanMin, spun, honours, restarts>>
  PROVE  BmcTypeOK'
BY FailsType DEF BmcTypeOK, Connect

LEMMA RunType ==
  ASSUME BmcTypeOK, NEW c, NEW cancelled, NEW out, Run(c, cancelled, out)
  PROVE  sess' \subseteq Client /\ dead' \subseteq sess' /\ faults' \in 0..MaxFaults
BY FailsType DEF BmcTypeOK, Run, sessVars, AfterFailure, Close

\* SetFanMin.
LEMMA SetFanMinType ==
  ASSUME BmcTypeOK, NEW c \in Client, NEW cancelled, NEW f \in Fan, NEW r \in 0..RawMax,
         NEW out, SetFanMin(c, cancelled, f, r, out)
  PROVE  BmcTypeOK'
<1>1. sess' \subseteq Client /\ dead' \subseteq sess' /\ faults' \in 0..MaxFaults
  BY RunType DEF SetFanMin
<1>2. fanMin' \in [Host -> [Fan -> 0..RawMax \cup {None}]]
  BY DEF SetFanMin, BmcTypeOK, Client
<1> QED
  BY <1>1, <1>2 DEF SetFanMin, BmcTypeOK

\* FanSpeeds.
LEMMA FanSpeedsType ==
  ASSUME BmcTypeOK, NEW c, NEW cancelled, NEW s, NEW out, FanSpeeds(c, cancelled, s, out)
  PROVE  BmcTypeOK'
BY RunType DEF FanSpeeds, BmcTypeOK

\* The floor a fan shows is a percentage.
LEMMA ShownIsPercent ==
  ASSUME BmcTypeOK, NEW h \in Host, NEW f \in Fan
  PROVE  ShownFloor(h, f) \in 0..100
<1>1. \A r \in 0..RawMax : RawToPct(r) \div Pct(1) \in 0..100
  BY SMT DEF RawToPct, RawMax, Pct, RawStep
<1>2. fanMin[h][f] \in 0..RawMax \cup {None} /\ spun[h][f] \in 0..RawMax \cup {None}
  BY DEF BmcTypeOK
<1>3. CASE fanMin[h][f] = None \/ spun[h][f] = None
  BY <1>3 DEF ShownFloor
<1>4. CASE fanMin[h][f] \in 0..RawMax /\ spun[h][f] \in 0..RawMax /\
           fanMin[h][f] # None /\ spun[h][f] # None
  BY <1>4, <1>1 DEF ShownFloor
<1> QED
  BY <1>2, <1>3, <1>4

LEMMA ReportsType ==
  ASSUME BmcTypeOK, NEW h \in Host, NEW s \in Reports(h)
  PROVE  s \in [Fan -> 0..100 \cup {None}]
<1>1. \A f \in Fan : Seen(h, f) \subseteq 0..100 \cup {None}
  BY ShownIsPercent, BmcAssumption DEF Seen
<1> QED
  BY <1>1 DEF Reports

LEMMA BmcRestartType ==
  ASSUME BmcTypeOK, NEW h \in Host, BmcRestart(h)
  PROVE  BmcTypeOK'
BY BmcAssumption DEF BmcTypeOK, BmcRestart

LEMMA HangUpType ==
  ASSUME BmcTypeOK, NEW c \in sess, HangUp(c)
  PROVE  BmcTypeOK'
BY BmcAssumption DEF BmcTypeOK, HangUp
-----------------------------------------------------------------------------
(***************************************************************************)
(* The steps of the cycle.                                                 *)
(***************************************************************************)
LEMMA BeginCycleType == TypeOK /\ BeginCycle => TypeOK'
BY SameTypes DEF TypeOK, BeginCycle, Capture, AskTypeOK, CtlTypeOK, LoopTypeOK, LoopSteps

LEMMA ConnectDoneType == TypeOK /\ ConnectDone => TypeOK'
<1> SUFFICES ASSUME TypeOK, ConnectDone PROVE TypeOK'
  OBVIOUS
<1>1. PICK ok \in BOOLEAN : /\ Connect(myBmc, stopping, ok)
                            /\ conn' = IF ok THEN "ok" ELSE "failed"
  BY DEF ConnectDone
<1>2. BmcTypeOK'
  BY <1>1, ConnectType DEF ConnectDone, TypeOK, LoopTypeOK
<1> QED
  BY <1>1, <1>2, SameTypes DEF TypeOK, ConnectDone, LoopTypeOK

LEMMA SenseAndDecideType == TypeOK /\ SenseAndDecide => TypeOK'
<1> SUFFICES ASSUME TypeOK, SenseAndDecide PROVE TypeOK'
  OBVIOUS
<1>1. PICK usable \in SUBSET myCfg.sensors : \E values \in [usable -> Temps] :
        /\ critical' = IsCritical(myCfg, values)
        /\ demand' = [f \in Fan |-> IF f \in myCfg.fans THEN Demands(myCfg, values)[f] ELSE 0]
  BY DEF SenseAndDecide
<1>2. PICK values \in [usable -> Temps] :
        /\ critical' = IsCritical(myCfg, values)
        /\ demand' = [f \in Fan |-> IF f \in myCfg.fans THEN Demands(myCfg, values)[f] ELSE 0]
  BY <1>1
<1>3. ValidConfig(myCfg) /\ myCfg.min \in Int /\ myCfg.max \in Int
      /\ 0 <= myCfg.min /\ myCfg.max <= Full
  BY ConfigFacts, ValidNumbers DEF TypeOK, LoopTypeOK
<1>4. \A s \in DOMAIN values : values[s] \in Int
  BY ControllerAssumption
<1>5. ASSUME NEW f \in myCfg.fans PROVE Demands(myCfg, values)[f] \in Floor
  <2>1. Demands(myCfg, values)[f] \in myCfg.min..myCfg.max
    BY <1>3, <1>4, DemandsWithinLimits
  <2> QED BY <2>1, <1>3, IntervalNumbers DEF Floor
<1>6. demand' \in [Fan -> Floor] /\ critical' \in BOOLEAN
  <2>1. 0 \in Floor
    BY DEF Floor, Full, Pct
  <2>2. IsCritical(myCfg, values) \in BOOLEAN
    BY DEF IsCritical
  <2> QED BY <1>2, <1>5, <2>1, <2>2
<1> QED
  BY <1>6, SameTypes DEF TypeOK, SenseAndDecide, LoopTypeOK, LoopSteps

LEMMA JoinConnectType == TypeOK /\ JoinConnect => TypeOK'
<1> SUFFICES ASSUME TypeOK, JoinConnect PROVE TypeOK'
  OBVIOUS
<1>1. CtlTypeOK'
  BY DEF TypeOK, JoinConnect, CtlTypeOK
<1>2. LoopTypeOK'
  BY ConfigFacts DEF TypeOK, JoinConnect, LoopTypeOK, LoopSteps, EndCycle
<1> QED
  BY <1>1, <1>2, SameTypes DEF TypeOK, JoinConnect

\* The raw value a step decides on is a byte within the limits of its config.
LEMMA ChosenRaw ==
  ASSUME TypeOK, NEW f \in Fan
  PROVE  LET r == FloorToCommand(myCfg, applied[f] # None, applied[f], demand[f], critical)
         IN  WithinLimits(myCfg, r) /\ r \in 0..RawMax
<1>1. ValidConfig(myCfg) /\ critical \in BOOLEAN
  BY ConfigFacts DEF TypeOK, LoopTypeOK
<1>2. demand[f] \in Int /\ (applied[f] # None => applied[f] \in Int)
  BY IntervalNumbers DEF TypeOK, LoopTypeOK, CtlTypeOK, Floor
<1> QED
  BY <1>1, <1>2, CommandWithinLimits DEF WithinLimits

LEMMA ChooseFloorType == TypeOK /\ ChooseFloor => TypeOK'
<1> SUFFICES ASSUME TypeOK, ChooseFloor PROVE TypeOK'
  OBVIOUS
<1>1. todo \in SUBSET Fan
  BY DEF TypeOK, LoopTypeOK
<1>2. LoopTypeOK'
  BY <1>1, ChosenRaw DEF ChooseFloor, TypeOK, LoopTypeOK, LoopSteps
<1> QED
  BY <1>2, SameTypes DEF TypeOK, ChooseFloor

LEMMA SendFloorType == TypeOK /\ SendFloor => TypeOK'
<1> SUFFICES ASSUME TypeOK, SendFloor PROVE TypeOK'
  OBVIOUS
<1>1. PICK f \in todo, out \in {"ok"} \cup {"unsent"} \cup FaultKinds :
        /\ SetFanMin(myBmc, stopping, f, raw, out)
        /\ pc' = OutcomeStep(out)
        /\ IF pc' = "recording" THEN UNCHANGED <<todo, raw>>
           ELSE todo' = todo \ {f} /\ raw' = 0
  BY DEF SendFloor
<1>2. BmcTypeOK'
  BY <1>1, SetFanMinType DEF TypeOK, LoopTypeOK
<1>3. LoopTypeOK'
  BY <1>1 DEF SendFloor, TypeOK, LoopTypeOK, LoopSteps, OutcomeStep, RawMax
<1> QED
  BY <1>2, <1>3, SameTypes DEF TypeOK, SendFloor

LEMMA RecordFloorType == TypeOK /\ RecordFloor => TypeOK'
<1> SUFFICES ASSUME TypeOK, RecordFloor PROVE TypeOK'
  OBVIOUS
<1>1. RawToPct(raw) \in Floor
  BY Distinct DEF TypeOK, LoopTypeOK
<1>2. CtlTypeOK'
  BY <1>1 DEF TypeOK, RecordFloor, CtlTypeOK, LoopTypeOK
<1>3. LoopTypeOK'
  BY DEF TypeOK, RecordFloor, LoopTypeOK, LoopSteps, RawMax
<1> QED
  BY <1>2, <1>3, SameTypes DEF TypeOK, RecordFloor

LEMMA ReadBackType == TypeOK /\ ReadBack => TypeOK'
<1> SUFFICES ASSUME TypeOK, ReadBack PROVE TypeOK'
  OBVIOUS
<1>1. PICK out \in {"ok"} \cup {"unsent"} \cup FaultKinds :
        \E s \in IF out = "ok" THEN Reports(myBmc.ilo) ELSE {speeds} :
          /\ FanSpeeds(myBmc, stopping, s, out)
          /\ IF out = "ok" /\ \E f \in Fan : s[f] # None
             THEN speeds' = s /\ pc' = "rows"
             ELSE EndCycle /\ UNCHANGED speeds
  BY DEF ReadBack
<1>2. PICK s \in IF out = "ok" THEN Reports(myBmc.ilo) ELSE {speeds} :
        /\ FanSpeeds(myBmc, stopping, s, out)
        /\ IF out = "ok" /\ \E f \in Fan : s[f] # None
           THEN speeds' = s /\ pc' = "rows"
           ELSE EndCycle /\ UNCHANGED speeds
  BY <1>1
<1>3. BmcTypeOK'
  BY <1>2, FanSpeedsType DEF TypeOK
<1>4. out = "ok" => s \in [Fan -> 0..100 \cup {None}]
  BY <1>2, ReportsType DEF TypeOK, LoopTypeOK, Client
<1>5. ViewTypeOK'
  BY <1>2, <1>4 DEF TypeOK, ViewTypeOK, ReadBack
<1>6. LoopTypeOK'
  BY <1>2 DEF TypeOK, LoopTypeOK, ReadBack, EndCycle, LoopSteps
<1> QED
  BY <1>3, <1>5, <1>6, SameTypes DEF TypeOK, ReadBack

LEMMA VerifyType == TypeOK /\ (FanRows \/ Judge) => TypeOK'
<1>1. TypeOK => Bad \subseteq Fan /\ RedRows \subseteq Fan
  BY ConfigFacts DEF Bad, Judged, RedRows, TypeOK, LoopTypeOK
<1>2. TypeOK /\ FanRows => TypeOK'
  BY <1>1, SameTypes DEF TypeOK, FanRows, LoopTypeOK, LoopSteps, ViewTypeOK
<1>3. TypeOK /\ Judge => TypeOK'
  BY <1>1, SameTypes DEF TypeOK, Judge, EndCycle, LoopTypeOK, LoopSteps, ViewTypeOK, Verdict,
                         NoSpeeds
<1> QED
  BY <1>2, <1>3

LEMMA CycleType == TypeOK /\ Cycle => TypeOK'
BY BeginCycleType, ConnectDoneType, SenseAndDecideType, JoinConnectType, ChooseFloorType,
   SendFloorType, RecordFloorType, ReadBackType, VerifyType DEF Cycle
-----------------------------------------------------------------------------
(***************************************************************************)
(* The steps of a reload, of release and of the environment.               *)
(***************************************************************************)
LEMMA NoReloadType == NoReload \in Reload
BY ControllerAssumption DEF NoReload, Reload, Client

\* The fields of one reloader's record.
LEMMA RelFields ==
  ASSUME RelTypeOK, NEW p \in {"watch", "hup"}
  PROVE  /\ rel[p] \in Reload
         /\ rel[p].pc \in {"off", "loaded", "winding", "deleting"}
         /\ rel[p].next \in Configs /\ rel[p].bmc \in Client /\ rel[p].todo \subseteq Fan
BY DEF RelTypeOK, Reload

LEMMA LoadFileType ==
  ASSUME TypeOK, NEW p \in {"watch", "hup"}, LoadFile(p)
  PROVE  TypeOK'
<1>1. file \in Configs
  BY DEF TypeOK, FileTypeOK, LoadFile
<1>2. RelTypeOK'
  BY <1>1 DEF TypeOK, LoadFile, RelTypeOK, Reload
<1>3. LoopTypeOK'
  BY DEF TypeOK, LoadFile, LoopTypeOK, LoopSteps
<1> QED
  BY <1>2, <1>3, SameTypes DEF TypeOK, LoadFile

LEMMA ReloadStepType ==
  ASSUME TypeOK, NEW p \in {"watch", "hup"}, ReloadStep(p)
  PROVE  TypeOK'
<1>1. rel[p].next \in Configs /\ rel[p].bmc \in Client /\ rel[p].todo \subseteq Fan
  BY RelFields DEF TypeOK
<1>2. CASE SameChecksum(p) \/ ReloadDone(p)
  <2>1. RelTypeOK'
    BY <1>2, NoReloadType DEF TypeOK, SameChecksum, ReloadDone, RelTypeOK
  <2>2. LoopTypeOK'
    BY <1>2 DEF TypeOK, SameChecksum, ReloadDone, BackFrom, LoopTypeOK, LoopSteps
  <2> QED BY <1>2, <2>1, <2>2, SameTypes DEF TypeOK, SameChecksum, ReloadDone
<1>3. CASE SwapConfig(p)
  <2>1. bmc' \in Client
    BY <1>1, <1>3, ConfigFacts DEF TypeOK, CtlTypeOK, SwapConfig, ClientFor, Client
  <2>2. Dropped(rel[p].next) \subseteq Fan
    BY DEF Dropped, Remembered
  <2>3. RelTypeOK'
    BY <1>3, <2>1, <2>2 DEF TypeOK, SwapConfig, RelTypeOK, Reload
  <2>4. CtlTypeOK' /\ BmcTypeOK'
    BY <1>1, <1>3, <2>1 DEF TypeOK, SwapConfig, CtlTypeOK, BmcTypeOK, Close, sessVars
  <2> QED BY <1>3, <2>3, <2>4, SameTypes DEF TypeOK, SwapConfig
<1>4. CASE WindDown(p)
  <2>1. PICK f \in rel[p].todo, out \in {"ok"} \cup {"unsent"} \cup FaultKinds :
          /\ SetFanMin(rel[p].bmc, FALSE, f, PctToRaw(rel[p].next.min), out)
          /\ rel' = IF AfterWindDown(out) = "deleting" THEN [rel EXCEPT ![p].pc = "deleting"]
                    ELSE [rel EXCEPT ![p].todo = @ \ {f}]
    BY <1>4 DEF WindDown
  <2>2. BmcTypeOK'
    BY <1>1, <2>1, ConfigFacts, SetFanMinType DEF TypeOK
  <2>3. RelTypeOK'
    BY <2>1 DEF TypeOK, RelTypeOK, Reload
  <2> QED BY <1>4, <2>2, <2>3, SameTypes DEF TypeOK, WindDown
<1>5. CASE ForgetFan(p)
  <2>1. RelTypeOK'
    BY <1>5 DEF TypeOK, ForgetFan, RelTypeOK, Reload
  <2>2. CtlTypeOK'
    BY <1>5 DEF TypeOK, ForgetFan, CtlTypeOK, Forget
  <2> QED BY <1>5, <2>1, <2>2, SameTypes DEF TypeOK, ForgetFan
<1> QED
  BY <1>2, <1>3, <1>4, <1>5 DEF ReloadStep

LEMMA ReleaseType == TypeOK /\ Release => TypeOK'
<1> SUFFICES ASSUME TypeOK, Release PROVE TypeOK'
  OBVIOUS
<1>1. CASE ReleaseNothing \/ EndRelease
  BY <1>1, SameTypes DEF TypeOK, ReleaseNothing, EndRelease, Close, BmcTypeOK, LoopTypeOK,
                         LoopSteps
<1>2. CASE BeginRelease
  BY <1>2, SameTypes DEF TypeOK, BeginRelease, CtlTypeOK, LoopTypeOK, LoopSteps, ToRelease,
                         Remembered
<1>3. CASE ReleaseFan
  <2>1. PICK f \in todo, out \in {"ok"} \cup {"unsent"} \cup FaultKinds :
          /\ SetFanMin(myBmc, FALSE, f, PctToRaw(myCfg.min), out)
          /\ todo' = ReleasedTodo(f, out)
    BY <1>3 DEF ReleaseFan
  <2>2. BmcTypeOK'
    BY <2>1, ConfigFacts, SetFanMinType DEF TypeOK, LoopTypeOK
  <2>3. LoopTypeOK'
    BY <1>3, <2>1 DEF TypeOK, ReleaseFan, ReleasedTodo, LoopTypeOK
  <2> QED BY <1>3, <2>2, <2>3, SameTypes DEF TypeOK, ReleaseFan
<1> QED
  BY <1>1, <1>2, <1>3 DEF Release

\* Where a killed loop is.
LEMMA CrashPc == Crash => pc' \in {"stopped", "down"}
BY Zenon DEF Crash

LEMMA CrashType == TypeOK /\ Crash => TypeOK'
<1> SUFFICES ASSUME TypeOK, Crash PROVE TypeOK'
  OBVIOUS
<1>1. BmcTypeOK' /\ FileTypeOK'
  BY ControllerAssumption DEF Crash, TypeOK, BmcTypeOK, FileTypeOK
<1>2. CtlTypeOK' /\ AskTypeOK'
  <2>1. CtlTypeOK'
    BY DEF Crash, TypeOK, CtlTypeOK, NoFloors
  <2>2. AskTypeOK'
    BY Zenon DEF Crash, TypeOK, AskTypeOK
  <2> QED BY <2>1, <2>2
<1>3. LoopTypeOK'
  <2>1. pc' \in LoopSteps
    BY CrashPc DEF LoopSteps
  <2>2. demand' \in [Fan -> Floor] /\ raw' \in 0..RawMax
    BY DEF Crash, Floor, Full, Pct, RawMax
  <2>3. myCfg' \in Configs /\ myBmc' \in Client
    BY DEF Crash, TypeOK, LoopTypeOK
  <2>4. conn' = "pending" /\ critical' = FALSE /\ todo' = {}
    BY DEF Crash
  <2> QED BY <2>1, <2>2, <2>3, <2>4 DEF LoopTypeOK
<1>4. ViewTypeOK' /\ RelTypeOK'
  BY NoReloadType DEF Crash, ViewTypeOK, RelTypeOK, NoSpeeds
<1> QED
  BY <1>1, <1>2, <1>3, <1>4 DEF TypeOK

LEMMA StartAgainType == TypeOK /\ StartAgain => TypeOK'
<1> SUFFICES ASSUME TypeOK, StartAgain PROVE TypeOK'
  OBVIOUS
<1>1. cfg' \in Configs /\ bmc' \in Client
  BY ConfigFacts DEF StartAgain, TypeOK, FileTypeOK, CtlTypeOK, Client
<1>2. CtlTypeOK' /\ LoopTypeOK'
  BY <1>1 DEF StartAgain, TypeOK, CtlTypeOK, LoopTypeOK, LoopSteps
<1> QED
  BY <1>2, SameTypes DEF StartAgain, TypeOK

LEMMA EnvironmentType == TypeOK /\ Environment => TypeOK'
<1> SUFFICES ASSUME TypeOK, Environment PROVE TypeOK'
  OBVIOUS
<1>1. CASE Interval
  BY <1>1, SameTypes DEF TypeOK, Interval, BmcTypeOK, AskTypeOK, sessVars
<1>2. CASE EditFile
  BY <1>2, SameTypes, ControllerAssumption DEF TypeOK, EditFile, FileTypeOK
<1>3. CASE Trigger \/ ToggleDryRun \/ Stop
  BY <1>3, SameTypes DEF TypeOK, Trigger, ToggleDryRun, Stop, AskTypeOK
<1>4. CASE LoseBmc
  BY <1>4, SameTypes, BmcRestartType, HangUpType DEF TypeOK, LoseBmc
<1>5. CASE Crash
  BY <1>5, CrashType
<1>6. CASE StartAgain
  BY <1>6, StartAgainType
<1> QED
  BY <1>1, <1>2, <1>3, <1>4, <1>5, <1>6 DEF Environment
-----------------------------------------------------------------------------
(***************************************************************************)
(* Type correctness: whatever reloads, faults, restarts and stops come,    *)
(* every remembered floor is a percentage, every command a byte, and every *)
(* demand the decisions make is in range.                                  *)
(***************************************************************************)
THEOREM TypeCorrect == Spec => []TypeOK
<1>1. Init => TypeOK
  <2> SUFFICES ASSUME Init PROVE TypeOK
    OBVIOUS
  <2>1. BmcTypeOK
    BY BmcAssumption DEF Init, BmcInit, BmcTypeOK
  <2>2. FileTypeOK /\ AskTypeOK
    <3>1. FileTypeOK
      BY ControllerAssumption DEF Init, FileTypeOK
    <3>2. AskTypeOK
      BY Zenon DEF Init, AskTypeOK
    <3> QED BY <3>1, <3>2
  <2>3. CtlTypeOK /\ bmc \in Client
    BY ControllerAssumption DEF Init, CtlTypeOK, Client, NoFloors
  <2>4. 0 \in Floor /\ 0 \in 0..RawMax
    BY DEF Floor, Full, Pct, RawMax
  <2>5. LoopTypeOK
    BY <2>3, <2>4 DEF Init, LoopTypeOK, LoopSteps, CtlTypeOK
  <2>6. ViewTypeOK
    BY DEF Init, ViewTypeOK, NoSpeeds
  <2>7. RelTypeOK
    BY NoReloadType DEF Init, RelTypeOK
  <2> QED BY <2>1, <2>2, <2>3, <2>5, <2>6, <2>7 DEF TypeOK
<1>2. TypeOK /\ [Next]_vars => TypeOK'
  <2> SUFFICES ASSUME TypeOK, [Next]_vars PROVE TypeOK'
    OBVIOUS
  <2>1. CASE \E p \in Reloaders : LoadFile(p) \/ ReloadStep(p)
    BY <2>1, LoadFileType, ReloadStepType, ControllerAssumption
  <2>2. CASE UNCHANGED vars
    BY <2>2, SameTypes DEF vars, TypeOK
  <2> QED
    BY <2>1, <2>2, CycleType, ReleaseType, EnvironmentType DEF Next
<1> QED
  BY <1>1, <1>2, PTL DEF Spec
-----------------------------------------------------------------------------
(***************************************************************************)
(* What holds at whatever point of a cycle a reload, a fault, a restart or *)
(* a crash comes: the floors stay within limits, a settled floor is        *)
(* remembered, the rows and the verdict agree, a dry run is dry, and       *)
(* floors fall slowly.                                                     *)
(***************************************************************************)

\* A step that writes no floor keeps FloorsWithinOwnLimits.
LEMMA LimitsKept ==
  FloorsWithinOwnLimits /\ UNCHANGED fanMin => FloorsWithinOwnLimits'
BY DEF FloorsWithinOwnLimits

\* So does a write through a client of the BMC the limits are those of.
LEMMA LimitsWritten ==
  ASSUME TypeOK, FloorsWithinOwnLimits, NEW c \in Client, NEW cancelled, NEW f \in Fan,
         NEW r \in 0..RawMax, NEW out, SetFanMin(c, cancelled, f, r, out),
         NEW d \in Configs, d.ilo = c.ilo, WithinLimits(d, r)
  PROVE  FloorsWithinOwnLimits'
<1> SUFFICES ASSUME NEW h \in Host, NEW g \in Fan, fanMin'[h][g] # None
             PROVE  \E e \in Configs : e.ilo = h /\ WithinLimits(e, fanMin'[h][g])
  BY DEF FloorsWithinOwnLimits
<1>1. c.ilo \in Host /\ fanMin \in [Host -> [Fan -> 0..RawMax \cup {None}]]
  BY DEF TypeOK, BmcTypeOK, Client
<1>2. CASE fanMin' = [fanMin EXCEPT ![c.ilo][f] = r] /\ h = c.ilo /\ g = f
  BY <1>1, <1>2
<1>3. CASE fanMin'[h][g] = fanMin[h][g]
  BY <1>3 DEF FloorsWithinOwnLimits
<1> QED
  BY <1>1, <1>2, <1>3 DEF SetFanMin

(***************************************************************************)
(* Why they hold: a configuration and a client that are used together name *)
(* the same BMC, because they are read or replaced under one lock; and the *)
(* raw value of a write still to come is within the limits of the config   *)
(* it was decided with.                                                    *)
(***************************************************************************)
Paired ==
  /\ cfg.ilo = bmc.ilo
  /\ myCfg.ilo = myBmc.ilo
  /\ \A p \in {"watch", "hup"} :
       rel[p].pc \in {"winding", "deleting"} => rel[p].next.ilo = rel[p].bmc.ilo
  /\ pc = "sending" => WithinLimits(myCfg, raw)

LimitsInv == TypeOK /\ Paired /\ FloorsWithinOwnLimits

LEMMA LimitsCycle ==
  ASSUME LimitsInv, Cycle PROVE Paired' /\ FloorsWithinOwnLimits'
<1> USE DEF LimitsInv
<1>1. CASE BeginCycle
  BY <1>1, LimitsKept DEF BeginCycle, Capture, Paired, bmcVars, ctlVars
<1>2. CASE ConnectDone
  BY <1>2, LimitsKept DEF ConnectDone, Paired, ctlVars
<1>3. CASE SenseAndDecide
  BY <1>3, LimitsKept DEF SenseAndDecide, Paired, bmcVars, ctlVars
<1>4. CASE JoinConnect
  BY <1>4, LimitsKept DEF JoinConnect, Paired, EndCycle, bmcVars
<1>5. CASE ChooseFloor
  <2>1. FloorsWithinOwnLimits'
    BY <1>5, LimitsKept DEF ChooseFloor, bmcVars
  <2>2. todo \subseteq Fan
    BY DEF TypeOK, LoopTypeOK
  <2>3. UNCHANGED <<cfg, bmc, myCfg, myBmc, rel>>
    BY <1>5 DEF ChooseFloor, ctlVars
  <2>4. pc' = "sending" => WithinLimits(myCfg, raw')
    BY <1>5, <2>2, ChosenRaw DEF ChooseFloor
  <2> QED BY <2>1, <2>3, <2>4 DEF Paired, WithinLimits
<1>6. CASE SendFloor
  <2>1. PICK f \in todo, out \in {"ok"} \cup {"unsent"} \cup FaultKinds :
          /\ SetFanMin(myBmc, stopping, f, raw, out)
          /\ pc' = OutcomeStep(out)
    BY <1>6 DEF SendFloor
  <2>2. FloorsWithinOwnLimits'
    BY <1>6, <2>1, LimitsWritten DEF SendFloor, TypeOK, LoopTypeOK, Paired
  <2>3. pc' # "sending" /\ UNCHANGED <<cfg, bmc, myCfg, myBmc, rel>>
    BY <1>6, <2>1 DEF SendFloor, OutcomeStep, ctlVars
  <2> QED BY <2>2, <2>3 DEF Paired
<1>7. CASE RecordFloor
  BY <1>7, LimitsKept DEF RecordFloor, Paired, bmcVars
<1>8. CASE ReadBack
  <2>1. UNCHANGED fanMin /\ pc' # "sending"
    BY <1>8 DEF ReadBack, FanSpeeds, EndCycle
  <2> QED BY <1>8, <2>1, LimitsKept DEF ReadBack, Paired, ctlVars
<1>9. CASE FanRows \/ Judge
  BY <1>9, LimitsKept DEF FanRows, Judge, EndCycle, Paired, bmcVars, ctlVars
<1> QED
  BY <1>1, <1>2, <1>3, <1>4, <1>5, <1>6, <1>7, <1>8, <1>9 DEF Cycle

LEMMA LimitsReload ==
  ASSUME LimitsInv, NEW p \in {"watch", "hup"}, LoadFile(p) \/ ReloadStep(p)
  PROVE  Paired' /\ FloorsWithinOwnLimits'
<1> USE DEF LimitsInv
<1>1. rel \in [{"watch", "hup"} -> Reload] /\ rel[p].next \in Configs
      /\ rel[p].bmc \in Client /\ rel[p].todo \subseteq Fan
  BY RelFields DEF TypeOK, RelTypeOK
<1>2. CASE LoadFile(p) \/ SameChecksum(p) \/ ReloadDone(p)
  <2>1. UNCHANGED <<fanMin, cfg, bmc, myCfg, myBmc, raw>>
        /\ (pc' = "sending" => pc = "sending")
    BY <1>2 DEF LoadFile, SameChecksum, ReloadDone, BackFrom, bmcVars, ctlVars
  <2>2. \A q \in {"watch", "hup"} :
          rel'[q].pc \in {"winding", "deleting"} => rel'[q] = rel[q]
    BY <1>1, <1>2 DEF LoadFile, SameChecksum, ReloadDone, NoReload, Reload
  <2> QED BY <2>1, <2>2, LimitsKept DEF Paired, WithinLimits
<1>3. CASE SwapConfig(p)
  <2>1. cfg'.ilo = bmc'.ilo
    BY <1>1, <1>3 DEF SwapConfig, ClientFor, Paired
  <2>2. UNCHANGED <<fanMin, myCfg, myBmc, raw, pc>> /\ cfg' = rel[p].next
    BY <1>3 DEF SwapConfig, loopVars
  <2>3. rel'[p].next = cfg' /\ rel'[p].bmc = bmc'
        /\ \A q \in {"watch", "hup"} : q # p => rel'[q] = rel[q]
    BY <1>1, <1>3, <2>2 DEF SwapConfig, Reload
  <2> QED BY <2>1, <2>2, <2>3, LimitsKept DEF Paired, WithinLimits
<1>4. CASE WindDown(p)
  <2>1. PICK f \in rel[p].todo, out \in {"ok"} \cup {"unsent"} \cup FaultKinds :
          /\ SetFanMin(rel[p].bmc, FALSE, f, PctToRaw(rel[p].next.min), out)
          /\ rel' = IF AfterWindDown(out) = "deleting" THEN [rel EXCEPT ![p].pc = "deleting"]
                    ELSE [rel EXCEPT ![p].todo = @ \ {f}]
    BY <1>4 DEF WindDown
  <2>2. rel[p].pc = "winding" /\ rel[p].next.ilo = rel[p].bmc.ilo
    BY <1>4 DEF WindDown, AtReload, Paired
  <2>3. /\ PctToRaw(rel[p].next.min) \in 0..RawMax
        /\ WithinLimits(rel[p].next, PctToRaw(rel[p].next.min))
    <3>1. /\ PctToRaw(rel[p].next.min) \in 0..RawMax
          /\ PctToRaw(rel[p].next.max) \in 0..RawMax
          /\ PctToRaw(rel[p].next.min) <= PctToRaw(rel[p].next.max)
      BY <1>1, ConfigFacts, PctToRawIsByte
    <3> QED BY <3>1 DEF WithinLimits, RawMax
  <2>4. FloorsWithinOwnLimits'
    BY <1>1, <2>1, <2>2, <2>3, LimitsWritten
  <2>5. UNCHANGED <<cfg, bmc, myCfg, myBmc, raw, pc>>
    BY <1>4 DEF WindDown, ctlVars, loopVars
  <2>6. \A q \in {"watch", "hup"} : /\ rel'[q].next = rel[q].next /\ rel'[q].bmc = rel[q].bmc
                                    /\ q # p => rel'[q] = rel[q]
    BY <1>1, <2>1 DEF Reload
  <2> QED BY <2>2, <2>4, <2>5, <2>6 DEF Paired, WithinLimits
<1>5. CASE ForgetFan(p)
  <2>1. UNCHANGED <<fanMin, cfg, bmc, myCfg, myBmc, raw, pc>>
    BY <1>5 DEF ForgetFan, bmcVars, loopVars
  <2>2. rel[p].next.ilo = rel[p].bmc.ilo
    BY <1>5 DEF ForgetFan, AtReload, Paired
  <2>3. \A q \in {"watch", "hup"} : /\ rel'[q].next = rel[q].next /\ rel'[q].bmc = rel[q].bmc
                                    /\ q # p => rel'[q] = rel[q]
    BY <1>1, <1>5 DEF ForgetFan, Reload
  <2> QED BY <2>1, <2>2, <2>3, LimitsKept DEF Paired, WithinLimits
<1> QED
  BY <1>2, <1>3, <1>4, <1>5 DEF ReloadStep

LEMMA LimitsRelease ==
  ASSUME LimitsInv, Release PROVE Paired' /\ FloorsWithinOwnLimits'
<1> USE DEF LimitsInv
<1>1. CASE ReleaseNothing \/ EndRelease
  BY <1>1, LimitsKept DEF ReleaseNothing, EndRelease, Paired, ctlVars
<1>2. CASE BeginRelease
  BY <1>2, LimitsKept DEF BeginRelease, Paired, bmcVars, ctlVars
<1>3. CASE ReleaseFan
  <2>1. PICK f \in todo, out \in {"ok"} \cup {"unsent"} \cup FaultKinds :
          SetFanMin(myBmc, FALSE, f, PctToRaw(myCfg.min), out)
    BY <1>3 DEF ReleaseFan
  <2>2. myCfg \in Configs /\ myBmc \in Client /\ todo \subseteq Fan
    BY DEF TypeOK, LoopTypeOK
  <2>3. PctToRaw(myCfg.min) \in 0..RawMax /\ WithinLimits(myCfg, PctToRaw(myCfg.min))
    <3>1. /\ PctToRaw(myCfg.min) \in 0..RawMax /\ PctToRaw(myCfg.max) \in 0..RawMax
          /\ PctToRaw(myCfg.min) <= PctToRaw(myCfg.max)
      BY <2>2, ConfigFacts, PctToRawIsByte
    <3> QED BY <3>1 DEF WithinLimits, RawMax
  <2>4. FloorsWithinOwnLimits'
    BY <2>1, <2>2, <2>3, LimitsWritten DEF Paired
  <2> QED BY <1>3, <2>4 DEF ReleaseFan, Paired, ctlVars
<1> QED
  BY <1>1, <1>2, <1>3 DEF Release

LEMMA LimitsEnvironment ==
  ASSUME LimitsInv, Environment PROVE Paired' /\ FloorsWithinOwnLimits'
<1> USE DEF LimitsInv
<1>1. CASE Interval \/ EditFile \/ Trigger \/ ToggleDryRun \/ Stop
  BY <1>1, LimitsKept DEF Interval, EditFile, Trigger, ToggleDryRun, Stop, Paired,
                          WithinLimits, bmcVars, ctlVars, loopVars
<1>2. CASE LoseBmc
  <2>1. FloorsWithinOwnLimits'
    BY <1>2 DEF LoseBmc, HangUp, BmcRestart, FloorsWithinOwnLimits, TypeOK, BmcTypeOK
  <2> QED BY <1>2, <2>1 DEF LoseBmc, Paired, WithinLimits, ctlVars, loopVars
<1>3. CASE Crash \/ StartAgain
  <2>1. FloorsWithinOwnLimits'
    BY <1>3, LimitsKept DEF Crash, StartAgain, bmcVars
  <2>2. \A p \in {"watch", "hup"} : NoReload.pc = "off"
    BY DEF NoReload
  <2> QED BY <1>3, <2>1, <2>2 DEF Crash, StartAgain, Paired
<1> QED
  BY <1>1, <1>2, <1>3 DEF Environment

\* The steps of Next, and the one that changes nothing.
LEMMA LimitsStep == LimitsInv /\ [Next]_vars => Paired' /\ FloorsWithinOwnLimits'
<1> SUFFICES ASSUME LimitsInv, [Next]_vars PROVE Paired' /\ FloorsWithinOwnLimits'
  OBVIOUS
<1>1. CASE \E p \in Reloaders : LoadFile(p) \/ ReloadStep(p)
  BY <1>1, LimitsReload, ControllerAssumption
<1>2. CASE UNCHANGED vars
  BY <1>2, LimitsKept DEF vars, bmcVars, ctlVars, loopVars, LimitsInv, Paired, WithinLimits
<1> QED
  BY <1>1, <1>2, LimitsCycle, LimitsRelease, LimitsEnvironment DEF Next

(***************************************************************************)
(* The floors a BMC holds are those of a configuration that names it, and  *)
(* within its limits: whenever a reload arrives, of however many BMCs, no  *)
(* floor is sent through the session of another config's BMC, and none is  *)
(* below the baseline or above the maximum it was decided under.           *)
(***************************************************************************)
THEOREM OwnLimits == Spec => []FloorsWithinOwnLimits
<1>1. Init => Paired /\ FloorsWithinOwnLimits
  BY DEF Init, BmcInit, Paired, FloorsWithinOwnLimits, NoReload
<1>2. TypeOK /\ Paired /\ FloorsWithinOwnLimits /\ [Next]_vars
        => Paired' /\ FloorsWithinOwnLimits'
  BY LimitsStep DEF LimitsInv
<1> QED
  BY <1>1, <1>2, TypeCorrect, PTL DEF Spec
-----------------------------------------------------------------------------
\* A step that changes neither map keeps SettledFansAreRemembered.
LEMMA SettledKept ==
  SettledFansAreRemembered /\ UNCHANGED <<applied, settled>> => SettledFansAreRemembered'
BY DEF SettledFansAreRemembered, Remembered

(***************************************************************************)
(* A settled floor never outlives the applied one: a reload may delete     *)
(* both between any two steps of the cycle that copies the one to the      *)
(* other, and a fan is never judged by a floor that was forgotten.         *)
(***************************************************************************)
THEOREM SettledRemembered == Spec => []SettledFansAreRemembered
<1>1. Init => SettledFansAreRemembered
  BY DEF Init, NoFloors, SettledFansAreRemembered, Remembered
<1>2. TypeOK /\ SettledFansAreRemembered /\ [Next]_vars => SettledFansAreRemembered'
  <2> SUFFICES ASSUME TypeOK, SettledFansAreRemembered, [Next]_vars
               PROVE  SettledFansAreRemembered'
    OBVIOUS
  <2>1. CASE JoinConnect
    BY <2>1 DEF JoinConnect, SettledFansAreRemembered, Remembered
  <2>2. CASE RecordFloor
    <3>1. RawToPct(raw) # None
      BY Distinct DEF TypeOK, LoopTypeOK
    <3> QED
      BY <2>2, <3>1 DEF RecordFloor, SettledFansAreRemembered, Remembered, TypeOK, CtlTypeOK
  <2>3. CASE \E p \in Reloaders : ForgetFan(p)
    BY <2>3 DEF ForgetFan, Forget, SettledFansAreRemembered, Remembered, TypeOK, CtlTypeOK
  <2>4. CASE \/ Cycle /\ ~JoinConnect /\ ~RecordFloor
             \/ Release \/ (Environment /\ ~Crash) \/ UNCHANGED vars
    <3>1. UNCHANGED <<applied, settled>>
      BY <2>4 DEF Cycle, BeginCycle, ConnectDone, SenseAndDecide, ChooseFloor, SendFloor,
                  ReadBack, FanRows, Judge, Release, ReleaseNothing, BeginRelease,
                  ReleaseFan, EndRelease, Environment, Interval, EditFile, Trigger,
                  ToggleDryRun, Stop, LoseBmc, StartAgain, ctlVars, vars
    <3> QED BY <3>1, SettledKept
  <2>5. CASE \E p \in Reloaders : LoadFile(p) \/ (ReloadStep(p) /\ ~ForgetFan(p))
    <3>1. UNCHANGED <<applied, settled>>
      BY <2>5 DEF LoadFile, ReloadStep, SameChecksum, SwapConfig, WindDown, ReloadDone,
                  ctlVars
    <3> QED BY <3>1, SettledKept
  <2>6. CASE Crash
    BY <2>6 DEF Crash, NoFloors, SettledFansAreRemembered, Remembered
  <2> QED
    BY <2>1, <2>2, <2>3, <2>4, <2>5, <2>6 DEF Next
<1> QED
  BY <1>1, <1>2, TypeCorrect, PTL DEF Spec
-----------------------------------------------------------------------------
\* What rows and verdict are made of.
LEMMA SameVerdict ==
  UNCHANGED <<myCfg, speeds, applied, settled>> => Bad' = Bad
BY DEF Bad, Judged, Verifiable

LEMMA RowsKept ==
  /\ RowsAndVerdictAgree
  /\ UNCHANGED <<myCfg, speeds, applied, settled, rows>>
  /\ pc' = "judging" => pc = "judging"
  => RowsAndVerdictAgree'
BY SameVerdict DEF RowsAndVerdictAgree

\* A fan that is forgotten drops out of the verdict; no other fan's floor moves.
LEMMA ForgottenIsNotJudged ==
  ASSUME NEW p \in Reloaders, TypeOK, ForgetFan(p), RowsAndVerdictAgree
  PROVE  RowsAndVerdictAgree'
<1> SUFFICES ASSUME pc = "judging"
             PROVE  Bad' \subseteq rows /\ \A g \in rows \ Bad' : applied'[g] = None
  BY DEF ForgetFan, RowsAndVerdictAgree, loopVars, viewVars
<1>1. PICK f \in rel[p].todo : /\ applied' = [applied EXCEPT ![f] = None]
                               /\ settled' = [settled EXCEPT ![f] = None]
  BY DEF ForgetFan, Forget
<1>2. \A g \in Fan \ {f} : Verifiable(g)' = Verifiable(g)
  BY <1>1 DEF Verifiable, TypeOK, CtlTypeOK
<1>3. Verifiable(f)' = None \/ f \notin Fan
  BY <1>1 DEF Verifiable, TypeOK, CtlTypeOK
<1>4. myCfg' = myCfg /\ speeds' = speeds
  BY DEF ForgetFan, loopVars, viewVars
<1>5. myCfg.fans \subseteq Fan
  BY ConfigFacts DEF TypeOK, LoopTypeOK
<1>6. Bad' = Bad \ {f}
  BY <1>2, <1>3, <1>4, <1>5 DEF Bad, Judged
<1>7. rows \subseteq Fan
  BY DEF TypeOK, ViewTypeOK
<1>8. \A g \in Fan : applied[g] = None => applied'[g] = None
  BY <1>1 DEF TypeOK, CtlTypeOK
<1>9. f \in Fan => applied'[f] = None
  BY <1>1 DEF TypeOK, CtlTypeOK
<1> QED
  BY <1>6, <1>7, <1>8, <1>9 DEF RowsAndVerdictAgree

(***************************************************************************)
(* The rows of a read-back and its verdict, which are judged under two     *)
(* locks, differ only in fans that a reload forgot between the two.        *)
(***************************************************************************)
THEOREM RowsAgree == Spec => []RowsAndVerdictAgree
<1>1. Init => RowsAndVerdictAgree
  BY DEF Init, RowsAndVerdictAgree
<1>2. TypeOK /\ RowsAndVerdictAgree /\ [Next]_vars => RowsAndVerdictAgree'
  <2> SUFFICES ASSUME TypeOK, RowsAndVerdictAgree, [Next]_vars
               PROVE  RowsAndVerdictAgree'
    OBVIOUS
  <2>1. CASE FanRows
    <3>1. UNCHANGED <<myCfg, speeds, applied, settled>>
      BY <2>1 DEF FanRows, ctlVars
    <3>2. RedRows = Bad
      BY DEF RedRows, RowFloor, Bad, Judged
    <3> QED BY <2>1, <3>1, <3>2, SameVerdict DEF FanRows, RowsAndVerdictAgree
  <2>2. CASE \E p \in Reloaders : ForgetFan(p)
    BY <2>2, ForgottenIsNotJudged
  <2>3. CASE Cycle /\ ~FanRows
    BY <2>3 DEF Cycle, BeginCycle, ConnectDone, SenseAndDecide, JoinConnect, ChooseFloor,
                SendFloor, OutcomeStep, RecordFloor, ReadBack, Judge, EndCycle,
                RowsAndVerdictAgree
  <2>4. CASE Release \/ Crash \/ StartAgain
    BY <2>4 DEF Release, ReleaseNothing, BeginRelease, ReleaseFan, EndRelease, Crash,
                StartAgain, RowsAndVerdictAgree
  <2>5. CASE \/ Interval \/ EditFile \/ Trigger \/ ToggleDryRun \/ Stop \/ LoseBmc
             \/ UNCHANGED vars
    BY <2>5, RowsKept DEF Interval, EditFile, Trigger, ToggleDryRun, Stop, LoseBmc, ctlVars,
                          loopVars, viewVars, vars
  <2>6. CASE \E p \in Reloaders : LoadFile(p) \/ (ReloadStep(p) /\ ~ForgetFan(p))
    <3>1. UNCHANGED <<myCfg, speeds, applied, settled, rows>>
      BY <2>6 DEF LoadFile, ReloadStep, SameChecksum, SwapConfig, WindDown, ReloadDone,
                  ctlVars, loopVars, viewVars
    <3>2. pc' = "judging" => pc = "judging"
      BY <2>6 DEF LoadFile, ReloadStep, SameChecksum, SwapConfig, WindDown, ReloadDone,
                  BackFrom, loopVars
    <3> QED BY <3>1, <3>2, RowsKept
  <2> QED
    BY <2>1, <2>2, <2>3, <2>4, <2>5, <2>6 DEF Next, Environment
<1> QED
  BY <1>1, <1>2, TypeCorrect, PTL DEF Spec
-----------------------------------------------------------------------------
(***************************************************************************)
(* While the dry run stays on, no step comes near a write: the loop does   *)
(* not choose one, a reload finds nothing to wind down, and release skips. *)
(***************************************************************************)
Untouched ==
  /\ \A h \in Host, f \in Fan : fanMin[h][f] = None
  /\ pc \notin {"sending", "recording", "releasing"}
  /\ \A p \in {"watch", "hup"} : rel[p].todo = {}

LEMMA UntouchedReload ==
  ASSUME TypeOK, Untouched, dryRun, NEW p \in {"watch", "hup"}, LoadFile(p) \/ ReloadStep(p)
  PROVE  Untouched'
<1>1. rel \in [{"watch", "hup"} -> Reload] /\ rel[p].todo = {}
  BY DEF TypeOK, RelTypeOK, Untouched
<1>2. ~WindDown(p) /\ ~ForgetFan(p)
  BY <1>1 DEF WindDown, ForgetFan
<1>3. CASE LoadFile(p) \/ SameChecksum(p) \/ ReloadDone(p)
  BY <1>1, <1>3 DEF LoadFile, SameChecksum, ReloadDone, BackFrom, NoReload, Untouched, bmcVars,
                    Reload
<1>4. CASE SwapConfig(p)
  <2>1. Dropped(rel[p].next) = {}
    BY DEF Dropped
  <2> QED BY <1>1, <1>4, <2>1 DEF SwapConfig, Untouched, loopVars, Reload
<1> QED
  BY <1>2, <1>3, <1>4 DEF ReloadStep

LEMMA UntouchedStep ==
  TypeOK /\ Untouched /\ dryRun /\ [Next]_vars => Untouched'
<1> SUFFICES ASSUME TypeOK, Untouched, dryRun, [Next]_vars PROVE Untouched'
  OBVIOUS
<1>1. CASE Cycle
  <2>1. CASE BeginCycle \/ ConnectDone \/ SenseAndDecide \/ JoinConnect \/ FanRows \/ Judge
    BY <2>1 DEF BeginCycle, ConnectDone, SenseAndDecide, JoinConnect, FanRows, Judge, EndCycle,
                Untouched, bmcVars
  <2>2. CASE ChooseFloor
    BY <2>2 DEF ChooseFloor, Suppressed, Untouched, bmcVars
  <2>3. CASE ReadBack
    BY <2>3 DEF ReadBack, FanSpeeds, EndCycle, Untouched
  <2>4. ~SendFloor /\ ~RecordFloor
    BY DEF SendFloor, RecordFloor, Untouched
  <2> QED BY <1>1, <2>1, <2>2, <2>3, <2>4 DEF Cycle
<1>2. CASE \E p \in Reloaders : LoadFile(p) \/ ReloadStep(p)
  BY <1>2, UntouchedReload, ControllerAssumption
<1>3. CASE Release
  BY <1>3 DEF Release, ReleaseNothing, BeginRelease, ReleaseFan, EndRelease, Untouched
<1>4. CASE Environment
  <2>1. CASE Interval \/ EditFile \/ Trigger \/ ToggleDryRun \/ Stop
    BY <2>1 DEF Interval, EditFile, Trigger, ToggleDryRun, Stop, Untouched, bmcVars, loopVars
  <2>2. CASE LoseBmc
    BY <2>2 DEF LoseBmc, BmcRestart, HangUp, Untouched, loopVars, TypeOK, BmcTypeOK
  <2>3. CASE Crash \/ StartAgain
    <3>1. pc' \notin {"sending", "recording", "releasing"} /\ UNCHANGED fanMin
      BY <2>3, CrashPc DEF Crash, StartAgain, bmcVars
    <3>2. \A p \in {"watch", "hup"} : rel'[p].todo = {}
      <4>1. CASE Crash
        <5>1. NoReload.todo = {} /\ rel' = [p \in {"watch", "hup"} |-> NoReload]
          BY <4>1 DEF Crash, NoReload
        <5> QED BY <5>1
      <4>2. CASE StartAgain
        BY <4>2 DEF StartAgain, Untouched
      <4> QED BY <2>3, <4>1, <4>2
    <3> QED BY <3>1, <3>2 DEF Untouched
  <2> QED BY <1>4, <2>1, <2>2, <2>3 DEF Environment
<1>5. CASE UNCHANGED vars
  BY <1>5 DEF vars, bmcVars, loopVars, Untouched
<1> QED
  BY <1>1, <1>2, <1>3, <1>4, <1>5 DEF Next

(***************************************************************************)
(* A dry run that is never switched off writes nothing: no cycle, no       *)
(* reload and no shutdown ever sets a floor, on any BMC.                   *)
(***************************************************************************)
THEOREM DryRunIsDry == Spec => DryRunWritesNothing
<1>1. Init => Untouched
  BY DEF Init, BmcInit, Untouched, NoReload
<1>2. TypeOK /\ Untouched /\ dryRun /\ [Next]_vars => Untouched'
  BY UntouchedStep
<1>3. Untouched => \A h \in Host, f \in Fan : fanMin[h][f] = None
  BY DEF Untouched
<1> QED
  BY <1>1, <1>2, <1>3, TypeCorrect, PTL DEF Spec, DryRunWritesNothing
-----------------------------------------------------------------------------
(***************************************************************************)
(* A lower floor is slowly reached from a higher one, under a config.      *)
(***************************************************************************)
SlowFall(c, old, new) ==
  new < old => \/ old > RawToPct(PctToRaw(c.max))
               \/ c.ramp <= 0
               \/ old - new <= c.ramp + RawStep \div 2

Applying == {"writing", "sending", "recording"}

(***************************************************************************)
(* Between the decision and the record of a floor: in a critical cycle the *)
(* demand is the maximum; only fans of the config are gone over; and the   *)
(* raw value on its way is slowly reached from the floor remembered, which *)
(* a reload may only have forgotten since.                                 *)
(***************************************************************************)
FallInv ==
  /\ pc \in {"joining"} \cup Applying /\ critical => \A f \in myCfg.fans : demand[f] = myCfg.max
  /\ pc \in Applying => todo \subseteq myCfg.fans
  /\ pc \in {"sending", "recording"} =>
       \A f \in todo : Next1(f, todo) /\ applied[f] # None =>
         SlowFall(myCfg, applied[f], RawToPct(raw))

LEMMA FallChoose ==
  ASSUME TypeOK, FallInv, ChooseFloor PROVE FallInv'
<1>1. PICK f \in todo :
        LET had == applied[f] # None
            r == FloorToCommand(myCfg, had, applied[f], demand[f], critical)
        IN  /\ Next1(f, todo)
            /\ \/ todo' = todo \ {f} /\ UNCHANGED <<pc, raw>>
               \/ raw' = r /\ pc' = "sending" /\ UNCHANGED todo
  BY DEF ChooseFloor
<1>2. /\ pc = "writing" /\ UNCHANGED <<myCfg, demand, critical, applied>>
  BY DEF ChooseFloor, ctlVars
<1>3. f \in Fan /\ todo \subseteq Fan /\ ValidConfig(myCfg) /\ critical \in BOOLEAN
      /\ demand[f] \in Int /\ (applied[f] # None => applied[f] \in Int)
  BY ConfigFacts, IntervalNumbers DEF TypeOK, LoopTypeOK, CtlTypeOK, Floor
<1>4. todo \subseteq myCfg.fans /\ (critical => demand[f] = myCfg.max)
  BY <1>2 DEF FallInv, Applying
<1>5. \A g \in todo : Next1(g, todo) => g = f
  BY <1>1, <1>3, BmcAssumption DEF Next1
<1>6. CASE todo' = todo \ {f} /\ UNCHANGED <<pc, raw>>
  BY <1>2, <1>4, <1>6 DEF FallInv, Applying
<1>7. CASE /\ raw' = FloorToCommand(myCfg, applied[f] # None, applied[f], demand[f], critical)
           /\ pc' = "sending" /\ UNCHANGED todo
  <2>1. applied[f] # None => SlowFall(myCfg, applied[f], RawToPct(raw'))
    <3> SUFFICES ASSUME applied[f] # None
                 PROVE  SlowFall(myCfg, applied[f], RawToPct(raw'))
      OBVIOUS
    <3>1. raw' = FloorToCommand(myCfg, TRUE, applied[f], demand[f], critical)
      BY <1>7
    <3> QED BY <1>3, <1>4, <3>1, CommandFallsSlowly DEF SlowFall
  <2> QED BY <1>2, <1>4, <1>5, <1>7, <2>1 DEF FallInv, Applying
<1> QED
  BY <1>1, <1>6, <1>7

LEMMA FallCycle ==
  ASSUME TypeOK, FallInv, Cycle PROVE FallInv'
<1>1. CASE BeginCycle
  BY <1>1 DEF BeginCycle, FallInv, Applying
<1>2. CASE ConnectDone
  BY <1>2 DEF ConnectDone, FallInv, Applying, ctlVars
<1>3. CASE SenseAndDecide
  <2>1. PICK usable \in SUBSET myCfg.sensors : \E values \in [usable -> Temps] :
          /\ critical' = IsCritical(myCfg, values)
          /\ demand' = [f \in Fan |-> IF f \in myCfg.fans THEN Demands(myCfg, values)[f] ELSE 0]
    BY <1>3 DEF SenseAndDecide
  <2>2. PICK values \in [usable -> Temps] :
          /\ critical' = IsCritical(myCfg, values)
          /\ demand' = [f \in Fan |-> IF f \in myCfg.fans THEN Demands(myCfg, values)[f] ELSE 0]
    BY <2>1
  <2>3. ValidConfig(myCfg) /\ myCfg.fans \subseteq Fan /\ \A s \in DOMAIN values : values[s] \in Int
    BY ConfigFacts, ControllerAssumption DEF TypeOK, LoopTypeOK
  <2>4. critical' => \A f \in myCfg.fans : demand'[f] = myCfg.max
    BY <2>2, <2>3, DemandsWithinLimits
  <2>5. pc' = "joining" /\ UNCHANGED myCfg
    BY <1>3 DEF SenseAndDecide
  <2> QED BY <2>4, <2>5 DEF FallInv, Applying
<1>4. CASE JoinConnect
  BY <1>4 DEF JoinConnect, EndCycle, FallInv, Applying
<1>5. CASE ChooseFloor
  BY <1>5, FallChoose
<1>6. CASE SendFloor
  <2>1. /\ UNCHANGED <<applied, myCfg, demand, critical>> /\ pc = "sending"
        /\ \/ pc' = "recording" /\ UNCHANGED <<todo, raw>>
           \/ pc' = "writing" /\ todo' \subseteq todo
    BY <1>6 DEF SendFloor, OutcomeStep, ctlVars
  <2> QED BY <2>1 DEF FallInv, Applying
<1>7. CASE RecordFloor
  BY <1>7 DEF RecordFloor, FallInv, Applying
<1>8. CASE ReadBack \/ FanRows \/ Judge
  BY <1>8 DEF ReadBack, FanRows, Judge, EndCycle, FallInv, Applying
<1> QED
  BY <1>1, <1>2, <1>3, <1>4, <1>5, <1>6, <1>7, <1>8 DEF Cycle

LEMMA FallReload ==
  ASSUME TypeOK, FallInv, NEW p \in {"watch", "hup"}, LoadFile(p) \/ ReloadStep(p)
  PROVE  FallInv'
<1>1. CASE LoadFile(p) \/ SameChecksum(p) \/ ReloadDone(p)
  <2>1. /\ UNCHANGED <<applied, myCfg, demand, critical, todo, raw>>
        /\ pc' = pc \/ pc' \in {"idle", "reloading"}
    BY <1>1 DEF LoadFile, SameChecksum, ReloadDone, BackFrom, ctlVars
  <2> QED BY <2>1 DEF FallInv, Applying
<1>2. CASE SwapConfig(p) \/ WindDown(p)
  <2>1. UNCHANGED loopVars /\ UNCHANGED applied
    BY <1>2 DEF SwapConfig, WindDown, ctlVars
  <2> QED BY <2>1 DEF FallInv, loopVars, Applying
<1>3. CASE ForgetFan(p)
  <2>1. UNCHANGED loopVars /\ \A f \in Fan : applied'[f] = applied[f] \/ applied'[f] = None
    BY <1>3 DEF ForgetFan, TypeOK, CtlTypeOK
  <2>2. todo \subseteq Fan
    BY DEF TypeOK, LoopTypeOK
  <2> QED BY <2>1, <2>2 DEF FallInv, loopVars, Applying
<1> QED
  BY <1>1, <1>2, <1>3 DEF ReloadStep

LEMMA FallStep == TypeOK /\ FallInv /\ [Next]_vars => FallInv'
<1> SUFFICES ASSUME TypeOK, FallInv, [Next]_vars PROVE FallInv'
  OBVIOUS
<1>1. CASE \E p \in Reloaders : LoadFile(p) \/ ReloadStep(p)
  BY <1>1, FallReload, ControllerAssumption
<1>2. CASE Release
  BY <1>2 DEF Release, ReleaseNothing, BeginRelease, ReleaseFan, EndRelease, FallInv, Applying
<1>3. CASE Crash \/ StartAgain
  <2>1. pc' \in {"start", "stopped", "down"}
    BY <1>3, CrashPc DEF StartAgain
  <2> QED BY <2>1 DEF FallInv, Applying
<1>4. CASE \/ Interval \/ EditFile \/ Trigger \/ ToggleDryRun \/ Stop \/ LoseBmc
           \/ UNCHANGED vars
  <2>1. UNCHANGED loopVars /\ UNCHANGED applied
    BY <1>4 DEF Interval, EditFile, Trigger, ToggleDryRun, Stop, LoseBmc, ctlVars, vars
  <2> QED BY <2>1 DEF FallInv, loopVars, Applying
<1> QED
  BY <1>1, <1>2, <1>3, <1>4, FallCycle DEF Next, Environment

(***************************************************************************)
(* Floors fall slowly: no step lowers a remembered floor by more than the  *)
(* ramp limit and half a PWM step, unless it was above the maximum, under  *)
(* every configuration and whatever reloads come between the choice of a   *)
(* floor, its write and its record.                                        *)
(***************************************************************************)
THEOREM FallsSlowly == Spec => FloorsFallSlowly
<1> DEFINE Slow == \A f \in Fan :
             applied[f] # None /\ applied'[f] # None /\ applied'[f] < applied[f] =>
               \/ applied[f] > RawToPct(PctToRaw(myCfg.max))
               \/ myCfg.ramp <= 0
               \/ applied[f] - applied'[f] <= myCfg.ramp + RawStep \div 2
<1>1. Init => FallInv
  BY DEF Init, FallInv, Applying
<1>2. TypeOK /\ FallInv /\ [Next]_vars => FallInv'
  BY FallStep
<1>3. TypeOK /\ FallInv /\ [Next]_vars => [Slow]_vars
  <2> SUFFICES ASSUME TypeOK, FallInv, Next, NEW f \in Fan,
                      applied[f] # None, applied'[f] # None, applied'[f] < applied[f]
               PROVE  SlowFall(myCfg, applied[f], applied'[f])
    BY DEF SlowFall
  <2>1. CASE RecordFloor
    <3>1. PICK g \in todo : /\ Next1(g, todo) /\ pc = "recording"
                            /\ applied' = [applied EXCEPT ![g] = RawToPct(raw)]
      BY <2>1 DEF RecordFloor
    <3>2. f # g => applied'[f] = applied[f]
      BY <3>1 DEF TypeOK, CtlTypeOK
    <3>3. applied[f] \in Int
      BY IntervalNumbers DEF TypeOK, CtlTypeOK, Floor
    <3>4. f = g /\ applied'[f] = RawToPct(raw)
      BY <3>1, <3>2, <3>3 DEF TypeOK, CtlTypeOK
    <3> QED BY <3>1, <3>4 DEF FallInv
  <2>2. CASE UNCHANGED applied
    <3>1. applied[f] \in Int
      BY IntervalNumbers DEF TypeOK, CtlTypeOK, Floor
    <3> QED BY <2>2, <3>1
  <2>3. CASE \E p \in Reloaders : ForgetFan(p)
    <3>1. applied'[f] = applied[f] \/ applied'[f] = None
      BY <2>3 DEF ForgetFan, TypeOK, CtlTypeOK
    <3>2. applied[f] \in Int
      BY IntervalNumbers DEF TypeOK, CtlTypeOK, Floor
    <3> QED BY <3>1, <3>2
  <2>4. CASE Crash
    BY <2>4 DEF Crash, NoFloors
  <2>5. RecordFloor \/ UNCHANGED applied \/ Crash \/ \E p \in Reloaders : ForgetFan(p)
    BY DEF Next, Cycle, BeginCycle, ConnectDone, SenseAndDecide, JoinConnect, ChooseFloor,
           SendFloor, ReadBack, FanRows, Judge, LoadFile, ReloadStep, SameChecksum,
           SwapConfig, WindDown, ReloadDone, Release, ReleaseNothing, BeginRelease,
           ReleaseFan, EndRelease, Environment, Interval, EditFile, Trigger,
           ToggleDryRun, Stop, LoseBmc, StartAgain, ctlVars
  <2> QED BY <2>1, <2>2, <2>3, <2>4, <2>5
<1> QED
  BY <1>1, <1>2, <1>3, TypeCorrect, PTL DEF Spec, FloorsFallSlowly
-----------------------------------------------------------------------------
(***************************************************************************)
(* Every floor the controller comes to remember is the wire value of the   *)
(* fan's demand, or lies between that and the floor it replaces: apply     *)
(* never records a floor below a demand, nor moves one away from it.       *)
(***************************************************************************)
FloorsHeadForDemand ==
  [][\A f \in Fan :
       applied'[f] # None /\ applied'[f] # applied[f] =>
         \/ applied'[f] = OnWire(demand[f])
         \/ /\ OnWire(demand[f]) < applied'[f]
            /\ applied[f] # None => applied'[f] < applied[f]]_vars

\* From floor old to new on the way to goal.
Toward(old, new, goal) ==
  new = goal \/ (goal < new /\ (old # None => new < old))

(***************************************************************************)
(* Remembered floors are values of the wire scale; once decided, demands   *)
(* are within the limits of the config; and a raw value on its way heads   *)
(* for the demand, from the floor remembered if no reload has forgotten it *)
(* since.                                                                  *)
(***************************************************************************)
HeadInv ==
  /\ \A f \in Remembered(applied) : \E r \in 0..RawMax : applied[f] = RawToPct(r)
  /\ pc \in {"joining"} \cup Applying =>
       \A f \in myCfg.fans : myCfg.min <= demand[f] /\ demand[f] <= myCfg.max
  /\ pc \in Applying => todo \subseteq myCfg.fans
  /\ pc \in {"sending", "recording"} =>
       \A f \in todo : Next1(f, todo) =>
         Toward(applied[f], RawToPct(raw), OnWire(demand[f]))

\* A command that apply does not skip heads for the demand.
LEMMA CommandHeadsForDemand ==
  ASSUME NEW c, ValidConfig(c), NEW prev,
         prev # None => \E r \in 0..RawMax : prev = RawToPct(r),
         NEW target \in Int, c.min <= target, target <= c.max, NEW crit \in BOOLEAN,
         prev # None => /\ ~HeldByHysteresis(c, TRUE, prev, target, crit)
                        /\ FloorToCommand(c, TRUE, prev, target, crit) # PctToRaw(prev)
  PROVE  Toward(prev, RawToPct(FloorToCommand(c, prev # None, prev, target, crit)),
                OnWire(target))
<1>1. c.min \in Int /\ c.max \in Int /\ 0 <= c.min /\ c.max <= Full /\ Full \in Int
  BY ValidNumbers, IntervalNumbers
<1>2. CASE prev = None
  <2>1. ~Falls(FALSE, prev, target, crit) /\ (prev # None) = FALSE
    BY <1>2 DEF Falls
  <2>2. FloorToCommand(c, FALSE, prev, target, crit) = PctToRaw(Clamp(target, c.min, c.max))
    BY <2>1 DEF FloorToCommand, Ramped
  <2>3. Clamp(target, c.min, c.max) = target
    BY <1>1, SMT DEF Clamp
  <2> QED BY <2>1, <2>2, <2>3 DEF Toward, OnWire
<1>3. CASE prev # None
  <2> DEFINE r == FloorToCommand(c, TRUE, prev, target, crit)
             new == FloorLeft(c, prev, target, crit)
             goal == OnWire(target)
  <2>1. PICK r0 \in 0..RawMax : prev = RawToPct(r0)
    BY <1>3
  <2>2. r \in 0..RawMax
    <3>1. prev \in Int
      BY <2>1, WireNumbers
    <3> QED BY <3>1, CommandWithinLimits
  <2>3. new = RawToPct(r)
    BY <1>3 DEF FloorLeft
  <2>4. new \in Int /\ prev \in Int /\ new # prev
    BY <1>3, <2>1, <2>2, <2>3, WireNumbers
  <2>5. target \in 0..Full /\ goal \in Int
    <3>1. target \in 0..Full
      <4> HIDE DEF r, new, goal
      <4> QED BY <1>1
    <3> QED BY <3>1, WireNumbers
  <2>6. /\ crit \/ prev <= target => new = goal
        /\ ~crit /\ target < prev => goal <= new /\ new <= prev
    BY <2>1, FloorHeadsForDemand
  <2> HIDE DEF r, new, goal
  <2>7. new = goal \/ (goal < new /\ new < prev)
    BY <2>4, <2>5, <2>6
  <2>8. (prev # None) = TRUE
    BY <1>3
  <2> QED BY <2>3, <2>7, <2>8 DEF Toward, r, goal
<1> QED
  BY <1>2, <1>3

LEMMA HeadChoose ==
  ASSUME TypeOK, HeadInv, ChooseFloor PROVE HeadInv'
<1>1. PICK f \in todo :
        LET had == applied[f] # None
            r == FloorToCommand(myCfg, had, applied[f], demand[f], critical)
        IN  /\ Next1(f, todo)
            /\ \/ todo' = todo \ {f} /\ UNCHANGED <<pc, raw>>
               \/ /\ ~LeftAlone(f, had, r)
                  /\ raw' = r /\ pc' = "sending" /\ UNCHANGED todo
  BY DEF ChooseFloor
<1>2. /\ pc = "writing" /\ UNCHANGED <<myCfg, demand, critical, applied>>
  BY DEF ChooseFloor, ctlVars
<1>3. f \in Fan /\ todo \subseteq Fan /\ ValidConfig(myCfg) /\ critical \in BOOLEAN
      /\ demand[f] \in Int
  BY ConfigFacts, IntervalNumbers DEF TypeOK, LoopTypeOK, Floor
<1>4. /\ todo \subseteq myCfg.fans /\ myCfg.min <= demand[f] /\ demand[f] <= myCfg.max
      /\ applied[f] # None => \E r \in 0..RawMax : applied[f] = RawToPct(r)
  BY <1>2, <1>3 DEF HeadInv, Applying, Remembered
<1>5. \A g \in todo : Next1(g, todo) => g = f
  BY <1>1, <1>3, BmcAssumption DEF Next1
<1>6. CASE todo' = todo \ {f} /\ UNCHANGED <<pc, raw>>
  BY <1>2, <1>4, <1>6 DEF HeadInv, Applying, Remembered
<1>7. CASE LET r == FloorToCommand(myCfg, applied[f] # None, applied[f], demand[f], critical)
           IN  /\ ~LeftAlone(f, applied[f] # None, r)
               /\ raw' = r /\ pc' = "sending" /\ UNCHANGED todo
  <2>1. Toward(applied[f], RawToPct(raw'), OnWire(demand[f]))
    <3>1. applied[f] # None =>
            /\ ~HeldByHysteresis(myCfg, TRUE, applied[f], demand[f], critical)
            /\ FloorToCommand(myCfg, TRUE, applied[f], demand[f], critical)
                 # PctToRaw(applied[f])
      BY <1>7 DEF LeftAlone
    <3>2. raw' = FloorToCommand(myCfg, applied[f] # None, applied[f], demand[f], critical)
      BY <1>7
    <3> QED BY <1>3, <1>4, <3>1, <3>2, CommandHeadsForDemand
  <2>2. /\ pc' = "sending" /\ UNCHANGED todo
        /\ \A g \in todo' : Next1(g, todo') =>
             Toward(applied'[g], RawToPct(raw'), OnWire(demand'[g]))
    BY <1>2, <1>5, <1>7, <2>1
  <2> QED BY <1>2, <2>2 DEF HeadInv, Applying, Remembered
<1> QED
  BY <1>1, <1>6, <1>7

LEMMA HeadCycle ==
  ASSUME TypeOK, HeadInv, Cycle PROVE HeadInv'
<1>1. CASE BeginCycle
  BY <1>1 DEF BeginCycle, HeadInv, Applying, ctlVars, Remembered
<1>2. CASE ConnectDone
  BY <1>2 DEF ConnectDone, HeadInv, Applying, ctlVars, Remembered
<1>3. CASE SenseAndDecide
  <2>1. PICK usable \in SUBSET myCfg.sensors : \E values \in [usable -> Temps] :
          demand' = [f \in Fan |-> IF f \in myCfg.fans THEN Demands(myCfg, values)[f] ELSE 0]
    BY <1>3 DEF SenseAndDecide
  <2>2. PICK values \in [usable -> Temps] :
          demand' = [f \in Fan |-> IF f \in myCfg.fans THEN Demands(myCfg, values)[f] ELSE 0]
    BY <2>1
  <2>3. ValidConfig(myCfg) /\ myCfg.fans \subseteq Fan /\ \A s \in DOMAIN values : values[s] \in Int
    BY ConfigFacts, ControllerAssumption DEF TypeOK, LoopTypeOK
  <2>4. \A f \in myCfg.fans : demand'[f] \in myCfg.min..myCfg.max
    BY <2>2, <2>3, DemandsWithinLimits
  <2>5. myCfg.min \in Int /\ myCfg.max \in Int
    BY <2>3, ValidNumbers
  <2>6. \A f \in myCfg.fans : myCfg.min <= demand'[f] /\ demand'[f] <= myCfg.max
    BY <2>4, <2>5
  <2>7. pc' = "joining" /\ UNCHANGED <<myCfg, applied>>
    BY <1>3 DEF SenseAndDecide, ctlVars
  <2> QED BY <2>6, <2>7 DEF HeadInv, Applying, Remembered
<1>4. CASE JoinConnect
  BY <1>4 DEF JoinConnect, EndCycle, HeadInv, Applying, Remembered
<1>5. CASE ChooseFloor
  BY <1>5, HeadChoose
<1>6. CASE SendFloor
  <2>1. /\ UNCHANGED <<applied, myCfg, demand>> /\ pc = "sending"
        /\ \/ pc' = "recording" /\ UNCHANGED <<todo, raw>>
           \/ pc' = "writing" /\ todo' \subseteq todo
    BY <1>6 DEF SendFloor, OutcomeStep, ctlVars
  <2> QED BY <2>1 DEF HeadInv, Applying, Remembered
<1>7. CASE RecordFloor
  <2>1. /\ pc = "recording" /\ pc' = "writing" /\ todo' \subseteq todo
        /\ UNCHANGED <<myCfg, demand>>
        /\ \A f \in Fan : applied'[f] = applied[f] \/ applied'[f] = RawToPct(raw)
    BY <1>7 DEF RecordFloor, TypeOK, CtlTypeOK
  <2>2. raw \in 0..RawMax
    BY DEF TypeOK, LoopTypeOK
  <2> QED BY <2>1, <2>2 DEF HeadInv, Applying, Remembered
<1>8. CASE ReadBack \/ FanRows \/ Judge
  BY <1>8 DEF ReadBack, FanRows, Judge, EndCycle, HeadInv, Applying, ctlVars, Remembered
<1> QED
  BY <1>1, <1>2, <1>3, <1>4, <1>5, <1>6, <1>7, <1>8 DEF Cycle

LEMMA HeadReload ==
  ASSUME TypeOK, HeadInv, NEW p \in {"watch", "hup"}, LoadFile(p) \/ ReloadStep(p)
  PROVE  HeadInv'
<1>1. CASE LoadFile(p) \/ SameChecksum(p) \/ ReloadDone(p)
  <2>1. /\ UNCHANGED <<applied, myCfg, demand, todo, raw>>
        /\ pc' = pc \/ pc' \in {"idle", "reloading"}
    BY <1>1 DEF LoadFile, SameChecksum, ReloadDone, BackFrom, ctlVars
  <2> QED BY <2>1 DEF HeadInv, Applying, Remembered
<1>2. CASE SwapConfig(p) \/ WindDown(p)
  <2>1. UNCHANGED loopVars /\ UNCHANGED applied
    BY <1>2 DEF SwapConfig, WindDown, ctlVars
  <2> QED BY <2>1 DEF HeadInv, loopVars, Applying, Remembered
<1>3. CASE ForgetFan(p)
  <2>1. UNCHANGED loopVars /\ \A f \in Fan : applied'[f] = applied[f] \/ applied'[f] = None
    BY <1>3 DEF ForgetFan, TypeOK, CtlTypeOK
  <2>2. todo \subseteq Fan
    BY DEF TypeOK, LoopTypeOK
  <2>3. \A f \in Fan : Toward(applied[f], RawToPct(raw), OnWire(demand[f])) =>
          Toward(applied'[f], RawToPct(raw), OnWire(demand[f]))
    BY <2>1 DEF Toward
  <2> QED BY <2>1, <2>2, <2>3 DEF HeadInv, loopVars, Applying, Remembered
<1> QED
  BY <1>1, <1>2, <1>3 DEF ReloadStep

LEMMA HeadStep == TypeOK /\ HeadInv /\ [Next]_vars => HeadInv'
<1> SUFFICES ASSUME TypeOK, HeadInv, [Next]_vars PROVE HeadInv'
  OBVIOUS
<1>1. CASE \E p \in Reloaders : LoadFile(p) \/ ReloadStep(p)
  BY <1>1, HeadReload, ControllerAssumption
<1>2. CASE Release
  BY <1>2 DEF Release, ReleaseNothing, BeginRelease, ReleaseFan, EndRelease, HeadInv, Applying,
              ctlVars, Remembered
<1>3. CASE Crash \/ StartAgain
  <2>1. pc' \in {"start", "stopped", "down"}
    BY <1>3, CrashPc DEF StartAgain
  <2>2. UNCHANGED applied \/ \A f \in Fan : applied'[f] = None
    BY <1>3 DEF Crash, StartAgain, NoFloors
  <2> QED BY <2>1, <2>2 DEF HeadInv, Applying, Remembered
<1>4. CASE \/ Interval \/ EditFile \/ Trigger \/ ToggleDryRun \/ Stop \/ LoseBmc
           \/ UNCHANGED vars
  <2>1. UNCHANGED loopVars /\ UNCHANGED applied
    BY <1>4 DEF Interval, EditFile, Trigger, ToggleDryRun, Stop, LoseBmc, ctlVars, vars
  <2> QED BY <2>1 DEF HeadInv, loopVars, Applying, Remembered
<1> QED
  BY <1>1, <1>2, <1>3, <1>4, HeadCycle DEF Next, Environment

(***************************************************************************)
(* Floors head for the demand, under every configuration and whatever      *)
(* reloads, lost commands and kills come between a decision and its        *)
(* record.                                                                 *)
(***************************************************************************)
THEOREM HeadsForDemand == Spec => FloorsHeadForDemand
<1> DEFINE Heads == \A f \in Fan :
             applied'[f] # None /\ applied'[f] # applied[f] =>
               \/ applied'[f] = OnWire(demand[f])
               \/ /\ OnWire(demand[f]) < applied'[f]
                  /\ applied[f] # None => applied'[f] < applied[f]
<1>1. Init => HeadInv
  BY DEF Init, HeadInv, Applying, Remembered, NoFloors
<1>2. TypeOK /\ HeadInv /\ [Next]_vars => HeadInv'
  BY HeadStep
<1>3. TypeOK /\ HeadInv /\ [Next]_vars => [Heads]_vars
  <2> SUFFICES ASSUME TypeOK, HeadInv, Next, NEW f \in Fan,
                      applied'[f] # None, applied'[f] # applied[f]
               PROVE  Toward(applied[f], applied'[f], OnWire(demand[f]))
    BY DEF Toward
  <2>1. CASE RecordFloor
    <3>1. PICK g \in todo : /\ Next1(g, todo) /\ pc = "recording"
                            /\ applied' = [applied EXCEPT ![g] = RawToPct(raw)]
      BY <2>1 DEF RecordFloor
    <3>2. f = g /\ applied'[f] = RawToPct(raw)
      BY <3>1 DEF TypeOK, CtlTypeOK
    <3> QED BY <3>1, <3>2 DEF HeadInv
  <2>2. CASE \E p \in Reloaders : ForgetFan(p)
    BY <2>2 DEF ForgetFan, TypeOK, CtlTypeOK
  <2>3. CASE Crash
    BY <2>3 DEF Crash, NoFloors
  <2>4. RecordFloor \/ Crash \/ \E p \in Reloaders : ForgetFan(p)
    BY DEF Next, Cycle, BeginCycle, ConnectDone, SenseAndDecide, JoinConnect, ChooseFloor,
           SendFloor, ReadBack, FanRows, Judge, LoadFile, ReloadStep, SameChecksum,
           SwapConfig, WindDown, ReloadDone, Release, ReleaseNothing, BeginRelease,
           ReleaseFan, EndRelease, Environment, Interval, EditFile, Trigger,
           ToggleDryRun, Stop, LoseBmc, StartAgain, ctlVars
  <2> QED BY <2>1, <2>2, <2>3, <2>4
<1> QED
  BY <1>1, <1>2, <1>3, TypeCorrect, PTL DEF Spec, FloorsHeadForDemand
-----------------------------------------------------------------------------
(***************************************************************************)
(* "Command a fan that is not in the config" (README.md:238) is what the   *)
(* tool will never do; with reloads by SIGHUP this is what is left of it.  *)
(* Every command of a floor is one of a cycle, for a fan of the config the *)
(* cycle captured, on the BMC of that config and within its limits; or of  *)
(* a reload, which takes a fan its config does not have to the baseline;   *)
(* or of release, to the baseline it captured.                             *)
(***************************************************************************)
CommandsComeFromAConfig ==
  [][\A h \in Host, f \in Fan : fanMin'[h][f] \notin {None, fanMin[h][f]} =>
       \/ /\ pc = "sending" /\ f \in myCfg.fans /\ h = myCfg.ilo
          /\ WithinLimits(myCfg, fanMin'[h][f])
       \/ \E p \in Reloaders : /\ f \in rel[p].todo \ rel[p].next.fans
                               /\ h = rel[p].next.ilo
                               /\ fanMin'[h][f] = PctToRaw(rel[p].next.min)
       \/ /\ pc = "releasing" /\ h = myCfg.ilo
          /\ fanMin'[h][f] = PctToRaw(myCfg.min)]_vars

\* A cycle goes over fans of the config it captured, a reload over fans not in its own.
OwnFans ==
  /\ pc \in Applying => todo \subseteq myCfg.fans
  /\ \A p \in {"watch", "hup"} :
       rel[p].pc \in {"winding", "deleting"} => rel[p].todo \cap rel[p].next.fans = {}

LEMMA OwnFansReload ==
  ASSUME TypeOK, OwnFans, NEW p \in {"watch", "hup"}, LoadFile(p) \/ ReloadStep(p)
  PROVE  OwnFans'
<1>1. rel \in [{"watch", "hup"} -> Reload] /\ NoReload.pc = "off"
  BY DEF TypeOK, RelTypeOK, NoReload
<1>2. /\ UNCHANGED <<myCfg, todo>>
      /\ UNCHANGED pc \/ pc' \in {"idle", "reloading"}
  BY DEF LoadFile, ReloadStep, SameChecksum, SwapConfig, WindDown, ForgetFan, ReloadDone,
         BackFrom, loopVars
<1>3. pc' \in Applying => todo' \subseteq myCfg'.fans
  BY <1>2 DEF OwnFans, Applying
<1>4. ASSUME NEW q \in {"watch", "hup"}, rel'[q].pc \in {"winding", "deleting"}
      PROVE  rel'[q].todo \cap rel'[q].next.fans = {}
  <2>1. CASE LoadFile(p) \/ SameChecksum(p) \/ ReloadDone(p)
    <3>1. q # p /\ rel'[q] = rel[q]
      BY <1>1, <1>4, <2>1 DEF LoadFile, SameChecksum, ReloadDone, Reload
    <3> QED BY <1>4, <3>1 DEF OwnFans
  <2>2. CASE SwapConfig(p)
    <3>1. CASE q = p
      <4>1. rel'[p].todo = Dropped(rel[p].next) /\ rel'[p].next = rel[p].next
        BY <1>1, <2>2 DEF SwapConfig, Reload
      <4> QED BY <3>1, <4>1 DEF Dropped
    <3>2. CASE q # p
      BY <1>1, <1>4, <2>2, <3>2 DEF SwapConfig, OwnFans
    <3> QED BY <3>1, <3>2
  <2>3. CASE WindDown(p)
    <3>1. PICK f \in rel[p].todo, out \in {"ok"} \cup {"unsent"} \cup FaultKinds :
            rel' = IF AfterWindDown(out) = "deleting" THEN [rel EXCEPT ![p].pc = "deleting"]
                   ELSE [rel EXCEPT ![p].todo = @ \ {f}]
      BY <2>3 DEF WindDown
    <3>2. /\ rel'[q].todo \subseteq rel[q].todo /\ rel'[q].next = rel[q].next
          /\ rel[q].pc \in {"winding", "deleting"}
      <4>1. rel[p].pc = "winding"
        BY <2>3 DEF WindDown, AtReload
      <4> QED BY <1>1, <1>4, <3>1, <4>1 DEF Reload
    <3> QED BY <3>2 DEF OwnFans
  <2>4. CASE ForgetFan(p)
    <3>1. PICK f \in rel[p].todo :
            rel' = [rel EXCEPT ![p].pc = "winding", ![p].todo = @ \ {f}]
      BY <2>4 DEF ForgetFan
    <3>2. rel[p].pc = "deleting"
      BY <2>4 DEF ForgetFan, AtReload
    <3>3. /\ rel'[q].todo \subseteq rel[q].todo /\ rel'[q].next = rel[q].next
          /\ rel[q].pc \in {"winding", "deleting"}
      BY <1>1, <1>4, <3>1, <3>2 DEF Reload
    <3> QED BY <3>3 DEF OwnFans
  <2> QED BY <2>1, <2>2, <2>3, <2>4 DEF ReloadStep
<1> QED
  BY <1>3, <1>4 DEF OwnFans

LEMMA OwnFansStep ==
  ASSUME TypeOK, OwnFans, [Next]_vars PROVE OwnFans'
<1> USE DEF Applying
<1>1. CASE Cycle
  <2>1. UNCHANGED rel
    BY <1>1 DEF Cycle, BeginCycle, ConnectDone, SenseAndDecide, JoinConnect, ChooseFloor,
                SendFloor, RecordFloor, ReadBack, FanRows, Judge
  <2>2. pc' \in Applying => todo' \subseteq myCfg'.fans
    BY <1>1 DEF Cycle, BeginCycle, ConnectDone, SenseAndDecide, JoinConnect, EndCycle,
                ChooseFloor, SendFloor, OutcomeStep, RecordFloor, ReadBack, FanRows, Judge,
                OwnFans
  <2> QED BY <2>1, <2>2 DEF OwnFans
<1>2. CASE \E p \in Reloaders : LoadFile(p) \/ ReloadStep(p)
  BY <1>2, OwnFansReload, ControllerAssumption
<1>3. CASE Release
  BY <1>3 DEF Release, ReleaseNothing, BeginRelease, ReleaseFan, EndRelease, OwnFans
<1>4. CASE Crash \/ StartAgain
  <2>1. pc' \in {"start", "stopped", "down"}
    BY <1>4, CrashPc DEF StartAgain
  <2>2. UNCHANGED rel \/ \A p \in {"watch", "hup"} : rel'[p].pc = "off"
    BY <1>4 DEF Crash, StartAgain, NoReload
  <2> QED BY <2>1, <2>2 DEF OwnFans
<1>5. CASE \/ Interval \/ EditFile \/ Trigger \/ ToggleDryRun \/ Stop \/ LoseBmc
           \/ UNCHANGED vars
  <2>1. UNCHANGED <<loopVars, rel>>
    BY <1>5 DEF Interval, EditFile, Trigger, ToggleDryRun, Stop, LoseBmc, vars
  <2> QED BY <2>1 DEF OwnFans, loopVars
<1> QED
  BY <1>1, <1>2, <1>3, <1>4, <1>5 DEF Next, Environment

\* The steps that change floors.
LEMMA WhoWrites ==
  ASSUME TypeOK, [Next]_vars
  PROVE  \/ UNCHANGED fanMin
         \/ SendFloor \/ ReleaseFan \/ \E p \in Reloaders : WindDown(p)
         \/ \E h \in Host : BmcRestart(h)
BY DEF Next, Cycle, BeginCycle, ConnectDone, SenseAndDecide, JoinConnect, ChooseFloor,
       RecordFloor, ReadBack, FanSpeeds, FanRows, Judge, LoadFile, ReloadStep, SameChecksum,
       SwapConfig, ForgetFan, ReloadDone, Release, ReleaseNothing, BeginRelease,
       EndRelease, Environment, Interval, EditFile, Trigger, ToggleDryRun, Stop, LoseBmc,
       HangUp, Crash, StartAgain, vars, bmcVars

\* A floor that a step sets is the one of a command, not cleared by a reset.
LEMMA SetByCommand ==
  ASSUME TypeOK, NEW h \in Host, NEW f \in Fan, fanMin'[h][f] \notin {None, fanMin[h][f]}
  PROVE  /\ \A c, cancelled, g, r, out :
              SetFanMin(c, cancelled, g, r, out) => f = g /\ h = c.ilo /\ fanMin'[h][f] = r
         /\ ~\E k \in Host : BmcRestart(k)
<1>1. fanMin \in [Host -> [Fan -> 0..RawMax \cup {None}]]
  BY DEF TypeOK, BmcTypeOK
<1>2. ASSUME NEW c, NEW cancelled, NEW g, NEW r, NEW out, SetFanMin(c, cancelled, g, r, out)
      PROVE  f = g /\ h = c.ilo /\ fanMin'[h][f] = r
  <2>1. fanMin' = [fanMin EXCEPT ![c.ilo][g] = r]
    BY <1>2 DEF SetFanMin
  <2> QED BY <1>1, <2>1
<1>3. ASSUME NEW k \in Host, BmcRestart(k) PROVE FALSE
  <2>1. fanMin' = [fanMin EXCEPT ![k] = [g \in Fan |-> None]]
    BY <1>3 DEF BmcRestart
  <2> QED BY <1>1, <2>1
<1> QED
  BY <1>2, <1>3

(***************************************************************************)
(* Whatever reloads, by the watcher and by SIGHUP, come at any point of a  *)
(* cycle, and whichever BMC they name, every command comes from one config *)
(* as a whole: its fans, its BMC and its limits.                           *)
(***************************************************************************)
THEOREM CommandedByAConfig == Spec => CommandsComeFromAConfig
<1> DEFINE Follows ==
      \A h \in Host, f \in Fan : fanMin'[h][f] \notin {None, fanMin[h][f]} =>
       \/ /\ pc = "sending" /\ f \in myCfg.fans /\ h = myCfg.ilo
          /\ WithinLimits(myCfg, fanMin'[h][f])
       \/ \E p \in Reloaders : /\ f \in rel[p].todo \ rel[p].next.fans
                               /\ h = rel[p].next.ilo
                               /\ fanMin'[h][f] = PctToRaw(rel[p].next.min)
       \/ /\ pc = "releasing" /\ h = myCfg.ilo
          /\ fanMin'[h][f] = PctToRaw(myCfg.min)
           I == Paired /\ FloorsWithinOwnLimits /\ OwnFans
<1>1. Init => I
  BY DEF Init, BmcInit, Paired, FloorsWithinOwnLimits, OwnFans, NoReload, Applying
<1>2. TypeOK /\ I /\ [Next]_vars => I'
  BY LimitsStep, OwnFansStep DEF LimitsInv
<1>3. TypeOK /\ I /\ [Next]_vars => [Follows]_vars
  <2> SUFFICES ASSUME TypeOK, I, Next, NEW h \in Host, NEW f \in Fan,
                      fanMin'[h][f] \notin {None, fanMin[h][f]}
               PROVE  \/ /\ pc = "sending" /\ f \in myCfg.fans /\ h = myCfg.ilo
                         /\ WithinLimits(myCfg, fanMin'[h][f])
                      \/ \E p \in Reloaders : /\ f \in rel[p].todo \ rel[p].next.fans
                                              /\ h = rel[p].next.ilo
                                              /\ fanMin'[h][f] = PctToRaw(rel[p].next.min)
                      \/ /\ pc = "releasing" /\ h = myCfg.ilo
                         /\ fanMin'[h][f] = PctToRaw(myCfg.min)
    OBVIOUS
  <2>1. /\ \A c, cancelled, g, r, out :
             SetFanMin(c, cancelled, g, r, out) => f = g /\ h = c.ilo /\ fanMin'[h][f] = r
        /\ ~\E k \in Host : BmcRestart(k)
    BY SetByCommand
  <2>2. CASE SendFloor
    <3>1. PICK g \in todo, out \in {"ok"} \cup {"unsent"} \cup FaultKinds :
            pc = "sending" /\ SetFanMin(myBmc, stopping, g, raw, out)
      BY <2>2 DEF SendFloor
    <3>2. f = g /\ h = myBmc.ilo /\ fanMin'[h][f] = raw
      BY <2>1, <3>1
    <3> QED BY <3>1, <3>2 DEF Paired, OwnFans, Applying
  <2>3. CASE ReleaseFan
    <3>1. PICK g \in todo, out \in {"ok"} \cup {"unsent"} \cup FaultKinds :
            pc = "releasing" /\ SetFanMin(myBmc, FALSE, g, PctToRaw(myCfg.min), out)
      BY <2>3 DEF ReleaseFan
    <3>2. h = myBmc.ilo /\ fanMin'[h][f] = PctToRaw(myCfg.min)
      BY <2>1, <3>1
    <3> QED BY <3>1, <3>2 DEF Paired
  <2>4. ASSUME NEW p \in Reloaders, WindDown(p)
        PROVE  /\ f \in rel[p].todo \ rel[p].next.fans /\ h = rel[p].next.ilo
               /\ fanMin'[h][f] = PctToRaw(rel[p].next.min)
    <3>1. PICK g \in rel[p].todo, out \in {"ok"} \cup {"unsent"} \cup FaultKinds :
            SetFanMin(rel[p].bmc, FALSE, g, PctToRaw(rel[p].next.min), out)
      BY <2>4 DEF WindDown
    <3>2. f = g /\ h = rel[p].bmc.ilo /\ fanMin'[h][f] = PctToRaw(rel[p].next.min)
      BY <2>1, <3>1
    <3>3. p \in {"watch", "hup"} /\ rel[p].pc = "winding"
      BY <2>4, ControllerAssumption DEF WindDown, AtReload
    <3> QED BY <3>1, <3>2, <3>3 DEF Paired, OwnFans
  <2> QED BY <2>1, <2>2, <2>3, <2>4, WhoWrites
<1> QED
  BY <1>1, <1>2, <1>3, TypeCorrect, PTL DEF Spec, CommandsComeFromAConfig
=============================================================================
