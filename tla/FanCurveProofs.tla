--------------------------- MODULE FanCurveProofs ---------------------------
(***************************************************************************)
(* The arithmetic of FanCurve, for every curve, temperature and percentage.*)
(***************************************************************************)
EXTENDS FanCurve, TLAPS, WellFoundedInduction, SequenceTheorems

\* A clamped value is within the limits.  About clamp.
LEMMA ClampInLimits ==
  ASSUME NEW v \in Int, NEW lo \in Int, NEW hi \in Int, lo <= hi
  PROVE  Clamp(v, lo, hi) \in lo..hi
BY DEF Clamp

\* The command is a byte.  About PctToRaw's conversion to uint8.
LEMMA PctToRawIsByte ==
  ASSUME NEW u \in Int
  PROVE  PctToRaw(u) \in 0..RawMax
BY SMT DEF PctToRaw, Clamp, Full, Pct, RawStep, RawMax

\* A higher demand never takes a lower command.  About PctToRaw's rounding.
LEMMA PctToRawMonotone ==
  ASSUME NEW u \in Int, NEW v \in Int, u <= v
  PROVE  PctToRaw(u) <= PctToRaw(v)
BY SMT DEF PctToRaw, Clamp, Full, Pct, RawStep

\* A floor recorded from a raw value commands that raw value again, so apply's
\* comparison with the last command sees what was sent.  About RawToPct.
LEMMA RoundTrip ==
  ASSUME NEW r \in 0..RawMax
  PROVE  PctToRaw(RawToPct(r)) = r /\ RawToPct(r) \in 0..Full
BY SMT DEF PctToRaw, RawToPct, Clamp, Full, Pct, RawStep, RawMax

\* A command is at most half a PWM step off.
LEMMA RoundingError ==
  ASSUME NEW u \in 0..Full
  PROVE  /\ PctToRaw(u) \in Int /\ RawToPct(PctToRaw(u)) \in Int
         /\ RawToPct(PctToRaw(u)) - u \in (-9)..10
BY SMT DEF PctToRaw, RawToPct, Clamp, Full, Pct, RawStep

\* No PWM step is nearer to a demand than the one commanded.
LEMMA NearestStep ==
  ASSUME NEW u \in 0..Full, NEW r \in 0..RawMax
  PROVE  LET Off(s) == IF RawToPct(s) >= u THEN RawToPct(s) - u ELSE u - RawToPct(s)
         IN  Off(PctToRaw(u)) <= Off(r)
<1>1. /\ PctToRaw(u) \in Int
      /\ RawToPct(PctToRaw(u)) - u \in (-9)..10
  BY RoundingError
<1>2. CASE r <= PctToRaw(u) - 1
  BY <1>1, <1>2 DEF RawToPct, RawStep, RawMax, Full, Pct
<1>3. CASE r >= PctToRaw(u) + 1
  BY <1>1, <1>3 DEF RawToPct, RawStep, RawMax, Full, Pct
<1>4. CASE r = PctToRaw(u)
  BY <1>4, <1>1 DEF RawToPct, RawStep, Full, Pct
<1> QED
  <2> r \in Int
    BY DEF RawMax
  <2> QED BY <1>1, <1>2, <1>3, <1>4
-----------------------------------------------------------------------------
\* A set of naturals that is not empty has a least element.
LEMMA LeastNatural ==
  ASSUME NEW S \in SUBSET Nat, S # {}
  PROVE  \E x \in S : \A y \in S : x <= y
<1> DEFINE R == {ss \in Nat \X Nat : ss[1] < ss[2]}
<1>1. IsWellFoundedOn(R, Nat)
  BY NatLessThanWellFounded DEF OpToRel
<1>2. PICK x \in S : \A y \in S : <<y, x>> \notin R
  <2> HIDE DEF R
  <2> QED BY <1>1, WFMin
<1>3. \A y \in S : ~(y < x)
  BY <1>2
<1> QED
  BY <1>3

\* What the code may assume of a curve that Validate has accepted.
LEMMA PointsTyped ==
  ASSUME NEW points, ValidPoints(points)
  PROVE  /\ Len(points) \in Nat /\ Len(points) >= 2
         /\ \A i \in 1..Len(points) : points[i].temp \in Int /\ points[i].pct \in 0..Full
         /\ \A i, j \in 1..Len(points) :
              i < j => points[i].temp < points[j].temp /\ points[i].pct <= points[j].pct
<1> DEFINE P == [temp : Int, pct : 0..Full]
<1>1. /\ points \in Seq(P) /\ Len(points) >= 2
      /\ \A i, j \in 1..Len(points) :
           i < j => points[i].temp < points[j].temp /\ points[i].pct <= points[j].pct
  BY DEF ValidPoints
<1>2. Len(points) \in Nat /\ \A i \in 1..Len(points) : points[i] \in P
  <2> HIDE DEF P
  <2> QED BY <1>1, LenProperties, ElementOfSeq
<1> QED
  BY <1>1, <1>2

\* The same of two neighbouring points, and of the ends.
LEMMA PointsInOrder ==
  ASSUME NEW points, ValidPoints(points)
  PROVE  /\ Len(points) \in Nat /\ Len(points) >= 2
         /\ \A i \in 1..Len(points) : points[i].temp \in Int /\ points[i].pct \in Int
         /\ \A i, j \in 1..Len(points) :
              i <= j => points[i].temp <= points[j].temp /\ points[i].pct <= points[j].pct
         /\ \A i \in 2..Len(points) :
              /\ i - 1 \in 1..Len(points) /\ i \in 1..Len(points)
              /\ points[i - 1].temp < points[i].temp
              /\ points[i - 1].pct <= points[i].pct
<1>1. /\ Len(points) \in Nat /\ Len(points) >= 2
      /\ \A i \in 1..Len(points) : points[i].temp \in Int /\ points[i].pct \in 0..Full
      /\ \A i, j \in 1..Len(points) :
           i < j => points[i].temp < points[j].temp /\ points[i].pct <= points[j].pct
  BY PointsTyped
<1>2. \A i \in 1..Len(points) : points[i].temp \in Int /\ points[i].pct \in Int
  <2> \A x \in 0..Full : x \in Int
    BY DEF Full, Pct
  <2> QED BY <1>1
<1>3. ASSUME NEW i \in 1..Len(points), NEW j \in 1..Len(points), i <= j
      PROVE  points[i].temp <= points[j].temp /\ points[i].pct <= points[j].pct
  <2>1. CASE i = j
    BY <2>1, <1>2
  <2>2. CASE i < j
    BY <2>2, <1>1, <1>2
  <2> QED BY <2>1, <2>2, <1>3
<1>4. ASSUME NEW i \in 2..Len(points)
      PROVE  /\ i - 1 \in 1..Len(points) /\ i \in 1..Len(points)
             /\ points[i - 1].temp < points[i].temp
             /\ points[i - 1].pct <= points[i].pct
  <2>1. i - 1 \in 1..Len(points) /\ i \in 1..Len(points) /\ i - 1 < i
    BY <1>1
  <2> QED BY <2>1, <1>1
<1> QED
  BY <1>1, <1>2, <1>3, <1>4

\* Eval's scan stops: a temperature below the last point is in a segment, and
\* no earlier point is at or above it.
LEMMA SegmentIsFirst ==
  ASSUME NEW points, ValidPoints(points), NEW temp \in Int,
         points[1].temp < temp, temp <= points[Len(points)].temp
  PROVE  LET i == Segment(points, temp)
         IN  /\ i \in 2..Len(points)
             /\ temp <= points[i].temp
             /\ points[i - 1].temp < temp
<1> DEFINE Ends == {i \in 2..Len(points) : temp <= points[i].temp}
<1>1. Len(points) \in Nat /\ Len(points) >= 2
      /\ \A i \in 1..Len(points) : points[i].temp \in Int
  BY PointsTyped
<1>2. PICK i \in Ends : \A j \in Ends : i <= j
  <2>1. Len(points) \in Ends
    BY <1>1
  <2>2. Ends \in SUBSET Nat
    BY <1>1
  <2> HIDE DEF Ends
  <2> QED BY <2>1, <2>2, LeastNatural
<1>3. /\ i \in 2..Len(points)
      /\ temp <= points[i].temp
      /\ \A j \in 2..(i - 1) : points[j].temp < temp
  BY <1>1, <1>2
<1>4. /\ Segment(points, temp) \in 2..Len(points)
      /\ temp <= points[Segment(points, temp)].temp
      /\ \A j \in 2..(Segment(points, temp) - 1) : points[j].temp < temp
  BY <1>3 DEF Segment
<1> QED
  BY <1>1, <1>4

\* A value between two points is between their percentages, and rounded down
\* by less than a unit.  About the quotient in Eval.
LEMMA QuotientBounds ==
  ASSUME NEW a \in Nat, NEW b \in Nat, NEW d \in Nat, a <= d, 0 < d
  PROVE  /\ (a * b) \div d \in 0..b
         /\ a * b - ((a * b) \div d) * d \in 0..(d - 1)
<1> DEFINE q == (a * b) \div d
<1>1. a * b \in Nat /\ q \in Int /\ q * d \in Int /\ d * b \in Int
  BY SMT
<1>2. q * d <= a * b /\ a * b < q * d + d
  BY SMT
<1>3. a * b <= d * b
  BY SMT
<1>4. q <= b
  <2> SUFFICES ASSUME q >= b + 1 PROVE FALSE
    BY <1>1
  <2>1. q * d >= b * d + d
    <3> HIDE DEF q
    <3>1. q * d >= (b + 1) * d
      BY <1>1, SMT
    <3> QED BY <3>1, SMT
  <2> HIDE DEF q
  <2> QED BY <2>1, <1>1, <1>2, <1>3, SMT
<1>5. q >= 0
  <2> SUFFICES ASSUME q <= -1 PROVE FALSE
    BY <1>1
  <2>1. q * d <= -d
    <3> HIDE DEF q
    <3> QED BY <1>1, SMT
  <2> HIDE DEF q
  <2> QED BY <2>1, <1>1, <1>2, SMT
<1> QED
  BY <1>1, <1>2, <1>4, <1>5

\* A larger numerator does not give a smaller quotient.
LEMMA QuotientMonotone ==
  ASSUME NEW m \in Int, NEW n \in Int, NEW d \in Nat, 0 < d, m <= n
  PROVE  m \div d <= n \div d
BY SMT
-----------------------------------------------------------------------------
\* The chord between two points, in plain numbers.
LEMMA ChordBounds ==
  ASSUME NEW lt \in Int, NEW ht \in Int, NEW lp \in Int, NEW hp \in Int, NEW t \in Int,
         lt <= t, t <= ht, lt < ht, lp <= hp
  PROVE  LET v == lp + ((t - lt) * (hp - lp)) \div (ht - lt)
         IN  /\ v \in lp..hp
             /\ (t - lt) * (hp - lp) - (v - lp) * (ht - lt) \in 0..(ht - lt - 1)
<1> DEFINE a == t - lt
           b == hp - lp
           d == ht - lt
           q == (a * b) \div d
<1>1. a \in Nat /\ b \in Nat /\ d \in Nat /\ a <= d /\ 0 < d
  OBVIOUS
<1>2. q \in 0..b /\ a * b - q * d \in 0..(d - 1)
  <2> HIDE DEF a, b, d
  <2> QED BY <1>1, QuotientBounds
<1>3. lp + q \in lp..hp /\ (lp + q) - lp = q
  <2> HIDE DEF q
  <2> QED BY <1>2
<1> QED
  BY <1>2, <1>3

\* Within a segment the demand is between the percentages of its two points,
\* and on their chord to within the unit it is rounded down to.
LEMMA InterpolateBetween ==
  ASSUME NEW points, ValidPoints(points), NEW i \in 2..Len(points), NEW temp \in Int,
         points[i - 1].temp <= temp, temp <= points[i].temp
  PROVE  LET lo == points[i - 1]
             hi == points[i]
             v  == Interpolate(lo, hi, temp)
         IN  /\ v \in lo.pct..hi.pct
             /\ (temp - lo.temp) * (hi.pct - lo.pct) - (v - lo.pct) * (hi.temp - lo.temp)
                  \in 0..(hi.temp - lo.temp - 1)
<1>1. /\ points[i - 1].pct \in Int /\ points[i].pct \in Int
      /\ points[i - 1].temp \in Int /\ points[i].temp \in Int
      /\ points[i - 1].temp < points[i].temp
      /\ points[i - 1].pct <= points[i].pct
  BY PointsInOrder
<1> QED
  BY <1>1, ChordBounds DEF Interpolate

\* Inside one segment a hotter reading demands no less.
LEMMA InterpolateMonotone ==
  ASSUME NEW points, ValidPoints(points), NEW i \in 2..Len(points),
         NEW t \in Int, NEW u \in Int, t <= u
  PROVE  Interpolate(points[i - 1], points[i], t) <= Interpolate(points[i - 1], points[i], u)
<1> DEFINE lo == points[i - 1]
           hi == points[i]
<1>1. /\ lo.pct \in Int /\ hi.pct \in Int /\ lo.temp \in Int /\ hi.temp \in Int
      /\ lo.temp < hi.temp /\ lo.pct <= hi.pct
  BY PointsInOrder
<1> DEFINE m == (t - lo.temp) * (hi.pct - lo.pct)
           n == (u - lo.temp) * (hi.pct - lo.pct)
           d == hi.temp - lo.temp
<1>2. m \in Int /\ n \in Int /\ m <= n /\ d \in Nat /\ 0 < d
  <2> HIDE DEF lo, hi
  <2>1. \A x, y, b \in Int : 0 <= b /\ x <= y => x * b <= y * b
    BY SMT
  <2>2. \A x, y \in Int : x * y \in Int
    BY SMT
  <2>3. /\ t - lo.temp \in Int /\ u - lo.temp \in Int /\ t - lo.temp <= u - lo.temp
        /\ hi.pct - lo.pct \in Int /\ 0 <= hi.pct - lo.pct
        /\ d \in Nat /\ 0 < d
    BY <1>1
  <2> QED BY <2>1, <2>2, <2>3
<1>3. m \div d <= n \div d /\ m \div d \in Int /\ n \div d \in Int
  <2> HIDE DEF m, n, d
  <2> QED BY <1>2, QuotientMonotone
<1>4. lo.pct + m \div d <= lo.pct + n \div d
  <2> HIDE DEF m, n, d, lo
  <2> QED BY <1>1, <1>3
<1> QED
  BY <1>4 DEF Interpolate

\* The three ways Eval returns.
LEMMA EvalCases ==
  ASSUME NEW points, ValidPoints(points), NEW temp \in Int
  PROVE  \/ temp <= points[1].temp /\ Eval(points, temp) = points[1].pct
         \/ /\ temp > points[1].temp /\ temp >= points[Len(points)].temp
            /\ Eval(points, temp) = points[Len(points)].pct
         \/ \E i \in 2..Len(points) :
              /\ points[i - 1].temp < temp /\ temp <= points[i].temp
              /\ Eval(points, temp) = Interpolate(points[i - 1], points[i], temp)
<1>1. /\ Len(points) \in Nat /\ Len(points) > 0
      /\ points[1].temp \in Int /\ points[Len(points)].temp \in Int
  BY PointsTyped
<1>2. CASE temp <= points[1].temp
  BY <1>1, <1>2 DEF Eval
<1>3. CASE temp > points[1].temp /\ temp >= points[Len(points)].temp
  BY <1>1, <1>3 DEF Eval
<1>4. CASE temp > points[1].temp /\ temp < points[Len(points)].temp
  <2>1. Eval(points, temp) = LET i == Segment(points, temp)
                             IN  Interpolate(points[i - 1], points[i], temp)
    BY <1>1, <1>4 DEF Eval
  <2>2. /\ Segment(points, temp) \in 2..Len(points)
        /\ temp <= points[Segment(points, temp)].temp
        /\ points[Segment(points, temp) - 1].temp < temp
    BY <1>1, <1>4, SegmentIsFirst
  <2> QED BY <2>1, <2>2
<1> QED
  BY <1>1, <1>2, <1>3, <1>4
-----------------------------------------------------------------------------
(***************************************************************************)
(* The demand of every curve, at every temperature, is between its first   *)
(* and its last percentage: a wild reading cannot drive it outside them.   *)
(***************************************************************************)
THEOREM EvalBetweenEnds ==
  ASSUME NEW points, ValidPoints(points), NEW temp \in Int
  PROVE  /\ Eval(points, temp) \in points[1].pct..points[Len(points)].pct
         /\ Eval(points, temp) \in 0..Full
<1>1. /\ Len(points) \in Nat /\ Len(points) >= 2
      /\ 1 \in 1..Len(points) /\ Len(points) \in 1..Len(points)
      /\ \A i \in 1..Len(points) : points[i].temp \in Int /\ points[i].pct \in Int
      /\ \A i \in 1..Len(points) : points[1].pct <= points[i].pct
                                 /\ points[i].pct <= points[Len(points)].pct
      /\ 0 <= points[1].pct /\ points[Len(points)].pct <= Full
  <2>1. Len(points) \in Nat /\ 1 \in 1..Len(points) /\ Len(points) \in 1..Len(points)
    BY PointsTyped
  <2> QED BY <2>1, PointsTyped, PointsInOrder
<1>2. PICK k, l \in 1..Len(points) : Eval(points, temp) \in points[k].pct..points[l].pct
  <2>1. CASE Eval(points, temp) = points[1].pct
    BY <2>1, <1>1
  <2>2. CASE Eval(points, temp) = points[Len(points)].pct
    BY <2>2, <1>1
  <2>3. CASE \E i \in 2..Len(points) :
               /\ points[i - 1].temp < temp /\ temp <= points[i].temp
               /\ Eval(points, temp) = Interpolate(points[i - 1], points[i], temp)
    <3>1. PICK i \in 2..Len(points) :
               /\ points[i - 1].temp < temp /\ temp <= points[i].temp
               /\ Eval(points, temp) = Interpolate(points[i - 1], points[i], temp)
      BY <2>3
    <3>2. i - 1 \in 1..Len(points) /\ i \in 1..Len(points)
      BY PointsInOrder
    <3>3. points[i - 1].temp <= temp
      BY <3>1, <3>2, <1>1
    <3>4. Eval(points, temp) \in points[i - 1].pct..points[i].pct
      BY <3>1, <3>3, InterpolateBetween
    <3> QED BY <3>2, <3>4
  <2> QED BY <2>1, <2>2, <2>3, EvalCases
<1>3. Eval(points, temp) \in points[1].pct..points[Len(points)].pct
  BY <1>1, <1>2
<1>4. Full \in Int
  BY DEF Full, Pct
<1> QED
  BY <1>1, <1>3, <1>4

(***************************************************************************)
(* A hotter reading never demands less, on every curve and across all its  *)
(* segments: the order of the scan and the joints between segments do not  *)
(* matter.                                                                 *)
(***************************************************************************)
THEOREM EvalMonotone ==
  ASSUME NEW points, ValidPoints(points), NEW t \in Int, NEW u \in Int, t <= u
  PROVE  Eval(points, t) <= Eval(points, u)
<1> DEFINE N == Len(points)
           In(i, x) == points[i - 1].temp < x /\ x <= points[i].temp
           V(i, x) == Interpolate(points[i - 1], points[i], x)
<1>1. /\ N \in Nat /\ N >= 2
      /\ \A i \in 1..N : points[i].temp \in Int /\ points[i].pct \in Int
      /\ \A i, j \in 1..N : i <= j => points[i].temp <= points[j].temp
                                  /\ points[i].pct <= points[j].pct
  BY PointsInOrder
<1>2. /\ Eval(points, t) \in points[1].pct..points[N].pct
      /\ Eval(points, u) \in points[1].pct..points[N].pct
  BY EvalBetweenEnds
<1>3. CASE t <= points[1].temp /\ Eval(points, t) = points[1].pct
  BY <1>1, <1>2, <1>3
<1>4. CASE u >= points[N].temp /\ Eval(points, u) = points[N].pct
  BY <1>1, <1>2, <1>4
<1>5. CASE t >= points[N].temp /\ t > points[1].temp
  <2>1. u >= points[N].temp /\ u > points[1].temp
    BY <1>1, <1>5
  <2>2. Eval(points, u) = points[N].pct
    BY <2>1, <1>1 DEF Eval
  <2> QED BY <2>1, <2>2, <1>4
<1>6. CASE \E i, j \in 2..N : In(i, t) /\ In(j, u) /\ Eval(points, t) = V(i, t)
                                                /\ Eval(points, u) = V(j, u)
  <2>1. PICK i, j \in 2..N : In(i, t) /\ In(j, u) /\ Eval(points, t) = V(i, t)
                                               /\ Eval(points, u) = V(j, u)
    BY <1>6
  <2>2. CASE i = j
    BY <2>1, <2>2, InterpolateMonotone
  <2>3. CASE i < j
    <3>1. i \in 1..N /\ j - 1 \in 1..N /\ i <= j - 1 /\ j \in 1..N /\ i - 1 \in 1..N
      BY <2>3, <1>1
    <3>2. points[i - 1].temp <= t /\ points[j - 1].temp <= u
      BY <2>1, <3>1, <1>1
    <3>3. V(i, t) \in points[i - 1].pct..points[i].pct
      BY <2>1, <3>2, InterpolateBetween
    <3>4. V(j, u) \in points[j - 1].pct..points[j].pct
      BY <2>1, <3>2, InterpolateBetween
    <3>5. /\ points[i].pct <= points[j - 1].pct
          /\ points[i].pct \in Int /\ points[j - 1].pct \in Int
          /\ points[i - 1].pct \in Int /\ points[j].pct \in Int
      BY <3>1, <1>1
    <3> HIDE DEF V
    <3> QED BY <2>1, <3>3, <3>4, <3>5
  <2>4. CASE j < i
    <3>1. j \in 1..N /\ i - 1 \in 1..N /\ j <= i - 1
      BY <2>4, <1>1
    <3>2. points[j].temp <= points[i - 1].temp /\ points[j].temp \in Int
          /\ points[i - 1].temp \in Int
      BY <3>1, <1>1
    <3> QED BY <3>2, <2>1
  <2> QED BY <2>2, <2>3, <2>4, <1>1
<1>7. CASE u <= points[1].temp /\ Eval(points, u) = points[1].pct
  <2>1. t <= points[1].temp
    BY <1>7, <1>1
  <2>2. Eval(points, t) = points[1].pct
    BY <2>1, <1>1 DEF Eval
  <2> QED BY <2>1, <2>2, <1>3
<1> QED
  <2>1. \/ t <= points[1].temp /\ Eval(points, t) = points[1].pct
        \/ t > points[1].temp /\ t >= points[N].temp
        \/ \E i \in 2..N : In(i, t) /\ Eval(points, t) = V(i, t)
    BY EvalCases
  <2>2. \/ u <= points[1].temp /\ Eval(points, u) = points[1].pct
        \/ u >= points[N].temp /\ Eval(points, u) = points[N].pct
        \/ \E i \in 2..N : In(i, u) /\ Eval(points, u) = V(i, u)
    BY EvalCases
  <2> HIDE DEF V, In
  <2> QED BY <2>1, <2>2, <1>3, <1>4, <1>5, <1>6, <1>7

\* The joint of two segments belongs to both.
LEMMA InterpolateAtUpperEnd ==
  ASSUME NEW points, ValidPoints(points), NEW i \in 2..Len(points)
  PROVE  Interpolate(points[i - 1], points[i], points[i].temp) = points[i].pct
<1> DEFINE lo == points[i - 1]
           hi == points[i]
<1>1. /\ lo.pct \in Int /\ hi.pct \in Int /\ lo.temp \in Int /\ hi.temp \in Int
      /\ lo.temp < hi.temp /\ lo.pct <= hi.pct
  BY PointsInOrder
<1>2. \A b, d \in Nat : 0 < d => (d * b) \div d = b
  BY SMT
<1>3. hi.temp - lo.temp \in Nat /\ hi.pct - lo.pct \in Nat /\ 0 < hi.temp - lo.temp
  BY <1>1
<1>4. ((hi.temp - lo.temp) * (hi.pct - lo.pct)) \div (hi.temp - lo.temp) = hi.pct - lo.pct
  <2> HIDE DEF lo, hi
  <2> QED BY <1>2, <1>3
<1>5. lo.pct + (hi.pct - lo.pct) = hi.pct
  BY <1>1
<1> QED
  BY <1>4, <1>5 DEF Interpolate

(***************************************************************************)
(* The demand is on the chord of every segment the temperature is in, to   *)
(* within the unit it is rounded down to: the scan stops in the right one. *)
(***************************************************************************)
THEOREM EvalOnTheCurve ==
  ASSUME NEW points, ValidPoints(points), NEW temp \in Int, NEW i \in 2..Len(points),
         points[i - 1].temp <= temp, temp <= points[i].temp
  PROVE  LET lo == points[i - 1]
             hi == points[i]
         IN  (temp - lo.temp) * (hi.pct - lo.pct)
               - (Eval(points, temp) - lo.pct) * (hi.temp - lo.temp)
             \in 0..(hi.temp - lo.temp - 1)
<1> DEFINE N == Len(points)
           lo == points[i - 1]
           hi == points[i]
           rise(v) == (temp - lo.temp) * (hi.pct - lo.pct) - (v - lo.pct) * (hi.temp - lo.temp)
<1>1. /\ N \in Nat /\ N >= 2 /\ i - 1 \in 1..N /\ i \in 1..N
      /\ \A k \in 1..N : points[k].temp \in Int /\ points[k].pct \in Int
      /\ lo.temp < hi.temp /\ lo.pct <= hi.pct
  BY PointsInOrder
<1>2. \A k, l \in 1..N : k < l => points[k].temp < points[l].temp
  BY PointsTyped
<1>3. CASE temp = lo.temp /\ Eval(points, temp) = lo.pct
  <2>1. rise(lo.pct) = 0
    <3>1. temp - lo.temp = 0 /\ lo.pct - lo.pct = 0
      BY <1>1, <1>3
    <3>2. \A x \in Int : 0 * x = 0
      BY SMT
    <3>3. hi.pct - lo.pct \in Int /\ hi.temp - lo.temp \in Int
      BY <1>1
    <3> QED BY <3>1, <3>2, <3>3
  <2>2. hi.temp - lo.temp - 1 \in Nat
    BY <1>1
  <2> QED BY <2>1, <2>2, <1>3
<1>4. CASE temp = hi.temp /\ Eval(points, temp) = hi.pct
  <2>1. rise(hi.pct) = 0
    <3>1. \A x, y \in Int : x * y - y * x = 0
      BY SMT
    <3>2. hi.pct - lo.pct \in Int /\ hi.temp - lo.temp \in Int
      BY <1>1
    <3> QED BY <3>1, <3>2, <1>4
  <2>2. hi.temp - lo.temp - 1 \in Nat
    BY <1>1
  <2> QED BY <2>1, <2>2, <1>4
<1>5. CASE temp <= points[1].temp /\ Eval(points, temp) = points[1].pct
  <2>1. i - 1 = 1
    <3> SUFFICES ASSUME 1 < i - 1 PROVE FALSE
      BY <1>1
    <3>1. 1 \in 1..N /\ points[1].temp < lo.temp
      BY <1>1, <1>2
    <3> QED BY <3>1, <1>5, <1>1
  <2>2. temp = lo.temp
    BY <2>1, <1>1, <1>5
  <2> QED BY <2>1, <2>2, <1>5, <1>3
<1>6. CASE temp >= points[N].temp /\ Eval(points, temp) = points[N].pct
  <2>1. i = N
    <3> SUFFICES ASSUME i < N PROVE FALSE
      BY <1>1
    <3>1. N \in 1..N /\ hi.temp < points[N].temp
      BY <1>1, <1>2
    <3> QED BY <3>1, <1>6, <1>1
  <2>2. temp = hi.temp
    BY <2>1, <1>1, <1>6
  <2> QED BY <2>1, <2>2, <1>6, <1>4
<1>7. ASSUME NEW j \in 2..N, points[j - 1].temp < temp, temp <= points[j].temp,
             Eval(points, temp) = Interpolate(points[j - 1], points[j], temp)
      PROVE  rise(Eval(points, temp)) \in 0..(hi.temp - lo.temp - 1)
  <2>1. j - 1 \in 1..N /\ j \in 1..N
    BY <1>1
  <2>2. CASE j = i
    BY <1>7, <2>2, InterpolateBetween
  <2>3. CASE j = i - 1
    <3>1. temp = points[j].temp
      BY <1>7, <2>3, <2>1, <1>1
    <3>2. Eval(points, temp) = points[j].pct
      BY <1>7, <3>1, InterpolateAtUpperEnd
    <3> QED BY <3>1, <3>2, <2>3, <1>3
  <2>4. CASE j < i - 1
    <3>1. points[j].temp < lo.temp
      BY <2>4, <2>1, <1>1, <1>2
    <3> QED BY <3>1, <1>7, <2>1, <1>1
  <2>5. CASE j > i
    <3>1. i <= j - 1
      BY <2>5, <2>1, <1>1
    <3>2. points[i].temp <= points[j - 1].temp
      BY <3>1, <2>1, <1>1, PointsInOrder
    <3>3. /\ points[i].temp \in Int /\ points[j - 1].temp \in Int
          /\ points[j - 1].temp < temp /\ temp <= points[i].temp
      BY <1>7, <2>1, <1>1
    <3> QED BY <3>2, <3>3
  <2> QED BY <2>2, <2>3, <2>4, <2>5, <1>1
<1> QED
  BY <1>5, <1>6, <1>7, EvalCases
=============================================================================
