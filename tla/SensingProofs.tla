---------------------------- MODULE SensingProofs ----------------------------
(***************************************************************************)
(* What holds of the sensor half of a cycle for any groups, sources,       *)
(* temperatures and configurations: some of it whoever reloads, the rest   *)
(* when only the watcher does.                                             *)
(***************************************************************************)
EXTENDS Sensing, SequenceTheorems, FiniteSetTheorems, WellFoundedInduction, TLAPS

WatcherOnly == "hup" \notin Reloaders

LEMMA LeastOf ==
  ASSUME NEW S \in SUBSET Nat, S # {}
  PROVE  \E x \in S : \A y \in S : x <= y
<1> DEFINE R == {ss \in Nat \X Nat : ss[1] < ss[2]}
<1>1. IsWellFoundedOn(R, Nat)
  BY NatLessThanWellFounded DEF OpToRel
<1>2. PICK x \in S : \A y \in S : <<y, x>> \notin R
  <2> HIDE DEF R
  <2> QED BY <1>1, WFMin
<1>3. \A y \in S : ~(y < x)
  BY <1>2
<1> QED
  BY <1>3

\* The longest time from one cycle to the next.
LEMMA LongestGap ==
  Max(Elapsed) \in Nat /\ \A e \in Elapsed : e \in Nat /\ e <= MaxAge /\ e <= Max(Elapsed)
<1> DEFINE T == {MaxAge - e : e \in Elapsed}
<1>1. MaxAge \in Nat /\ Elapsed \subseteq 0..MaxAge /\ Elapsed # {}
  BY SensingAssumption
<1>2. T \in SUBSET Nat /\ T # {}
  <2>1. \A e \in Elapsed : MaxAge - e \in Nat
    BY <1>1
  <2>2. T \subseteq Nat
    BY <2>1
  <2>3. PICK e \in Elapsed : TRUE
    BY <1>1
  <2>4. MaxAge - e \in T
    OBVIOUS
  <2> QED BY <2>2, <2>4
<1>3. PICK t \in T : \A u \in T : t <= u
  <2> HIDE DEF T
  <2> QED BY <1>2, LeastOf
<1>4. PICK m \in Elapsed : t = MaxAge - m
  BY <1>3
<1>5. \A e \in Elapsed : m >= e
  BY <1>1, <1>3, <1>4
<1>6. /\ Max(Elapsed) \in Elapsed
      /\ \A e \in Elapsed : Max(Elapsed) >= e
  BY <1>5 DEF Max
<1> HIDE DEF T
<1>7. \A e \in Elapsed : e \in 0..MaxAge
  BY <1>1
<1>8. \A e \in Elapsed : e \in Nat /\ e <= MaxAge
  BY <1>1, <1>7
<1> QED
  BY <1>6, <1>8

\* What Validate grants of a configuration.
LEMMA ConfigsValid ==
  ASSUME NEW c \in Configs
  PROVE  /\ DOMAIN c.sensors \subseteq Group
         /\ \A g \in DOMAIN c.sensors : c.sensors[g].sources \subseteq Source
         /\ c.hold \in Int /\ (c.action = "hold_last" => c.hold > 0)
  BY SensingAssumption DEF ValidSensors
-----------------------------------------------------------------------------
(***************************************************************************)
(* What the readings of a group amount to.                                 *)
(***************************************************************************)
\* The fold of the mean takes the readings one by one; Total is what it is of
\* each set of them, given what it is of smaller ones.
First(s) == CHOOSE x \in s : TRUE
Total(F, s) == IF s = {} THEN 0 ELSE Celsius(First(s)) + F[s \ {First(s)}]
UpTo(S, n) == {s \in SUBSET S : Cardinality(s) <= n}

\* Taking one reading away.
LEMMA WithoutFirst ==
  ASSUME NEW s, IsFiniteSet(s), s # {}
  PROVE  /\ First(s) \in s /\ IsFiniteSet(s \ {First(s)})
         /\ Cardinality(s) \in Nat /\ Cardinality(s) > 0
         /\ Cardinality(s \ {First(s)}) = Cardinality(s) - 1
<1>1. First(s) \in s
  BY DEF First
<1>2. Cardinality(s) \in Nat /\ Cardinality(s) > 0
  BY FS_CardinalityType, FS_EmptySet
<1> QED
  BY <1>1, <1>2, FS_RemoveElement

LEMMA TotalsExist ==
  ASSUME NEW S, IsFiniteSet(S), NEW n \in Nat
  PROVE  \E F : F = [s \in UpTo(S, n) |-> Total(F, s)]
<1> DEFINE Bad == {m \in Nat : ~\E F : F = [s \in UpTo(S, m) |-> Total(F, s)]}
<1> SUFFICES Bad = {}
  OBVIOUS
<1> SUFFICES ASSUME Bad # {} PROVE FALSE
  OBVIOUS
<1>1. PICK m \in Bad : \A k \in Bad : m <= k
  <2>1. Bad \in SUBSET Nat
    OBVIOUS
  <2> HIDE DEF Bad
  <2> QED BY <2>1, LeastOf
<1>2. m \in Nat
  OBVIOUS
<1>3. \A s \in SUBSET S : IsFiniteSet(s) /\ Cardinality(s) \in Nat
  BY FS_Subset, FS_CardinalityType
<1>4. m # 0
  <2>1. ASSUME NEW s \in UpTo(S, 0) PROVE s = {}
    <3>1. IsFiniteSet(s) /\ Cardinality(s) \in Nat /\ Cardinality(s) <= 0
      BY <1>3 DEF UpTo
    <3> QED BY <3>1, FS_EmptySet
  <2> DEFINE F == [s \in UpTo(S, 0) |-> 0]
  <2>2. F = [s \in UpTo(S, 0) |-> Total(F, s)]
    BY <2>1 DEF Total
  <2>3. 0 \notin Bad
    BY <2>2
  <2> QED BY <1>1, <2>3
<1>5. m - 1 \in Nat /\ m - 1 \notin Bad
  BY <1>1, <1>2, <1>4
<1>6. PICK F : F = [s \in UpTo(S, m - 1) |-> Total(F, s)]
  BY <1>5
<1> DEFINE G == [s \in UpTo(S, m) |-> Total(F, s)]
<1>7. ASSUME NEW s \in UpTo(S, m - 1)
      PROVE  s \in UpTo(S, m) /\ G[s] = F[s]
  <2>1. s \in UpTo(S, m)
    BY <1>2, <1>3 DEF UpTo
  <2>2. F[s] = Total(F, s)
    BY <1>6
  <2> QED BY <2>1, <2>2
<1>8. ASSUME NEW s \in UpTo(S, m)
      PROVE  Total(F, s) = Total(G, s)
  <2>1. CASE s = {}
    BY <2>1 DEF Total
  <2>2. CASE s # {}
    <3>1. s \ {First(s)} \in UpTo(S, m - 1)
      BY <1>2, <1>3, <2>2, WithoutFirst DEF UpTo
    <3> HIDE DEF G
    <3> QED BY <1>7, <3>1 DEF Total
  <2> QED BY <2>1, <2>2
<1>9. G = [s \in UpTo(S, m) |-> Total(G, s)]
  <2> DEFINE H == [s \in UpTo(S, m) |-> Total(G, s)]
  <2>1. \A s \in UpTo(S, m) : G[s] = H[s]
    BY <1>8
  <2>2. G = [s \in UpTo(S, m) |-> G[s]] /\ H = [s \in UpTo(S, m) |-> H[s]]
    OBVIOUS
  <2> HIDE DEF G, H
  <2>3. G = H
    BY <2>1, <2>2
  <2> QED BY <2>3 DEF H
<1> HIDE DEF G
<1>10. m \notin Bad
  BY <1>9
<1> QED
  BY <1>1, <1>10

LEMMA SumUnfolds ==
  ASSUME NEW S, IsFiniteSet(S)
  PROVE  \E F : /\ MapThenSumSet(Celsius, S) = F[S]
                /\ \A s \in SUBSET S : F[s] = Total(F, s)
<1> DEFINE n == Cardinality(S)
<1>1. n \in Nat /\ UpTo(S, n) = SUBSET S
  BY FS_Subset, FS_CardinalityType DEF UpTo
<1>2. PICK F : F = [s \in SUBSET S |-> Total(F, s)]
  <2> HIDE DEF n
  <2>1. \E F : F = [s \in UpTo(S, n) |-> Total(F, s)]
    BY <1>1, TotalsExist
  <2> QED BY <1>1, <2>1
<1>3. \E F1 : /\ F1 = [s \in SUBSET S |-> Total(F1, s)]
             /\ MapThenSumSet(Celsius, S) = F1[S]
  BY <1>2 DEF MapThenSumSet, MapThenFoldSet, Total, First
<1> QED
  BY <1>3

\* A whole quotient of what lies between two multiples.
LEMMA QuotientWithin ==
  ASSUME NEW n \in Nat, n > 0, NEW x \in Int, NEW lo \in Int, NEW hi \in Int,
         n * lo <= x, x <= n * hi
  PROVE  x \div n \in lo..hi
<1> DEFINE q == x \div n
<1>1. q \in Int /\ n * q <= x /\ x < n * q + n
  BY Z3
<1> HIDE DEF q
<1>2. n * q \in Int /\ n * lo \in Int /\ n * hi \in Int /\ n * (q + 1) = n * q + n
  BY <1>1
<1>3. n * lo < n * (q + 1) /\ n * q <= n * hi
  BY <1>1, <1>2
<1>4. \A a, b \in Int : n * a < n * b => a < b
  BY Z3
<1>5. lo < q + 1
  BY <1>1, <1>3, <1>4
<1>6. q <= hi
  <2>1. n * (hi + 1) = n * hi + n
    OBVIOUS
  <2>2. n * q < n * (hi + 1)
    BY <1>2, <1>3, <2>1
  <2>3. q < hi + 1
    BY <1>1, <1>4, <2>2
  <2> QED BY <1>1, <2>3
<1> QED
  BY <1>1, <1>5, <1>6 DEF q

\* A mean lies between the bounds of what it is a mean of.
LEMMA MeanBetween ==
  ASSUME NEW S, IsFiniteSet(S), S # {}, NEW lo \in Int, NEW hi \in Int,
         \A r \in S : Celsius(r) \in lo..hi
  PROVE  MapThenSumSet(Celsius, S) \div Cardinality(S) \in lo..hi
<1>1. PICK F : /\ MapThenSumSet(Celsius, S) = F[S]
               /\ \A s \in SUBSET S : F[s] = Total(F, s)
  BY SumUnfolds
<1> DEFINE Card(s) == Cardinality(s)
           Within(s) == F[s] \in Int /\ Card(s) * lo <= F[s] /\ F[s] <= Card(s) * hi
           Bad == {n \in Nat : \E s \in SUBSET S : Card(s) = n /\ ~Within(s)}
<1>2. \A s \in SUBSET S : IsFiniteSet(s) /\ Card(s) \in Nat
  BY FS_Subset, FS_CardinalityType
<1>3. Bad = {}
  <2> SUFFICES ASSUME Bad # {} PROVE FALSE
    OBVIOUS
  <2>1. PICK n \in Bad : \A k \in Bad : n <= k
    <3>1. Bad \in SUBSET Nat
      OBVIOUS
    <3> HIDE DEF Bad
    <3> QED BY <3>1, LeastOf
  <2>2. PICK s \in SUBSET S : Card(s) = n /\ ~Within(s)
    OBVIOUS
  <2>3. s # {}
    <3> SUFFICES ASSUME s = {} PROVE FALSE
      OBVIOUS
    <3>1. F[s] = 0 /\ Card(s) = 0
      BY <1>1, FS_EmptySet DEF Total
    <3> QED BY <2>2, <3>1
  <2> DEFINE t == s \ {First(s)}
             x == Celsius(First(s))
  <2>4. /\ First(s) \in s /\ t \in SUBSET S /\ Card(t) = n - 1 /\ n > 0 /\ n \in Nat
    BY <1>2, <2>2, <2>3, WithoutFirst
  <2>5. F[s] = x + F[t]
    BY <1>1, <2>3 DEF Total
  <2>6. Within(t)
    <3>1. n - 1 \in Nat /\ n - 1 \notin Bad
      BY <2>1, <2>4
    <3> QED BY <2>4, <3>1
  <2>7. x \in lo..hi
    BY <2>4
  <2>8. F[t] \in Int /\ (n - 1) * lo <= F[t] /\ F[t] <= (n - 1) * hi
    BY <2>4, <2>6
  <2>9. (n - 1) * lo = n * lo - lo /\ (n - 1) * hi = n * hi - hi
    BY <2>4
  <2> HIDE DEF t, x
  <2>10. n * lo \in Int /\ n * hi \in Int
    BY <2>4
  <2>11. F[s] \in Int /\ n * lo <= F[s] /\ F[s] <= n * hi
    BY <2>5, <2>7, <2>8, <2>9, <2>10
  <2> QED BY <2>2, <2>11
<1>4. Within(S)
  <2>1. Card(S) \in Nat /\ Card(S) \notin Bad
    BY <1>2, <1>3
  <2> QED BY <2>1
<1>5. Card(S) \in Nat /\ Card(S) > 0
  BY FS_CardinalityType, FS_EmptySet
<1> HIDE DEF Card
<1> QED
  BY <1>1, <1>4, <1>5, QuotientWithin DEF Card
-----------------------------------------------------------------------------
(***************************************************************************)
(* The position of a sweep.                                                *)
(***************************************************************************)

\* The result of g is still to come off the channel.
Unresolved(g) == g \in pending \/ \E i \in 1..Len(landed) : landed[i].group = g

\* A result is of a group of the captured config that has been collected, with
\* nothing in it that was not read; with no readings it has an error.
CollectInv ==
  /\ pc \in {"idle", "sweeping"} /\ myCfg \in Configs /\ cfg \in Configs
  /\ pending \subseteq DOMAIN myCfg.sensors
  /\ landed \in Seq(Result) /\ read \in [Group -> Readings]
  /\ pc = "idle" => pending = {} /\ landed = <<>>
  /\ \A i \in 1..Len(landed) :
       LET res == landed[i]
       IN /\ res.group \in DOMAIN myCfg.sensors \ pending
          /\ res.readings \subseteq read[res.group]
          /\ ~res.err => res.readings # {}

\* A reload of the watcher does not overtake a sweep.
SweepInv == CollectInv /\ (pc = "sweeping" => myCfg = cfg)

LEMMA SweepInit == Init => SweepInv
<1> SUFFICES ASSUME Init PROVE SweepInv
  OBVIOUS
<1>1. Initial \in Configs
  BY SensingAssumption
<1>2. read \in [Group -> Readings] /\ landed \in Seq(Result) /\ Len(landed) = 0
  BY DEF Init, NoReadings, Readings
<1> QED
  BY <1>1, <1>2 DEF Init, SweepInv, CollectInv

LEMMA BeginSweep ==
  ASSUME CollectInv, NEW e \in Elapsed, BeginCycle(e)
  PROVE  CollectInv' /\ \A g \in DOMAIN cfg.sensors : Unresolved(g)'
<1>1. read' \in [Group -> Readings] /\ landed' \in Seq(Result) /\ Len(landed') = 0
  BY DEF BeginCycle, NoReadings, Readings
<1> QED
  BY <1>1 DEF CollectInv, BeginCycle, Unresolved

LEMMA CollectSweep ==
  ASSUME CollectInv, NEW g \in Group, Collect(g)
  PROVE  /\ CollectInv' /\ Unresolved(g)' /\ cfg' = cfg /\ \A h : Unresolved(h) => Unresolved(h)'
         /\ \A h \in Group \ {g} : read'[h] = read[h]
<1>1. g \in pending /\ g \in DOMAIN myCfg.sensors /\ pending' = pending \ {g} /\ pc = "sweeping"
  BY DEF CollectInv, Collect
<1> DEFINE s == myCfg.sensors[g]
<1>2. PICK found \in [s.sources -> Temps \cup {Dead, Gone}] :
        /\ landed' = Append(landed, ResultOf(g, s, found))
        /\ read' = [read EXCEPT ![g] = ReadingsOf(s, found)]
  BY DEF Collect
<1> DEFINE res == ResultOf(g, s, found)
<1>3. ReadingsOf(s, found) \in Readings
  <2>1. s.sources \subseteq Source
    BY <1>1, ConfigsValid DEF CollectInv
  <2> QED BY <2>1 DEF ReadingsOf, Readings
<1>4. /\ res \in Result /\ res.group = g /\ res.readings \subseteq ReadingsOf(s, found)
  BY <1>3 DEF ResultOf, Result, Readings, CollectFails
<1>5. ~res.err => res.readings # {}
  <2> SUFFICES ASSUME ~CollectFails(s, found)
               PROVE  ReadingsOf(s, found) # {}
    BY DEF ResultOf
  <2>1. PICK x \in Expected(s, found) : found[x] \in Temps
    BY DEF CollectFails
  <2>2. x \in s.sources
    BY DEF Expected
  <2>3. <<x, found[x]>> \in ReadingsOf(s, found)
    BY <2>1, <2>2 DEF ReadingsOf
  <2> QED BY <2>3
<1>6. /\ landed' \in Seq(Result) /\ Len(landed') = Len(landed) + 1
      /\ \A i \in 1..Len(landed) : landed'[i] = landed[i]
      /\ landed'[Len(landed) + 1] = res
      /\ Len(landed) \in Nat
  <2> HIDE DEF res
  <2>1. landed \in Seq(Result) /\ res \in Result /\ landed' = Append(landed, res)
    BY <1>2, <1>4 DEF CollectInv, res
  <2> QED BY <2>1, AppendProperties, LenProperties
<1>7. /\ read' \in [Group -> Readings] /\ read'[g] = ReadingsOf(s, found)
      /\ \A h \in Group \ {g} : read'[h] = read[h]
  BY <1>2, <1>3 DEF CollectInv
<1>8. /\ Unresolved(g)' /\ \A h : Unresolved(h) => Unresolved(h)'
  BY <1>1, <1>4, <1>6 DEF Unresolved
<1>9. ASSUME NEW i \in 1..Len(landed')
      PROVE  /\ landed'[i].group \in DOMAIN myCfg.sensors \ pending'
             /\ landed'[i].readings \subseteq read'[landed'[i].group]
             /\ ~landed'[i].err => landed'[i].readings # {}
  <2> HIDE DEF res
  <2>1. CASE i = Len(landed) + 1
    BY <2>1, <1>1, <1>4, <1>5, <1>6, <1>7
  <2>2. CASE i \in 1..Len(landed)
    <3>1. landed[i].group \in DOMAIN myCfg.sensors \ pending /\ landed[i].group # g
      BY <2>2, <1>1 DEF CollectInv
    <3>2. landed[i].group \in Group
      BY <3>1, ConfigsValid DEF CollectInv
    <3> QED BY <2>2, <3>1, <3>2, <1>1, <1>6, <1>7 DEF CollectInv
  <2> QED BY <2>1, <2>2, <1>6
<1> QED
  BY <1>1, <1>6, <1>7, <1>8, <1>9 DEF CollectInv, Collect, ctlVars

\* What comes off the channel, and that the other groups wait on.
LEMMA ResolveSweep ==
  ASSUME CollectInv, Resolve
  PROVE  /\ CollectInv' /\ cfg' = cfg /\ myCfg' = myCfg /\ read' = read
         /\ pc = "sweeping"
         /\ Head(landed) \in Result
         /\ Head(landed).group \in DOMAIN myCfg.sensors \ pending
         /\ Head(landed).readings \subseteq read[Head(landed).group]
         /\ ~Head(landed).err => Head(landed).readings # {}
         /\ \A h : h # Head(landed).group /\ Unresolved(h) => Unresolved(h)'
<1>1. /\ landed \in Seq(Result) /\ landed # <<>> /\ landed' = Tail(landed)
      /\ pending' = pending /\ myCfg' = myCfg /\ cfg' = cfg /\ read' = read /\ pc' = pc
  BY DEF CollectInv, Resolve
<1>2. /\ Len(landed) \in Nat /\ Len(landed) >= 1 /\ Len(landed') = Len(landed) - 1
      /\ landed' \in Seq(Result) /\ Head(landed) = landed[1] /\ landed[1] \in Result
      /\ \A i \in 1..Len(landed') : landed'[i] = landed[i + 1]
  BY <1>1, HeadTailProperties, EmptySeq, LenProperties, ElementOfSeq
<1>3. pc = "sweeping"
  BY <1>1 DEF CollectInv
<1>4. \A h : h # Head(landed).group /\ Unresolved(h) => Unresolved(h)'
  <2> SUFFICES ASSUME NEW h, h # Head(landed).group, NEW i \in 1..Len(landed),
                      landed[i].group = h
               PROVE  \E j \in 1..Len(landed') : landed'[j].group = h
    BY <1>1 DEF Unresolved
  <2>1. i # 1
    BY <1>2
  <2>2. i - 1 \in 1..Len(landed') /\ landed'[i - 1] = landed[i]
    BY <1>2, <2>1
  <2> QED BY <2>2
<1>5. \A i \in 1..Len(landed') : i + 1 \in 1..Len(landed)
  BY <1>2
<1> QED
  BY <1>1, <1>2, <1>3, <1>4, <1>5 DEF CollectInv

LEMMA EndSweep ==
  ASSUME CollectInv, EndCycle
  PROVE  CollectInv' /\ \A h : Unresolved(h) => Unresolved(h)'
<1>1. /\ pc' = "idle" /\ pending = {} /\ landed = <<>>
      /\ UNCHANGED <<myCfg, pending, landed, read, cfg>>
  BY DEF EndCycle, Swept, ctlVars
<1> QED
  BY <1>1 DEF CollectInv, Unresolved

LEMMA ReloadSweep ==
  ASSUME CollectInv, NEW c \in Configs, ReloadGroups(c)
  PROVE  /\ CollectInv' /\ UNCHANGED <<read, rows, myCfg, pending, landed>>
         /\ \A h : Unresolved(h)' => Unresolved(h)
         /\ WatcherOnly => pc = "idle" /\ \A h : ~Unresolved(h)
<1>1. cfg' = c /\ UNCHANGED <<pc, myCfg, pending, landed, read, rows>>
  BY DEF ReloadGroups, cycleVars
<1>2. ASSUME WatcherOnly PROVE pc = "idle" /\ \A h : ~Unresolved(h)
  <2>1. pc = "idle"
    BY <1>2 DEF ReloadGroups, CanReload, WatcherOnly
  <2>2. pending = {} /\ landed = <<>> /\ Len(landed) = 0
    BY <2>1 DEF CollectInv
  <2> QED BY <2>1, <2>2 DEF Unresolved
<1> QED
  BY <1>1, <1>2 DEF CollectInv, Unresolved

LEMMA StutterSweep ==
  ASSUME CollectInv, UNCHANGED vars
  PROVE  CollectInv' /\ \A h : Unresolved(h) => Unresolved(h)'
  BY DEF CollectInv, Unresolved, vars, cycleVars, ctlVars

LEMMA CollectStep == CollectInv /\ [Next]_vars => CollectInv'
BY BeginSweep, CollectSweep, ResolveSweep, EndSweep, ReloadSweep, StutterSweep DEF Next

LEMMA SweepStep == WatcherOnly /\ SweepInv /\ [Next]_vars => SweepInv'
<1> SUFFICES ASSUME WatcherOnly, CollectInv, pc = "sweeping" => myCfg = cfg, [Next]_vars
             PROVE  pc' = "sweeping" => myCfg' = cfg'
  BY CollectStep DEF SweepInv
<1>1. CASE \E e \in Elapsed : BeginCycle(e)
  BY <1>1 DEF BeginCycle
<1>2. CASE \E g \in Group : Collect(g)
  BY <1>2 DEF Collect, ctlVars
<1>3. CASE Resolve \/ EndCycle
  BY <1>3 DEF Resolve, EndCycle, ctlVars
<1>4. CASE \E c \in Configs : ReloadGroups(c)
  BY <1>4, ReloadSweep DEF ReloadGroups, cycleVars
<1>5. CASE UNCHANGED vars
  BY <1>5 DEF vars, cycleVars, ctlVars
<1> QED
  BY <1>1, <1>2, <1>3, <1>4, <1>5 DEF Next
-----------------------------------------------------------------------------
(***************************************************************************)
(* Types, whoever reloads.  That the value of a group is between the       *)
(* lowest and the highest temperature is what the mean makes of it.        *)
(***************************************************************************)
LEMMA GreatestOf ==
  ASSUME NEW S \in SUBSET Nat, IsFiniteSet(S), S # {}
  PROVE  \E x \in S : \A y \in S : x >= y
<1> DEFINE Has(T) == \E x \in T : \A y \in T : x >= y
           Bad == {n \in Nat : \E T \in SUBSET S : T # {} /\ Cardinality(T) = n /\ ~Has(T)}
<1>1. \A T \in SUBSET S : IsFiniteSet(T) /\ Cardinality(T) \in Nat
  BY FS_Subset, FS_CardinalityType
<1>2. SUFFICES Bad = {}
  BY <1>1
<1> SUFFICES ASSUME Bad # {} PROVE FALSE
  OBVIOUS
<1>3. PICK n \in Bad : \A k \in Bad : n <= k
  <2>1. Bad \in SUBSET Nat
    OBVIOUS
  <2> HIDE DEF Bad
  <2> QED BY <2>1, LeastOf
<1>4. PICK T \in SUBSET S : T # {} /\ Cardinality(T) = n /\ ~Has(T)
  OBVIOUS
<1>5. PICK x \in T : TRUE
  BY <1>4
<1> DEFINE U == T \ {x}
<1>6. U \in SUBSET S /\ Cardinality(U) = n - 1 /\ n \in Nat /\ n - 1 \in Nat
  <2>1. Cardinality(U) = n - 1
    BY <1>1, <1>4, <1>5, FS_RemoveElement
  <2> QED BY <1>1, <1>4, <2>1
<1>7. CASE U = {}
  BY <1>4, <1>5, <1>7
<1>8. CASE U # {}
  <2>1. n - 1 \notin Bad
    BY <1>3, <1>6
  <2>2. PICK z \in U : \A y \in U : z >= y
    BY <1>6, <1>8, <2>1
  <2>3. x \in Nat /\ z \in Nat /\ \A y \in T : y = x \/ y \in U
    BY <1>5, <1>6
  <2>4. \A y \in T : y \in Nat
    BY <1>4
  <2>5. IF x >= z THEN \A y \in T : x >= y ELSE \A y \in T : z >= y
    BY <2>2, <2>3, <2>4
  <2> QED BY <1>4, <1>5, <2>2, <2>5
<1> QED
  BY <1>7, <1>8

\* The lowest and the highest of a set of temperatures are in it.
LEMMA Extremes ==
  ASSUME NEW S \in SUBSET Temps, S # {}
  PROVE  /\ Min(S) \in S /\ Max(S) \in S
         /\ \A x \in S : x \in Nat /\ Min(S) <= x /\ x <= Max(S)
<1>1. S \in SUBSET Nat /\ IsFiniteSet(S)
  BY SensingAssumption, FS_Subset
<1>2. \E x \in S : \A y \in S : x <= y
  BY <1>1, LeastOf
<1>3. \E x \in S : \A y \in S : x >= y
  BY <1>1, GreatestOf
<1>4. Min(S) \in S /\ \A y \in S : Min(S) <= y
  BY <1>2 DEF Min
<1>5. Max(S) \in S /\ \A y \in S : Max(S) >= y
  BY <1>3 DEF Max
<1>6. Max(S) \in Nat /\ \A y \in S : y \in Nat
  BY <1>1, <1>5
<1> QED
  BY <1>4, <1>5, <1>6

\* What a group is worth lies between the lowest and the highest temperature.
LEMMA AggregateInRange ==
  ASSUME NEW readings \in Readings, readings # {}, NEW how
  PROVE  Aggregate(readings, how) \in Values
<1> DEFINE lo == Min(Temps)
           hi == Max(Temps)
<1>1. \A r \in readings : Celsius(r) \in Temps
  BY DEF Readings, Celsius
<1>2. lo \in Nat /\ hi \in Nat /\ \A x \in Temps : x \in lo..hi
  <2>1. Temps # {}
    BY SensingAssumption
  <2> QED BY <2>1, Extremes
<1> HIDE DEF lo, hi
<1>3. Values = lo..hi
  BY DEF Values, lo, hi
<1>4. CASE how = "max"
  <2> DEFINE S == {Celsius(r) : r \in readings}
  <2>1. S \in SUBSET Temps /\ S # {}
    BY <1>1
  <2>2. Aggregate(readings, how) = Max(S)
    BY <1>4 DEF Aggregate
  <2> HIDE DEF S
  <2> QED BY <1>2, <1>3, <2>1, <2>2, Extremes
<1>5. CASE how # "max"
  <2>1. IsFiniteSet(readings)
    <3>1. IsFiniteSet(Source \X Temps)
      BY SensingAssumption, FS_Product
    <3> QED BY <3>1, FS_Subset DEF Readings
  <2>2. \A r \in readings : Celsius(r) \in lo..hi
    BY <1>1, <1>2
  <2>3. MapThenSumSet(Celsius, readings) \div Cardinality(readings) \in lo..hi
    <3>1. lo \in Int /\ hi \in Int
      BY <1>2
    <3> QED BY <2>1, <2>2, <3>1, MeanBetween, Zenon
  <2> QED BY <1>3, <1>5, <2>3 DEF Aggregate
<1> QED
  BY <1>4, <1>5

TypeInv == CollectInv /\ SensingTypeOK

LEMMA TypeInit == Init => TypeInv
<1> SUFFICES ASSUME Init PROVE SensingTypeOK
  BY SweepInit DEF TypeInv, SweepInv
<1>1. Initial \in Configs /\ MaxEdits \in Nat
  BY SensingAssumption
<1>2. read \in [Group -> Readings] /\ landed \in Seq(Result)
  BY SweepInit DEF SweepInv, CollectInv
<1> QED
  BY <1>1, <1>2 DEF Init, SensingTypeOK

\* What holds of any configuration's sensors.
LEMMA KindsOf ==
  ASSUME NEW c \in Configs, NEW g \in DOMAIN c.sensors
  PROVE  g \in Group /\ c.sensors[g].kind \in {"ipmi", "smart"}
BY SensingAssumption DEF ValidSensors

LEMMA BeginTypes ==
  ASSUME TypeInv, NEW e \in Elapsed, BeginCycle(e)
  PROVE  SensingTypeOK'
<1> USE DEF TypeInv
<1>1. CollectInv'
  BY BeginSweep
<1>2. pending' \subseteq Group
  BY <1>1, ConfigsValid DEF CollectInv
<1>3. \A a \in 0..MaxAge : Aged(a, e) \in 0..MaxAge
  <2>1. MaxAge \in Nat /\ e \in Nat
    BY LongestGap, SensingAssumption
  <2> QED BY <2>1 DEF Aged
<1>4. rows' \in [Group -> {None} \cup Row]
  <2>1. ASSUME NEW g \in DOMAIN cfg.sensors PROVE NewRow(cfg.sensors[g]) \in Row
    <3>1. cfg.sensors[g].kind \in {"ipmi", "smart"} /\ MaxAge \in Nat
      BY KindsOf, SensingAssumption DEF SensingTypeOK
    <3> QED BY <3>1 DEF NewRow, Row
  <2>2. \A g \in Group : Carried(cfg)[g] \in {None} \cup Row
    BY <2>1 DEF Carried, SensingTypeOK
  <2> QED BY <2>2 DEF BeginCycle, Carried
<1>5. lastGood' \in [Group -> {None} \cup [value : Values, age : 0..MaxAge]]
  <2>1. ASSUME NEW g \in Group, lastGood[g] # None
        PROVE  [lastGood[g] EXCEPT !.age = Aged(@, e)] \in [value : Values, age : 0..MaxAge]
    BY <1>3, <2>1 DEF SensingTypeOK
  <2> QED BY <2>1 DEF BeginCycle
<1>6. blindFor' \in [Group -> {None} \cup 0..MaxAge]
  BY <1>3 DEF BeginCycle, SensingTypeOK
<1> QED
  BY <1>1, <1>2, <1>4, <1>5, <1>6 DEF BeginCycle, SensingTypeOK, CollectInv

\* The row of a result, and the flags of a row.
LEMMA RowTyped ==
  ASSUME TypeInv, NEW res \in Result, res.group \in DOMAIN myCfg.sensors
  PROVE  /\ RowOf(myCfg, res) \in Row /\ BlindClock(res) \in {None} \cup 0..MaxAge
         /\ Usable(res) => RowOf(myCfg, res).value \in Values
<1> DEFINE g == res.group
<1>1. g \in Group /\ myCfg.sensors[g].kind \in {"ipmi", "smart"} /\ res.err \in BOOLEAN
  BY KindsOf DEF TypeInv, SensingTypeOK, Result
<1>2. MaxAge \in Nat
  BY SensingAssumption
<1>3. Usable(res) => ValueOf(myCfg, res) \in Values
  BY AggregateInRange DEF Usable, ValueOf, Result
<1>4. Held(myCfg, res) => lastGood[g] \in [value : Values, age : 0..MaxAge]
  BY <1>1 DEF Held, TypeInv, SensingTypeOK
<1>5. ValueOf(myCfg, res) \in Values \cup {None}
  BY <1>3, <1>4 DEF ValueOf
<1>6. (IF Held(myCfg, res) THEN lastGood[g].age ELSE 0) \in 0..MaxAge
  BY <1>2, <1>4
<1>7. Held(myCfg, res) \in BOOLEAN
  BY DEF Held
<1>8. RowOf(myCfg, res) \in Row
  BY <1>1, <1>5, <1>6, <1>7 DEF RowOf, Row
<1>9. BlindClock(res) \in {None} \cup 0..MaxAge
  BY <1>1, <1>2 DEF BlindClock, TypeInv, SensingTypeOK
<1> QED
  BY <1>3, <1>8, <1>9 DEF RowOf

LEMMA ResolveTypes ==
  ASSUME TypeInv, Resolve
  PROVE  SensingTypeOK'
<1> USE DEF TypeInv
<1> DEFINE res == Head(landed)
           g   == res.group
           row == RowOf(myCfg, res)
<1>1. CollectInv' /\ res \in Result /\ g \in DOMAIN myCfg.sensors
  BY ResolveSweep
<1>2. g \in Group /\ res.readings \in Readings
  BY <1>1, KindsOf DEF SensingTypeOK, Result
<1>3. /\ row \in Row /\ BlindClock(res) \in {None} \cup 0..MaxAge
      /\ Usable(res) => row.value \in Values
  BY <1>1, RowTyped
<1>4. /\ sensorGauge' = [s \in Source |->
                           IF s \in Measured(res.readings)
                           THEN Celsius(CHOOSE r \in res.readings : r[1] = s)
                           ELSE IF s \in Pruned(g, res.readings) THEN None
                           ELSE sensorGauge[s]]
      /\ exported' = [exported EXCEPT ![g] = Measured(res.readings)]
      /\ groupGauge' = [groupGauge EXCEPT ![g] = row.value]
      /\ flagGauge' = [flagGauge EXCEPT ![g] = [blind |-> row.blind, held |-> row.held]]
      /\ rows' = [rows EXCEPT ![g] = row]
      /\ blindFor' = [blindFor EXCEPT ![g] = BlindClock(res)]
      /\ lastGood' = IF Usable(res)
                     THEN [lastGood EXCEPT ![g] = [value |-> row.value, age |-> 0]]
                     ELSE lastGood
      /\ UNCHANGED <<pc, myCfg, pending, read, cfg, edits>>
  BY DEF Resolve
<1> HIDE DEF res, g, row
<1>5. sensorGauge' \in [Source -> Temps \cup {None}]
  <2>1. ASSUME NEW s \in Measured(res.readings)
        PROVE  Celsius(CHOOSE r \in res.readings : r[1] = s) \in Temps
    <3>1. (CHOOSE r \in res.readings : r[1] = s) \in res.readings
      BY DEF Measured
    <3> QED BY <1>2, <3>1 DEF Readings, Celsius
  <2> QED BY <1>4, <2>1 DEF SensingTypeOK
<1>6. exported' \in [Group -> SUBSET Source]
  <2>1. Measured(res.readings) \subseteq Source
    BY <1>2 DEF Measured, Readings
  <2> QED BY <1>4, <2>1 DEF SensingTypeOK
<1>7. /\ row.value \in Values \cup {None} /\ row.blind \in BOOLEAN /\ row.held \in BOOLEAN
  BY <1>3 DEF Row
<1>8. /\ groupGauge' \in [Group -> Values \cup {None}]
      /\ flagGauge' \in [Group -> Flags \cup {None}]
  BY <1>4, <1>7 DEF SensingTypeOK, Flags
<1>9. /\ rows' \in [Group -> {None} \cup Row]
      /\ blindFor' \in [Group -> {None} \cup 0..MaxAge]
  BY <1>3, <1>4 DEF SensingTypeOK
<1>10. lastGood' \in [Group -> {None} \cup [value : Values, age : 0..MaxAge]]
  <2>1. Usable(res) => [value |-> row.value, age |-> 0] \in [value : Values, age : 0..MaxAge]
    BY <1>3, SensingAssumption
  <2> QED BY <1>4, <2>1 DEF SensingTypeOK
<1> QED
  BY <1>1, <1>4, <1>5, <1>6, <1>8, <1>9, <1>10 DEF SensingTypeOK, CollectInv

LEMMA ReloadTypes ==
  ASSUME TypeInv, NEW c \in Configs, ReloadGroups(c)
  PROVE  SensingTypeOK'
<1> USE DEF TypeInv
<1>1. edits' \in 0..MaxEdits
  BY SensingAssumption DEF ReloadGroups, SensingTypeOK
<1> QED
  BY <1>1 DEF ReloadGroups, Without, SensingTypeOK, cycleVars

LEMMA TypeInvariant == Spec => []TypeInv
<1>1. TypeInv /\ [Next]_vars => TypeInv'
  <2> SUFFICES ASSUME TypeInv, [Next]_vars PROVE SensingTypeOK'
    BY CollectStep DEF TypeInv
  <2>1. ASSUME NEW g \in Group, Collect(g) PROVE SensingTypeOK'
    <3>1. CollectInv'
      BY <2>1, CollectSweep DEF TypeInv
    <3> QED BY <2>1, <3>1 DEF Collect, TypeInv, SensingTypeOK, CollectInv, ctlVars, viewVars
  <2>2. CASE EndCycle
    BY <2>2 DEF EndCycle, TypeInv, SensingTypeOK, ctlVars, viewVars
  <2>3. CASE UNCHANGED vars
    BY <2>3 DEF vars, cycleVars, ctlVars, viewVars, TypeInv, SensingTypeOK
  <2> QED BY <2>1, <2>2, <2>3, BeginTypes, ResolveTypes, ReloadTypes DEF Next
<1> QED
  BY <1>1, TypeInit, PTL DEF Spec

\* SensingTypeOK for every configuration, whoever reloads: a group's value and the
\* series of it are within the range of what can be measured, whether they are the
\* highest reading, a mean, or one that is held; ages stay within their bound.
THEOREM SensingTypes == Spec => []SensingTypeOK
<1>1. TypeInv => SensingTypeOK
  BY DEF TypeInv
<1> QED
  BY <1>1, TypeInvariant, PTL
-----------------------------------------------------------------------------
(***************************************************************************)
(* How old a value can be.                                                 *)
(***************************************************************************)
Age == 0..MaxAge

\* A value lies for as long as its group has been blind, and one interval more:
\* that before the failure which set blindSince.
FreshInv ==
  /\ lastGood = [g \in Group |-> lastGood[g]] /\ blindFor = [g \in Group |-> blindFor[g]]
  /\ rows = [g \in Group |-> rows[g]]
  /\ \A g \in Group :
       /\ blindFor[g] # None => blindFor[g] \in Age
       /\ lastGood[g] # None =>
            /\ lastGood[g] = [value |-> lastGood[g].value, age |-> lastGood[g].age]
            /\ lastGood[g].age \in Age /\ g \in DOMAIN cfg.sensors
            /\ IF blindFor[g] = None
               THEN lastGood[g].age = 0 \/ (Unresolved(g) /\ lastGood[g].age <= Max(Elapsed))
               ELSE lastGood[g].age <= blindFor[g] + Max(Elapsed)
  /\ pc = "sweeping" => \A g \in DOMAIN myCfg.sensors :
       ~Unresolved(g) /\ rows[g].value # None =>
         rows[g].age <= (IF rows[g].held THEN myCfg.hold + Max(Elapsed) ELSE 0)

LEMMA FreshInit == Init => FreshInv
  BY DEF Init, FreshInv

LEMMA BeginFresh ==
  ASSUME SweepInv, FreshInv, NEW e \in Elapsed, BeginCycle(e)
  PROVE  FreshInv'
<1> USE DEF SweepInv
<1>1. /\ myCfg' = cfg /\ cfg' = cfg /\ rows' = Carried(cfg) /\ pc = "idle"
      /\ lastGood' = [g \in Group |-> IF lastGood[g] = None THEN None
                                      ELSE [lastGood[g] EXCEPT !.age = Aged(@, e)]]
      /\ blindFor' = [g \in Group |-> IF blindFor[g] = None THEN None ELSE Aged(blindFor[g], e)]
  BY DEF BeginCycle
<1>2. \A g \in DOMAIN cfg.sensors : Unresolved(g)'
  BY BeginSweep
<1>3. \A g : ~Unresolved(g)
  BY <1>1 DEF CollectInv, Unresolved
<1>4. /\ e \in Nat /\ e <= MaxAge /\ e <= Max(Elapsed) /\ Max(Elapsed) \in Nat
      /\ MaxAge \in Nat /\ None \notin Nat
  BY LongestGap, SensingAssumption
<1>5. \A a \in Age : Aged(a, e) \in Age /\ Aged(a, e) >= a /\ (a = 0 => Aged(a, e) = e)
  BY <1>4 DEF Aged, Age
<1>6. \A a, b \in Age : a <= b + Max(Elapsed) => Aged(a, e) <= Aged(b, e) + Max(Elapsed)
  BY <1>4 DEF Aged, Age
<1>7. ASSUME NEW g \in Group
      PROVE  /\ blindFor'[g] # None => blindFor'[g] \in Age
             /\ blindFor'[g] = None <=> blindFor[g] = None
             /\ blindFor[g] # None => blindFor'[g] = Aged(blindFor[g], e)
  BY <1>1, <1>4, <1>5 DEF FreshInv, Age
<1>8. ASSUME NEW g \in Group, lastGood'[g] # None
      PROVE  /\ lastGood'[g] = [value |-> lastGood'[g].value, age |-> lastGood'[g].age]
             /\ lastGood'[g].age = Aged(lastGood[g].age, e) /\ lastGood[g] # None
  <2>1. lastGood[g] # None /\ lastGood'[g] = [lastGood[g] EXCEPT !.age = Aged(@, e)]
    BY <1>1, <1>8
  <2>2. lastGood[g] = [value |-> lastGood[g].value, age |-> lastGood[g].age]
    BY <2>1 DEF FreshInv
  <2>3. lastGood'[g] = [value |-> lastGood[g].value, age |-> Aged(lastGood[g].age, e)]
    BY <2>1, <2>2
  <2> QED BY <2>1, <2>3
<1>9. ASSUME NEW g \in Group, lastGood'[g] # None
      PROVE  /\ lastGood'[g].age \in Age /\ g \in DOMAIN cfg'.sensors
             /\ IF blindFor'[g] = None
                THEN lastGood'[g].age = 0
                     \/ (Unresolved(g)' /\ lastGood'[g].age <= Max(Elapsed))
                ELSE lastGood'[g].age <= blindFor'[g] + Max(Elapsed)
  <2>1. /\ lastGood[g].age \in Age /\ g \in DOMAIN cfg.sensors
        /\ IF blindFor[g] = None THEN lastGood[g].age = 0
           ELSE lastGood[g].age <= blindFor[g] + Max(Elapsed)
        /\ blindFor[g] # None => blindFor[g] \in Age
    BY <1>8, <1>9, <1>3 DEF FreshInv
  <2>2. CASE blindFor[g] = None
    BY <2>1, <2>2, <1>1, <1>2, <1>4, <1>5, <1>7, <1>8, <1>9
  <2>3. CASE blindFor[g] # None
    BY <2>1, <2>3, <1>1, <1>5, <1>6, <1>7, <1>8, <1>9
  <2> QED BY <2>2, <2>3
<1> QED
  BY <1>1, <1>2, <1>7, <1>8, <1>9 DEF FreshInv, Carried

LEMMA CollectFresh ==
  ASSUME SweepInv, FreshInv, NEW g \in Group, Collect(g)
  PROVE  FreshInv'
<1> USE DEF SweepInv
<1>1. UNCHANGED <<pc, myCfg, cfg, lastGood, blindFor, rows>>
  BY DEF Collect, ctlVars, viewVars
<1>2. \A h : Unresolved(h) => Unresolved(h)'
  BY CollectSweep
<1> QED
  BY <1>1, <1>2 DEF FreshInv

LEMMA ResolveFresh ==
  ASSUME SweepInv, FreshInv, Resolve
  PROVE  FreshInv'
<1> USE DEF SweepInv
<1> DEFINE res == Head(landed)
           g   == res.group
           row == RowOf(myCfg, res)
<1>1. /\ rows' = [rows EXCEPT ![g] = row]
      /\ blindFor' = [blindFor EXCEPT ![g] = BlindClock(res)]
      /\ lastGood' = IF Usable(res)
                     THEN [lastGood EXCEPT ![g] = [value |-> row.value, age |-> 0]]
                     ELSE lastGood
  BY DEF Resolve
<1>2. /\ cfg' = cfg /\ myCfg' = myCfg /\ myCfg = cfg
      /\ res \in Result /\ g \in DOMAIN myCfg.sensors /\ g \in Group
      /\ ~res.err => res.readings # {}
      /\ \A h : h # g /\ Unresolved(h) => Unresolved(h)'
  BY ResolveSweep, ConfigsValid DEF CollectInv, Result
<1>3. Max(Elapsed) \in Nat /\ MaxAge \in Nat /\ None \notin Nat
  BY LongestGap, SensingAssumption
<1>4. myCfg.hold \in Int /\ (myCfg.action = "hold_last" => myCfg.hold > 0)
  BY ConfigsValid DEF CollectInv
<1> HIDE DEF res, g, row
<1>5. /\ BlindClock(res) # None => BlindClock(res) \in Age
      /\ ~Usable(res) => /\ BlindClock(res) # None
                         /\ blindFor[g] # None => BlindClock(res) = blindFor[g]
  BY <1>2, <1>3 DEF BlindClock, Usable, FreshInv, Age, g
<1>6. /\ row.value = ValueOf(myCfg, res) /\ row.held = Held(myCfg, res)
      /\ row.age = IF Held(myCfg, res) THEN lastGood[g].age ELSE 0
  BY DEF row, RowOf, g
<1>7. row.age <= (IF row.held THEN myCfg.hold + Max(Elapsed) ELSE 0)
  <2>1. CASE ~Held(myCfg, res)
    BY <2>1, <1>6
  <2>2. CASE Held(myCfg, res)
    <3>1. /\ ~Usable(res) /\ lastGood[g] # None /\ BlindClock(res) <= myCfg.hold
          /\ myCfg.action = "hold_last"
      BY <2>2 DEF Held, g
    <3>2. /\ lastGood[g].age \in Age
          /\ IF blindFor[g] = None
             THEN lastGood[g].age = 0 \/ lastGood[g].age <= Max(Elapsed)
             ELSE lastGood[g].age <= blindFor[g] + Max(Elapsed)
          /\ blindFor[g] # None => blindFor[g] \in Age
      BY <3>1, <1>2 DEF FreshInv
    <3>3. lastGood[g].age <= myCfg.hold + Max(Elapsed)
      BY <3>1, <3>2, <1>3, <1>4, <1>5 DEF Age
    <3> QED BY <2>2, <3>3, <1>6
  <2> QED BY <2>1, <2>2
<1>8. ASSUME NEW h \in Group
      PROVE  /\ blindFor'[h] = IF h = g THEN BlindClock(res) ELSE blindFor[h]
             /\ rows'[h] = IF h = g THEN row ELSE rows[h]
             /\ lastGood'[h] = IF h = g /\ Usable(res) THEN [value |-> row.value, age |-> 0]
                               ELSE lastGood[h]
  BY <1>1, <1>2 DEF FreshInv
<1>9. /\ lastGood' = [h \in Group |-> lastGood'[h]] /\ blindFor' = [h \in Group |-> blindFor'[h]]
      /\ rows' = [h \in Group |-> rows'[h]]
  BY <1>1 DEF FreshInv
<1>10. ASSUME NEW h \in Group, lastGood'[h] # None
       PROVE  /\ lastGood'[h] = [value |-> lastGood'[h].value, age |-> lastGood'[h].age]
              /\ lastGood'[h].age \in Age /\ h \in DOMAIN cfg'.sensors
              /\ IF blindFor'[h] = None
                 THEN lastGood'[h].age = 0
                      \/ (Unresolved(h)' /\ lastGood'[h].age <= Max(Elapsed))
                 ELSE lastGood'[h].age <= blindFor'[h] + Max(Elapsed)
  <2>1. CASE h = g /\ Usable(res)
    <3>1. lastGood'[h] = [value |-> row.value, age |-> 0]
      BY <2>1, <1>8
    <3>2. 0 \in Age /\ (blindFor'[h] # None => 0 <= blindFor'[h] + Max(Elapsed))
      BY <2>1, <1>3, <1>5, <1>8 DEF Age
    <3> QED BY <2>1, <3>1, <3>2, <1>2
  <2>2. CASE h = g /\ ~Usable(res)
    <3>1. lastGood[g] # None /\ lastGood'[g] = lastGood[g] /\ blindFor'[g] = BlindClock(res)
      BY <2>2, <1>8, <1>10
    <3>2. /\ lastGood[g] = [value |-> lastGood[g].value, age |-> lastGood[g].age]
          /\ lastGood[g].age \in Age /\ g \in DOMAIN cfg.sensors
          /\ IF blindFor[g] = None
             THEN lastGood[g].age = 0 \/ lastGood[g].age <= Max(Elapsed)
             ELSE lastGood[g].age <= blindFor[g] + Max(Elapsed)
      BY <3>1, <1>2 DEF FreshInv
    <3>3. BlindClock(res) # None /\ lastGood[g].age <= BlindClock(res) + Max(Elapsed)
      BY <2>2, <3>2, <1>3, <1>5 DEF Age
    <3> QED BY <2>2, <3>1, <3>2, <3>3, <1>2
  <2>3. CASE h # g
    <3>1. lastGood'[h] = lastGood[h] /\ blindFor'[h] = blindFor[h]
      BY <2>3, <1>8
    <3> QED BY <2>3, <3>1, <1>2, <1>10 DEF FreshInv
  <2> QED BY <2>1, <2>2, <2>3
<1>11. \A h \in Group : blindFor'[h] # None => blindFor'[h] \in Age
  BY <1>5, <1>8 DEF FreshInv
<1>12. ASSUME NEW h \in DOMAIN myCfg'.sensors, ~Unresolved(h)', rows'[h].value # None
       PROVE  rows'[h].age <= (IF rows'[h].held THEN myCfg'.hold + Max(Elapsed) ELSE 0)
  <2>1. h \in Group /\ h \in DOMAIN myCfg.sensors
    BY <1>2, ConfigsValid DEF CollectInv
  <2>2. CASE h = g
    BY <2>1, <2>2, <1>2, <1>7, <1>8
  <2>3. CASE h # g
    <3>1. rows'[h] = rows[h] /\ ~Unresolved(h)
      BY <2>1, <2>3, <1>2, <1>8, <1>12
    <3> QED BY <2>1, <3>1, <1>2, <1>12, ResolveSweep DEF FreshInv
  <2> QED BY <2>2, <2>3
<1> QED
  BY <1>9, <1>10, <1>11, <1>12 DEF FreshInv

LEMMA ReloadFresh ==
  ASSUME SweepInv, WatcherOnly, FreshInv, NEW c \in Configs, ReloadGroups(c)
  PROVE  FreshInv'
<1> USE DEF SweepInv
<1>1. /\ cfg' = c
      /\ lastGood' = [g \in Group |-> IF g \in Forgotten(c) THEN None ELSE lastGood[g]]
      /\ blindFor' = [g \in Group |-> IF g \in Forgotten(c) THEN None ELSE blindFor[g]]
  BY DEF ReloadGroups, Without
<1>2. /\ UNCHANGED <<rows, myCfg>> /\ \A h : ~Unresolved(h)
      /\ \A h : Unresolved(h)' => Unresolved(h)
  BY ReloadSweep
<1>3. \A g \in Group : lastGood[g] # None /\ g \notin Forgotten(c) => g \in DOMAIN c.sensors
  BY DEF FreshInv, Forgotten
<1>4. ASSUME NEW g \in Group, lastGood'[g] # None
      PROVE  g \notin Forgotten(c) /\ lastGood'[g] = lastGood[g] /\ blindFor'[g] = blindFor[g]
  BY <1>1, <1>4
<1>5. \A g \in Group : blindFor'[g] # None => blindFor'[g] = blindFor[g]
  BY <1>1
<1>6. pc' = "idle"
  BY ReloadSweep DEF ReloadGroups, cycleVars
<1>7. ASSUME NEW g \in Group, lastGood'[g] # None
      PROVE  /\ lastGood'[g] = [value |-> lastGood'[g].value, age |-> lastGood'[g].age]
             /\ lastGood'[g].age \in Age /\ g \in DOMAIN cfg'.sensors
             /\ IF blindFor'[g] = None
                THEN lastGood'[g].age = 0
                ELSE lastGood'[g].age <= blindFor'[g] + Max(Elapsed)
  BY <1>1, <1>2, <1>3, <1>4, <1>7 DEF FreshInv
<1>8. rows' = [g \in Group |-> rows'[g]]
  BY <1>2 DEF FreshInv
<1> QED
  BY <1>1, <1>5, <1>6, <1>7, <1>8 DEF FreshInv

LEMMA SensingInvariant ==
  ASSUME WatcherOnly
  PROVE  Spec => [](SweepInv /\ FreshInv)
<1>1. Init => SweepInv /\ FreshInv
  BY SweepInit, FreshInit
<1>2. SweepInv /\ FreshInv /\ [Next]_vars => (SweepInv /\ FreshInv)'
  <2> SUFFICES ASSUME SweepInv, FreshInv, [Next]_vars
               PROVE  FreshInv'
    BY SweepStep
  <2>1. CASE UNCHANGED vars
    <3>1. UNCHANGED <<pc, myCfg, cfg, lastGood, blindFor, rows>>
      BY <2>1 DEF vars, cycleVars, ctlVars, viewVars
    <3> QED BY <2>1, <3>1, StutterSweep DEF FreshInv, SweepInv
  <2>2. ASSUME NEW e \in Elapsed, BeginCycle(e) PROVE FreshInv'
    BY <2>2, BeginFresh
  <2>3. ASSUME NEW g \in Group, Collect(g) PROVE FreshInv'
    BY <2>3, CollectFresh
  <2>4. CASE Resolve
    BY <2>4, ResolveFresh
  <2>5. CASE EndCycle
    <3>1. pc' = "idle" /\ UNCHANGED <<myCfg, cfg, lastGood, blindFor, rows>>
      BY <2>5 DEF EndCycle, ctlVars, viewVars
    <3> QED BY <2>5, <3>1, EndSweep DEF FreshInv, SweepInv
  <2>6. ASSUME NEW c \in Configs, ReloadGroups(c) PROVE FreshInv'
    BY <2>6, ReloadFresh
  <2> QED BY <2>1, <2>2, <2>3, <2>4, <2>5, <2>6 DEF Next
<1> QED
  BY <1>1, <1>2, PTL DEF Spec

\* ValuesAreFresh for every configuration: what a cycle decides on was measured in
\* its sweep, or is held for no longer than max_hold and one interval.
THEOREM Fresh == WatcherOnly /\ Spec => []ValuesAreFresh
<1> SUFFICES ASSUME WatcherOnly
             PROVE  Spec => []ValuesAreFresh
  OBVIOUS
<1>1. Spec => [](SweepInv /\ FreshInv)
  BY SensingInvariant
<1>2. SweepInv /\ FreshInv => ValuesAreFresh
  <2> SUFFICES ASSUME Swept, FreshInv
               PROVE  ValuesAreFresh
    BY DEF ValuesAreFresh
  <2>1. pc = "sweeping" /\ \A g : ~Unresolved(g)
    BY DEF Swept, Unresolved
  <2> QED BY <2>1 DEF ValuesAreFresh, FreshInv
<1> QED
  BY <1>1, <1>2, PTL

\* BlindUntilRead for every configuration, whoever reloads: only the result of a
\* group that has been read puts an end to its blindness.
THEOREM StaysBlind == Spec => BlindUntilRead
<1> DEFINE Sees(g) ==
      /\ rows[g] # None /\ rows[g].blind
      /\ rows'[g] # None /\ ~rows'[g].blind /\ rows'[g].kind = rows[g].kind
<1>1. Spec => []TypeInv
  BY TypeInvariant
<1>2. ASSUME TypeInv, [Next]_vars, NEW g \in Group, Sees(g)
      PROVE  read[g] # {} /\ g \notin pending
  <2>1. rows'[g] # rows[g]
    BY <1>2
  <2>2. ~(UNCHANGED rows)
    BY <2>1
  <2>3. ASSUME NEW e \in Elapsed, BeginCycle(e) PROVE FALSE
    <3>1. rows'[g] = Carried(cfg)[g]
      BY <2>3 DEF BeginCycle
    <3> QED BY <3>1, <1>2, <2>1 DEF Carried, NewRow
  <2>4. CASE Resolve
    <3> DEFINE res == Head(landed)
               row == RowOf(myCfg, res)
    <3>1. rows' = [rows EXCEPT ![res.group] = row] /\ row.blind = res.err
      BY <2>4 DEF Resolve, RowOf
    <3>2. g = res.group
      <4> HIDE DEF res, row
      <4> QED BY <3>1, <1>2, <2>1 DEF TypeInv, SensingTypeOK
    <3>3. rows'[g] = row
      <4> HIDE DEF res, row
      <4> QED BY <3>1, <3>2, <1>2 DEF TypeInv, SensingTypeOK
    <3>4. ~res.err
      BY <3>1, <3>3, <1>2
    <3> QED BY <3>2, <3>4, <1>2, <2>4, ResolveSweep DEF TypeInv
  <2>5. ASSUME NEW h \in Group, Collect(h) PROVE FALSE
    BY <2>2, <2>5 DEF Collect, viewVars
  <2>6. ~EndCycle /\ ~(UNCHANGED vars) /\ \A c \in Configs : ~ReloadGroups(c)
    BY <2>2 DEF EndCycle, viewVars, vars, ReloadGroups
  <2> QED BY <1>2, <2>3, <2>4, <2>5, <2>6 DEF Next
<1>3. TypeInv /\ [Next]_vars =>
        [\A g \in Group : Sees(g) => read[g] # {} /\ g \notin pending]_vars
  BY <1>2
<1> QED
  BY <1>1, <1>3, PTL DEF BlindUntilRead, Spec
-----------------------------------------------------------------------------
(***************************************************************************)
(* What the series say.                                                    *)
(***************************************************************************)

\* Until its group is resolved a series may have the value of the last sweep.
GaugeInv ==
  /\ exported = [g \in Group |-> exported[g]]
  /\ groupGauge = [g \in Group |-> groupGauge[g]] /\ flagGauge = [g \in Group |-> flagGauge[g]]
  /\ \A s \in Source : sensorGauge[s] # None =>
       \E g \in DOMAIN cfg.sensors :
         s \in exported[g] /\ (Unresolved(g) \/ <<s, sensorGauge[s]>> \in read[g])
  /\ \A g \in Group : groupGauge[g] # None =>
       /\ g \in DOMAIN cfg.sensors
       /\ Unresolved(g) \/ (rows[g] # None /\ groupGauge[g] = rows[g].value)
  /\ \A g \in Group : flagGauge[g] # None =>
       /\ g \in DOMAIN cfg.sensors
       /\ \/ Unresolved(g)
          \/ rows[g] # None /\ flagGauge[g] = [blind |-> rows[g].blind, held |-> rows[g].held]

LEMMA BeginGauges ==
  ASSUME SweepInv, GaugeInv, NEW e \in Elapsed, BeginCycle(e)
  PROVE  GaugeInv'
<1> USE DEF SweepInv
<1>1. UNCHANGED <<cfg, exported, sensorGauge, groupGauge, flagGauge>>
  BY DEF BeginCycle
<1>2. \A g \in DOMAIN cfg.sensors : Unresolved(g)'
  BY BeginSweep
<1> QED
  BY <1>1, <1>2 DEF GaugeInv

LEMMA CollectGauges ==
  ASSUME SweepInv, GaugeInv, NEW g \in Group, Collect(g)
  PROVE  GaugeInv'
<1> USE DEF SweepInv
<1>1. UNCHANGED <<cfg, exported, rows, sensorGauge, groupGauge, flagGauge>>
  BY DEF Collect, ctlVars, viewVars
<1>2. /\ Unresolved(g)' /\ \A h : Unresolved(h) => Unresolved(h)'
      /\ \A h \in Group \ {g} : read'[h] = read[h]
  BY CollectSweep
<1>3. \A h \in DOMAIN cfg.sensors : h \in Group
  BY ConfigsValid DEF CollectInv
<1>4. ASSUME NEW s \in Source, sensorGauge'[s] # None
      PROVE  \E h \in DOMAIN cfg'.sensors :
               s \in exported'[h] /\ (Unresolved(h)' \/ <<s, sensorGauge'[s]>> \in read'[h])
  <2>1. PICK h \in DOMAIN cfg.sensors :
          s \in exported[h] /\ (Unresolved(h) \/ <<s, sensorGauge[s]>> \in read[h])
    BY <1>1, <1>4 DEF GaugeInv
  <2>2. Unresolved(h)' \/ <<s, sensorGauge[s]>> \in read'[h]
    BY <2>1, <1>2, <1>3
  <2> QED BY <2>1, <2>2, <1>1
<1> QED
  BY <1>1, <1>2, <1>4 DEF GaugeInv

LEMMA ResolveGauges ==
  ASSUME SweepInv, TypeInv, GaugeInv, Resolve
  PROVE  GaugeInv'
<1> USE DEF SweepInv
<1> DEFINE res == Head(landed)
           g   == res.group
           row == RowOf(myCfg, res)
<1>1. /\ sensorGauge' = [s \in Source |->
                           IF s \in Measured(res.readings)
                           THEN Celsius(CHOOSE r \in res.readings : r[1] = s)
                           ELSE IF s \in Pruned(g, res.readings) THEN None
                           ELSE sensorGauge[s]]
      /\ exported' = [exported EXCEPT ![g] = Measured(res.readings)]
      /\ groupGauge' = [groupGauge EXCEPT ![g] = row.value]
      /\ flagGauge' = [flagGauge EXCEPT ![g] = [blind |-> row.blind, held |-> row.held]]
      /\ rows' = [rows EXCEPT ![g] = row]
  BY DEF Resolve
<1>2. /\ cfg' = cfg /\ read' = read
      /\ res \in Result /\ g \in DOMAIN cfg.sensors /\ g \in Group
      /\ res.readings \subseteq read[g] /\ res.readings \subseteq Source \X Temps
      /\ \A h : h # g /\ Unresolved(h) => Unresolved(h)'
  BY ResolveSweep DEF Result, Readings
<1>3. row # None
  BY ResolveSweep, RowTyped, NoneIsNoRow
<1>4. \A h \in DOMAIN cfg.sensors : h \in Group
  BY ConfigsValid DEF CollectInv
<1> HIDE DEF res, g, row
<1>5. ASSUME NEW h \in Group
      PROVE  /\ exported'[h] = IF h = g THEN Measured(res.readings) ELSE exported[h]
             /\ groupGauge'[h] = IF h = g THEN row.value ELSE groupGauge[h]
             /\ flagGauge'[h] = IF h = g THEN [blind |-> row.blind, held |-> row.held]
                                ELSE flagGauge[h]
             /\ rows'[h] = IF h = g THEN row ELSE rows[h]
  BY <1>1, <1>2 DEF GaugeInv, TypeInv, SensingTypeOK
<1>6. ASSUME NEW s \in Source, sensorGauge'[s] # None
      PROVE  \E h \in DOMAIN cfg'.sensors :
               s \in exported'[h] /\ (Unresolved(h)' \/ <<s, sensorGauge'[s]>> \in read'[h])
  <2>1. CASE s \in Measured(res.readings)
    <3> DEFINE q == CHOOSE r \in res.readings : r[1] = s
    <3>1. q \in res.readings /\ q[1] = s
      BY <2>1 DEF Measured
    <3>2. sensorGauge'[s] = q[2]
      BY <1>1, <2>1 DEF Celsius
    <3> HIDE DEF q
    <3>3. q = <<s, sensorGauge'[s]>>
      BY <3>1, <3>2, <1>2
    <3>4. <<s, sensorGauge'[s]>> \in read'[g] /\ s \in exported'[g]
      BY <3>1, <3>3, <2>1, <1>2, <1>5
    <3> QED BY <3>4, <1>2
  <2>2. CASE s \notin Measured(res.readings)
    <3>1. s \notin exported[g] /\ sensorGauge'[s] = sensorGauge[s]
      BY <1>1, <1>6, <2>2 DEF Pruned
    <3>2. PICK h \in DOMAIN cfg.sensors :
            s \in exported[h] /\ (Unresolved(h) \/ <<s, sensorGauge[s]>> \in read[h])
      BY <3>1, <1>6 DEF GaugeInv
    <3>3. h # g /\ h \in Group
      BY <3>1, <3>2, <1>4
    <3> QED BY <3>1, <3>2, <3>3, <1>2, <1>5
  <2> QED BY <2>1, <2>2
<1>7. ASSUME NEW h \in Group
      PROVE  /\ groupGauge'[h] # None =>
                  /\ h \in DOMAIN cfg'.sensors
                  /\ Unresolved(h)' \/ (rows'[h] # None /\ groupGauge'[h] = rows'[h].value)
             /\ flagGauge'[h] # None =>
                  /\ h \in DOMAIN cfg'.sensors
                  /\ \/ Unresolved(h)'
                     \/ rows'[h] # None
                        /\ flagGauge'[h] = [blind |-> rows'[h].blind, held |-> rows'[h].held]
  <2>1. CASE h = g
    BY <2>1, <1>2, <1>3, <1>5
  <2>2. CASE h # g
    BY <2>2, <1>2, <1>5 DEF GaugeInv
  <2> QED BY <2>1, <2>2
<1>8. /\ exported' = [h \in Group |-> exported'[h]]
      /\ groupGauge' = [h \in Group |-> groupGauge'[h]]
      /\ flagGauge' = [h \in Group |-> flagGauge'[h]]
  BY <1>1 DEF GaugeInv
<1> QED
  BY <1>6, <1>7, <1>8 DEF GaugeInv

LEMMA ReloadGauges ==
  ASSUME SweepInv, WatcherOnly, GaugeInv, NEW c \in Configs, ReloadGroups(c)
  PROVE  GaugeInv'
<1> USE DEF SweepInv
<1>1. /\ cfg' = c
      /\ sensorGauge' = [s \in Source |-> IF \E g \in Forgotten(c) : s \in exported[g]
                                          THEN None ELSE sensorGauge[s]]
      /\ exported' = [g \in Group |-> IF g \in Forgotten(c) THEN {} ELSE exported[g]]
      /\ groupGauge' = [g \in Group |-> IF g \in Forgotten(c) THEN None ELSE groupGauge[g]]
      /\ flagGauge' = [g \in Group |-> IF g \in Forgotten(c) THEN None ELSE flagGauge[g]]
  BY DEF ReloadGroups, Without
<1>2. UNCHANGED <<read, rows>> /\ \A h : ~Unresolved(h)
  BY ReloadSweep
<1>3. \A g \in DOMAIN cfg.sensors : g \in Group /\ (g \notin Forgotten(c) => g \in DOMAIN c.sensors)
  BY ConfigsValid DEF CollectInv, Forgotten
<1>4. ASSUME NEW s \in Source, sensorGauge'[s] # None
      PROVE  \E h \in DOMAIN cfg'.sensors :
               s \in exported'[h] /\ (Unresolved(h)' \/ <<s, sensorGauge'[s]>> \in read'[h])
  <2>1. sensorGauge'[s] = sensorGauge[s] /\ ~\E g \in Forgotten(c) : s \in exported[g]
    BY <1>1, <1>4
  <2>2. PICK h \in DOMAIN cfg.sensors : s \in exported[h] /\ <<s, sensorGauge[s]>> \in read[h]
    BY <2>1, <1>2, <1>4 DEF GaugeInv
  <2>3. h \in Group /\ h \in DOMAIN c.sensors /\ h \notin Forgotten(c)
    BY <2>1, <2>2, <1>3
  <2> QED BY <2>1, <2>2, <2>3, <1>1, <1>2
<1>5. ASSUME NEW h \in Group
      PROVE  /\ groupGauge'[h] # None =>
                  /\ h \in DOMAIN cfg'.sensors
                  /\ rows'[h] # None /\ groupGauge'[h] = rows'[h].value
             /\ flagGauge'[h] # None =>
                  /\ h \in DOMAIN cfg'.sensors
                  /\ rows'[h] # None
                  /\ flagGauge'[h] = [blind |-> rows'[h].blind, held |-> rows'[h].held]
  BY <1>1, <1>2, <1>3 DEF GaugeInv
<1> QED
  BY <1>1, <1>4, <1>5 DEF GaugeInv

\* NoStaleGauge for every configuration: between cycles no series of a source or a
\* group has a value that the last sweep did not give it.
THEOREM GaugesMeasured == WatcherOnly /\ Spec => []NoStaleGauge
<1> SUFFICES ASSUME WatcherOnly
             PROVE  Spec => []NoStaleGauge
  OBVIOUS
<1>1. Spec => [](SweepInv /\ FreshInv)
  BY SensingInvariant
<1>9. Spec => []TypeInv
  BY TypeInvariant
<1>2. Init => GaugeInv
  BY DEF Init, GaugeInv
<1>3. SweepInv /\ TypeInv /\ GaugeInv /\ [Next]_vars => GaugeInv'
  <2> SUFFICES ASSUME SweepInv, TypeInv, GaugeInv, [Next]_vars
               PROVE  GaugeInv'
    OBVIOUS
  <2>1. CASE UNCHANGED vars
    <3>1. UNCHANGED <<cfg, exported, rows, read, sensorGauge, groupGauge, flagGauge>>
      BY <2>1 DEF vars, cycleVars, ctlVars, viewVars
    <3> QED BY <2>1, <3>1, StutterSweep DEF GaugeInv, SweepInv
  <2>2. ASSUME NEW e \in Elapsed, BeginCycle(e) PROVE GaugeInv'
    BY <2>2, BeginGauges
  <2>3. ASSUME NEW g \in Group, Collect(g) PROVE GaugeInv'
    BY <2>3, CollectGauges
  <2>4. CASE Resolve
    BY <2>4, ResolveGauges
  <2>5. CASE EndCycle
    <3>1. UNCHANGED <<cfg, exported, rows, read, sensorGauge, groupGauge, flagGauge>>
      BY <2>5 DEF EndCycle, ctlVars, viewVars
    <3> QED BY <2>5, <3>1, EndSweep DEF GaugeInv, SweepInv
  <2>6. ASSUME NEW c \in Configs, ReloadGroups(c) PROVE GaugeInv'
    BY <2>6, ReloadGauges
  <2> QED BY <2>1, <2>2, <2>3, <2>4, <2>5, <2>6 DEF Next
<1>4. SweepInv /\ GaugeInv => NoStaleGauge
  <2> SUFFICES ASSUME SweepInv, GaugeInv, pc = "idle"
               PROVE  NoStaleGauge
    BY DEF NoStaleGauge
  <2>1. \A g : ~Unresolved(g)
    BY DEF SweepInv, CollectInv, Unresolved
  <2> QED BY <2>1 DEF NoStaleGauge, GaugeInv
<1> QED
  BY <1>1, <1>2, <1>3, <1>4, <1>9, PTL DEF Spec
=============================================================================
