---------------------------- MODULE DisplayProofs ----------------------------
(***************************************************************************)
(* What holds of the display for any fans, configurations and number of    *)
(* edits, of the loop and of the scrapes, in any order.                    *)
(***************************************************************************)
EXTENDS Display, SequenceTheorems, TLAPS

\* What the constants give.
LEMMA ConstantFacts ==
  /\ Stamps \in Nat /\ Stamps >= 2 /\ HistLen \in Nat /\ HistLen >= 1 /\ MaxEdits \in Nat
  /\ \A c \in Configs : c.fans \subseteq Fan /\ c.label \in [Fan -> Label]
  /\ Initial \in Configs
BY DisplayAssumption

\* The ring of times.
LEMMA NextStamp ==
  ASSUME NEW s \in Stamp
  PROVE  Following(s) \in Stamp /\ Following(s) # 0 /\ Following(s) # s
BY ConstantFacts DEF Stamp, Following

(***************************************************************************)
(* Types.                                                                  *)
(***************************************************************************)

\* What App makes of a snapshot of either producer.
LEMMA ReceivedTyped ==
  ASSUME app \in AppState, Len(app.hist) <= HistLen, NEW s \in Snapshot
  PROVE  /\ Received(s) \in AppState /\ Len(Received(s).hist) <= HistLen
         /\ Received(s).snap = s
<1> DEFINE p == [cycle |-> s.lastCycle, value |-> s.value]
           h == Append(app.hist, p)
<1>1. /\ app.hist \in Seq(Point) /\ app.recorded \in Stamp /\ p \in Point
      /\ s.lastCycle \in Stamp /\ HistLen \in Nat /\ HistLen >= 1
  BY ConstantFacts DEF AppState, Snapshot, Point
<1> HIDE DEF p
<1>2. /\ h \in Seq(Point) /\ Len(h) = Len(app.hist) + 1 /\ Len(h) \in Nat
      /\ Len(app.hist) \in Nat /\ h # <<>>
  BY <1>1, AppendProperties, LenProperties
<1>3. Tail(h) \in Seq(Point) /\ Len(Tail(h)) = Len(h) - 1
  BY <1>2, HeadTailProperties
<1> HIDE DEF h
<1>4. Trimmed(h) \in Seq(Point) /\ Len(Trimmed(h)) <= HistLen
  BY <1>1, <1>2, <1>3 DEF Trimmed
<1> QED
  BY <1>1, <1>4 DEF Received, AppState, p, h

\* Everything App can be sent is a snapshot.
LEMMA SnapshotsTyped ==
  ASSUME DisplayTypeOK
  PROVE  /\ Blank \in Snapshot /\ Published \in Snapshot
         /\ \A s \in Snapshot : Draft(s) \in Snapshot
         /\ \A s \in Sample, c \in Configs : Rebuilt(s, c) \in Snapshot
<1>1. Stamp # {} /\ 0 \in Stamp /\ app.snap \in Snapshot
  BY ConstantFacts DEF Stamp, DisplayTypeOK, AppState
<1>2. Blank \in Snapshot
  BY <1>1 DEF Blank, Snapshot
<1>3. ASSUME NEW s \in Sample, NEW c \in Configs
      PROVE  Rebuilt(s, c) \in Snapshot
  <2>1. {f \in c.fans : FanVerdict(s, f) = "1"} \in SUBSET Fan
    BY ConstantFacts
  <2>2. stamp \in Stamp /\ info \in Configs \cup {None}
    BY DEF DisplayTypeOK
  <2>3. ({f \in c.fans : FanVerdict(s, f) = "1"} = {} /\ Unnamed(s)) \in BOOLEAN
    OBVIOUS
  <2> QED BY <1>1, <2>1, <2>2, <2>3 DEF Rebuilt, Snapshot
<1> QED
  BY <1>1, <1>2, <1>3 DEF Published, Draft

LEMMA PublishTyped ==
  ASSUME DisplayTypeOK, NEW s \in Snapshot, Publish(s)
  PROVE  app' \in AppState /\ Len(app'.hist) <= HistLen
BY ReceivedTyped DEF DisplayTypeOK, Publish

LEMMA SenseTyped == DisplayTypeOK /\ Sense => DisplayTypeOK'
<1> SUFFICES ASSUME DisplayTypeOK, Sense PROVE DisplayTypeOK'
  OBVIOUS
<1> DEFINE s == [Published EXCEPT !.lastCycle = 0, !.flagged = CarriedRows,
                                  !.value = Following(stamp), !.config = cfg]
<1>1. Published \in Snapshot /\ stamp \in Stamp /\ cfg \in Configs /\ Following(stamp) \in Stamp
  BY SnapshotsTyped, NextStamp DEF DisplayTypeOK
<1>2. CarriedRows \subseteq Fan /\ 0 \in Stamp
  BY <1>1, ConstantFacts DEF CarriedRows, Stamp
<1>3. s \in Snapshot
  BY <1>1, <1>2 DEF Snapshot
<1>4. snap' = Draft(s) /\ Publish(snap')
  BY DEF Sense
<1>5. snap' \in Snapshot
  BY <1>3, <1>4, SnapshotsTyped
<1>6. app' \in AppState /\ Len(app'.hist) <= HistLen
  BY <1>4, <1>5, PublishTyped
<1> QED
  BY <1>1, <1>5, <1>6 DEF Sense, DisplayTypeOK, gaugeVars, cfgVars

LEMMA CycleTyped == DisplayTypeOK /\ Cycle => DisplayTypeOK'
<1> SUFFICES ASSUME DisplayTypeOK, Cycle PROVE DisplayTypeOK'
  OBVIOUS
<1>1. snap \in Snapshot /\ Blank \in Snapshot /\ stamp \in Stamp
  BY SnapshotsTyped DEF DisplayTypeOK
<1>2. CASE FailCycle
  <2>1. app' \in AppState /\ Len(app'.hist) <= HistLen /\ snap' \in Snapshot
    BY <1>1, <1>2, PublishTyped DEF FailCycle
  <2> QED BY <1>2, <2>1 DEF FailCycle, DisplayTypeOK, gaugeVars, cfgVars
<1>3. CASE ReadBack
  <2>1. [snap EXCEPT !.flagged = {}] \in Snapshot
    BY <1>1 DEF Snapshot
  <2>2. snap' \in Snapshot
    BY <1>3, <2>1, SnapshotsTyped DEF ReadBack
  <2>3. todo' \subseteq Fan
    BY <1>3, ConstantFacts DEF ReadBack, DisplayTypeOK
  <2> QED BY <1>3, <2>2, <2>3 DEF ReadBack, DisplayTypeOK, gaugeVars, viewVars, cfgVars
<1>4. CASE JudgeFan
  <2>1. PICK f \in todo, v \in Verdicts :
          /\ todo' = todo \ {f} /\ verdict' = [verdict EXCEPT ![f] = v]
          /\ mismatch' = [mismatch EXCEPT ![<<f, mine.label[f]>>] = VerdictGauge(@, v)]
          /\ snap' = IF v = "bad" THEN Draft([snap EXCEPT !.flagged = @ \cup {f}]) ELSE snap
          /\ witness' = IF v = "bad" /\ scrape.on THEN witness \cup {f} ELSE witness
    BY <1>4 DEF JudgeFan
  <2>2. f \in Fan
    BY DEF DisplayTypeOK
  <2>3. [snap EXCEPT !.flagged = @ \cup {f}] \in Snapshot
    BY <1>1, <2>2 DEF Snapshot
  <2>4. snap' \in Snapshot
    BY <1>1, <2>1, <2>3, SnapshotsTyped
  <2>5. \A old : VerdictGauge(old, v) \in Series
    BY DEF VerdictGauge, Series
  <2>6. mismatch' \in [Fan \X Label -> Series]
    BY <2>1, <2>5 DEF DisplayTypeOK
  <2>7. verdict' \in [Fan -> Verdicts] /\ todo' \subseteq Fan /\ witness' \subseteq Fan
    BY <2>1, <2>2 DEF DisplayTypeOK
  <2> QED BY <1>4, <2>4, <2>6, <2>7 DEF JudgeFan, DisplayTypeOK, cfgVars
<1>5. CASE EndCycle
  <2>1. Following(stamp) \in Stamp
    BY <1>1, NextStamp
  <2>2. [snap EXCEPT !.lastCycle = stamp'] \in Snapshot
    BY <1>1, <1>5, <2>1 DEF Snapshot, EndCycle
  <2>3. app' \in AppState /\ Len(app'.hist) <= HistLen /\ snap' \in Snapshot
    BY <1>1, <1>5, <2>2, PublishTyped DEF EndCycle
  <2> QED BY <1>5, <2>1, <2>3 DEF EndCycle, DisplayTypeOK, cfgVars
<1> QED
  BY <1>2, <1>3, <1>4, <1>5 DEF Cycle

LEMMA ReloadTyped ==
  ASSUME DisplayTypeOK, NEW p \in Reloaders, SwapConfig(p) \/ Announce(p)
  PROVE  DisplayTypeOK'
<1>1. p \in {"watch", "hup"}
  BY DisplayAssumption
<1>2. CASE SwapConfig(p)
  <2>1. edits' \in 0..MaxEdits
    BY <1>2, ConstantFacts DEF SwapConfig, DisplayTypeOK
  <2>2. cfg' \in Configs /\ announcing' \in [{"watch", "hup"} -> Configs \cup {None}]
    BY <1>1, <1>2 DEF SwapConfig, DisplayTypeOK
  <2> QED BY <1>2, <2>1, <2>2 DEF SwapConfig, DisplayTypeOK, loopVars, gaugeVars, viewVars
<1>3. CASE Announce(p)
  <2>1. info' \in Configs /\ announcing' \in [{"watch", "hup"} -> Configs \cup {None}]
    BY <1>1, <1>3 DEF Announce, ConfigInfo, DisplayTypeOK
  <2> QED BY <1>3, <2>1 DEF Announce, DisplayTypeOK, loopVars, viewVars
<1> QED
  BY <1>2, <1>3

\* What a scrape has read before it reads one series more.
LEMMA SeriesRead ==
  ASSUME DisplayTypeOK, ReadSeries
  PROVE  /\ scrape' \in [on : BOOLEAN, sample : Sample] /\ scrape.on /\ scrape'.on
         /\ UNCHANGED <<loopVars, gaugeVars, cfgVars, mode, viewCfg, app, witness>>
         /\ scrape'.sample.effect \in {scrape.sample.effect, effect}
         /\ \A x \in Fan \X Label :
              scrape'.sample.mismatch[x] = scrape.sample.mismatch[x]
              \/ (scrape.sample.mismatch[x] = Unread
                  /\ scrape'.sample.mismatch[x] = mismatch[x])
<1> DEFINE s == scrape.sample
<1>1. /\ scrape \in [on : BOOLEAN, sample : Sample] /\ s \in Sample
      /\ mismatch \in [Fan \X Label -> Series] /\ effect \in {None, "0", "1"}
  BY DEF DisplayTypeOK
<1>2. ASSUME NEW x \in DOMAIN mismatch, s.mismatch[x] = Unread,
             Sampled([s EXCEPT !.mismatch[x] = mismatch[x]])
      PROVE  /\ scrape' \in [on : BOOLEAN, sample : Sample] /\ scrape.on /\ scrape'.on
             /\ scrape'.sample.effect = s.effect
             /\ scrape'.sample.mismatch = [s.mismatch EXCEPT ![x] = mismatch[x]]
  BY <1>1, <1>2 DEF Sampled, Sample
<1>3. ASSUME Sampled([s EXCEPT !.effect = effect])
      PROVE  /\ scrape' \in [on : BOOLEAN, sample : Sample] /\ scrape.on /\ scrape'.on
             /\ scrape'.sample.effect = effect
             /\ scrape'.sample.mismatch = s.mismatch
  BY <1>1, <1>3 DEF Sampled, Sample
<1>4. s.mismatch \in [Fan \X Label -> Series \cup {Unread}]
  BY <1>1 DEF Sample
<1> HIDE DEF s
<1>5. \/ \E x \in DOMAIN mismatch : /\ s.mismatch[x] = Unread
                                   /\ Sampled([s EXCEPT !.mismatch[x] = mismatch[x]])
      \/ Sampled([s EXCEPT !.effect = effect])
  BY DEF ReadSeries, s
<1>6. UNCHANGED <<loopVars, gaugeVars, cfgVars, mode, viewCfg, app, witness>>
  BY DEF ReadSeries
<1>7. CASE Sampled([s EXCEPT !.effect = effect])
  BY <1>3, <1>6, <1>7 DEF s
<1>8. ASSUME NEW x \in DOMAIN mismatch, s.mismatch[x] = Unread,
             Sampled([s EXCEPT !.mismatch[x] = mismatch[x]])
      PROVE  /\ scrape' \in [on : BOOLEAN, sample : Sample] /\ scrape.on /\ scrape'.on
             /\ scrape'.sample.effect = s.effect
             /\ \A y \in Fan \X Label :
                  scrape'.sample.mismatch[y] = s.mismatch[y]
                  \/ (s.mismatch[y] = Unread /\ scrape'.sample.mismatch[y] = mismatch[y])
  BY <1>2, <1>4, <1>8
<1> QED
  BY <1>5, <1>6, <1>7, <1>8 DEF s

LEMMA ScrapeTyped == DisplayTypeOK /\ Scrape => DisplayTypeOK'
<1> SUFFICES ASSUME DisplayTypeOK, Scrape PROVE DisplayTypeOK'
  OBVIOUS
<1>1. NotScraping \in Sample
  BY DEF NotScraping, Sample
<1>2. CASE BeginScrape
  <2>1. witness' \subseteq Fan
    BY <1>2, ConstantFacts DEF BeginScrape, BelowFloor, DisplayTypeOK
  <2> QED
    BY <1>1, <1>2, <2>1 DEF BeginScrape, DisplayTypeOK, loopVars, gaugeVars, cfgVars
<1>3. CASE ReadSeries
  BY <1>3, SeriesRead DEF DisplayTypeOK, loopVars, gaugeVars, cfgVars
<1>4. CASE EndScrape
  <2>1. Rebuilt(scrape.sample, viewCfg) \in Snapshot
    BY SnapshotsTyped DEF DisplayTypeOK
  <2>2. app' \in AppState /\ Len(app'.hist) <= HistLen
    BY <1>4, <2>1, ReceivedTyped DEF EndScrape, DisplayTypeOK
  <2> QED
    BY <1>1, <1>4, <2>2 DEF EndScrape, DisplayTypeOK, loopVars, gaugeVars, cfgVars
<1>5. CASE ScrapeFails
  <2>1. app' \in AppState /\ app'.hist = app.hist
    BY <1>5 DEF ScrapeFails, DisplayTypeOK, AppState
  <2> QED
    BY <1>1, <1>5, <2>1 DEF ScrapeFails, DisplayTypeOK, loopVars, gaugeVars, cfgVars
<1> QED
  BY <1>2, <1>3, <1>4, <1>5 DEF Scrape

\* DisplayTypeOK for every configuration.
THEOREM DisplayTypes == Spec => []DisplayTypeOK
<1>1. Init => DisplayTypeOK
  <2> SUFFICES ASSUME Init PROVE DisplayTypeOK
    OBVIOUS
  <2>1. Blank \in Snapshot /\ 0 \in Stamp /\ NotScraping \in Sample
    BY ConstantFacts DEF Blank, Snapshot, Stamp, NotScraping, Sample
  <2>2. app \in AppState /\ Len(app.hist) = 0 /\ HistLen \in Nat
    BY <2>1, ConstantFacts DEF Init, AppState
  <2>3. viewCfg \in Configs
    BY ConstantFacts DEF Init
  <2>4. mismatch \in [Fan \X Label -> Series] /\ verdict \in [Fan -> Verdicts]
    BY DEF Init, Series, Nothing, Verdicts
  <2> QED BY <2>1, <2>2, <2>3, <2>4, ConstantFacts DEF Init, DisplayTypeOK
<1>2. DisplayTypeOK /\ [Next]_vars => DisplayTypeOK'
  <2> SUFFICES ASSUME DisplayTypeOK, [Next]_vars PROVE DisplayTypeOK'
    OBVIOUS
  <2>1. CASE UNCHANGED vars
    BY <2>1 DEF vars, cfgVars, loopVars, gaugeVars, viewVars, DisplayTypeOK
  <2> QED BY <2>1, SenseTyped, CycleTyped, ReloadTyped, ScrapeTyped DEF Next
<1> QED
  BY <1>1, <1>2, PTL DEF Spec
-----------------------------------------------------------------------------
(***************************************************************************)
(* The trend series.                                                       *)
(***************************************************************************)

\* A series grows at its end, and may lose its first point: two neighbours are
\* neighbours from before, or the last of before and the new one.
LEMMA SeriesGrows ==
  ASSUME NEW h \in Seq(Point), NEW p \in Point, NEW g, g = Trimmed(Append(h, p))
  PROVE  /\ Len(g) \in Nat /\ Len(g) >= 1 /\ g[Len(g)] = p
         /\ \A i \in 1..Len(g) : g[i] = p \/ \E j \in 1..Len(h) : g[i] = h[j]
         /\ \A i \in 1..Len(g) : i > 1 =>
              \/ Len(h) >= 1 /\ g[i] = p /\ g[i - 1] = h[Len(h)]
              \/ \E j \in 1..Len(h) : j > 1 /\ g[i] = h[j] /\ g[i - 1] = h[j - 1]
<1> DEFINE a == Append(h, p)
<1>0. g = Trimmed(a)
  OBVIOUS
<1>1. /\ a \in Seq(Point) /\ Len(a) = Len(h) + 1 /\ Len(h) \in Nat /\ a # <<>>
      /\ \A i \in 1..Len(h) : a[i] = h[i]
      /\ a[Len(h) + 1] = p
  BY AppendProperties, LenProperties
<1> HIDE DEF a
<1>2. /\ Len(Tail(a)) = Len(a) - 1
      /\ \A i \in 1..Len(Tail(a)) : Tail(a)[i] = a[i + 1]
  BY <1>1, HeadTailProperties
<1>3. CASE Len(a) > HistLen
  <2>1. g = Tail(a) /\ Len(h) >= 1
    BY <1>0, <1>1, <1>3, ConstantFacts DEF Trimmed
  <2>2. Len(g) = Len(h) /\ Len(g) \in Nat /\ Len(g) >= 1 /\ g[Len(g)] = p
    BY <1>1, <1>2, <2>1
  <2>3. \A i \in 1..Len(g) : i # Len(g) => i + 1 \in 1..Len(h) /\ g[i] = h[i + 1]
    BY <1>1, <1>2, <2>1, <2>2
  <2>4. ASSUME NEW i \in 1..Len(g), i > 1
        PROVE  \/ Len(h) >= 1 /\ g[i] = p /\ g[i - 1] = h[Len(h)]
               \/ \E j \in 1..Len(h) : j > 1 /\ g[i] = h[j] /\ g[i - 1] = h[j - 1]
    <3>1. i - 1 \in 1..Len(g) /\ i - 1 # Len(g) /\ g[i - 1] = h[i]
      BY <2>2, <2>3, <2>4
    <3>2. CASE i = Len(g)
      BY <2>1, <2>2, <3>1, <3>2
    <3>3. CASE i # Len(g)
      <4>1. i + 1 \in 1..Len(h) /\ g[i] = h[i + 1] /\ i + 1 > 1 /\ (i + 1) - 1 = i
        BY <2>3, <2>4, <3>3
      <4> QED BY <3>1, <4>1
    <3> QED BY <3>2, <3>3
  <2>5. \A i \in 1..Len(g) : g[i] = p \/ \E j \in 1..Len(h) : g[i] = h[j]
    BY <2>2, <2>3
  <2> QED BY <2>2, <2>4, <2>5
<1>4. CASE ~(Len(a) > HistLen)
  <2>1. g = a
    BY <1>0, <1>4 DEF Trimmed
  <2>2. ASSUME NEW i \in 1..Len(a), i > 1
        PROVE  \/ Len(h) >= 1 /\ a[i] = p /\ a[i - 1] = h[Len(h)]
               \/ \E j \in 1..Len(h) : j > 1 /\ a[i] = h[j] /\ a[i - 1] = h[j - 1]
    <3>1. CASE i = Len(h) + 1
      BY <1>1, <2>2, <3>1
    <3>2. CASE i \in 1..Len(h)
      BY <1>1, <2>2, <3>2
    <3> QED BY <1>1, <3>1, <3>2
  <2>3. \A i \in 1..Len(a) : a[i] = p \/ \E j \in 1..Len(h) : a[i] = h[j]
    BY <1>1
  <2>4. Len(a) \in Nat /\ Len(a) >= 1 /\ a[Len(a)] = p
    BY <1>1
  <2> QED BY <2>1, <2>2, <2>3, <2>4
<1> QED
  BY <1>3, <1>4

\* The last point is of the cycle recorded last; the loop that runs in the display
\* drafts, from its sweep on, the reading of the cycle to come.
PointsInv ==
  /\ scrape.on => mode = "attached"
  /\ Len(app.hist) >= 1 => app.hist[Len(app.hist)].cycle = app.recorded
  /\ \A i \in 1..Len(app.hist) : i > 1 => app.hist[i].cycle # app.hist[i - 1].cycle
  /\ mode = "direct" =>
       /\ app.recorded = stamp
       /\ pc # "idle" => snap.lastCycle = 0 /\ snap.value = Following(stamp)
       /\ \A i \in 1..Len(app.hist) :
            /\ app.hist[i].value = app.hist[i].cycle
            /\ i > 1 => app.hist[i].cycle = Following(app.hist[i - 1].cycle)

\* What App records of a complete cycle.
LEMMA PointRecorded ==
  ASSUME DisplayTypeOK, PointsInv, NEW s \in Snapshot, app' = Received(s)
  PROVE  /\ Len(app'.hist) >= 1 => app'.hist[Len(app'.hist)].cycle = app'.recorded
         /\ \A i \in 1..Len(app'.hist) : i > 1 => app'.hist[i].cycle # app'.hist[i - 1].cycle
         /\ app'.recorded = IF NewPoint(s) THEN s.lastCycle ELSE app.recorded
         /\ mode = "direct" /\ (NewPoint(s) => s.value = s.lastCycle
                                               /\ s.lastCycle = Following(app.recorded)) =>
              \A i \in 1..Len(app'.hist) :
                /\ app'.hist[i].value = app'.hist[i].cycle
                /\ i > 1 => app'.hist[i].cycle = Following(app'.hist[i - 1].cycle)
<1>1. CASE ~NewPoint(s)
  <2>1. app'.hist = app.hist /\ app'.recorded = app.recorded
    BY <1>1 DEF Received
  <2> QED BY <1>1, <2>1 DEF PointsInv
<1>2. CASE NewPoint(s)
  <2> DEFINE h == app.hist
             p == [cycle |-> s.lastCycle, value |-> s.value]
             g == Trimmed(Append(h, p))
  <2>1. /\ app'.hist = g /\ app'.recorded = s.lastCycle
        /\ p.cycle = s.lastCycle /\ p.value = s.value
        /\ s.lastCycle # app.recorded
    BY <1>2 DEF Received, NewPoint
  <2>2. h \in Seq(Point) /\ p \in Point
    BY DEF DisplayTypeOK, AppState, Snapshot, Point
  <2>7. g = Trimmed(Append(h, p))
    OBVIOUS
  <2>4. /\ Len(h) >= 1 => h[Len(h)].cycle = app.recorded
        /\ \A j \in 1..Len(h) : j > 1 => h[j].cycle # h[j - 1].cycle
        /\ mode = "direct" => \A j \in 1..Len(h) :
             h[j].value = h[j].cycle /\ (j > 1 => h[j].cycle = Following(h[j - 1].cycle))
    BY DEF PointsInv
  <2> HIDE DEF p, g, h
  <2>3. /\ Len(g) \in Nat /\ Len(g) >= 1 /\ g[Len(g)] = p
        /\ \A i \in 1..Len(g) : g[i] = p \/ \E j \in 1..Len(h) : g[i] = h[j]
        /\ \A i \in 1..Len(g) : i > 1 =>
             \/ Len(h) >= 1 /\ g[i] = p /\ g[i - 1] = h[Len(h)]
             \/ \E j \in 1..Len(h) : j > 1 /\ g[i] = h[j] /\ g[i - 1] = h[j - 1]
    BY <2>2, <2>7, SeriesGrows
  <2>5. ASSUME NEW i \in 1..Len(g), i > 1
        PROVE  g[i].cycle # g[i - 1].cycle
    BY <2>1, <2>3, <2>4, <2>5
  <2>6. ASSUME mode = "direct", s.value = s.lastCycle, s.lastCycle = Following(app.recorded),
               NEW i \in 1..Len(g)
        PROVE  /\ g[i].value = g[i].cycle
               /\ i > 1 => g[i].cycle = Following(g[i - 1].cycle)
    <3>1. g[i].value = g[i].cycle
      BY <2>1, <2>3, <2>4, <2>6
    <3>2. ASSUME i > 1
          PROVE  g[i].cycle = Following(g[i - 1].cycle)
      BY <2>1, <2>3, <2>4, <2>6, <3>2
    <3> QED BY <3>1, <3>2
  <2> QED BY <1>2, <2>1, <2>3, <2>5, <2>6
<1> QED
  BY <1>1, <1>2

LEMMA SensePoints == DisplayTypeOK /\ PointsInv /\ Sense => PointsInv'
<1> SUFFICES ASSUME DisplayTypeOK, PointsInv, Sense PROVE PointsInv'
  OBVIOUS
<1> DEFINE s == [Published EXCEPT !.lastCycle = 0, !.flagged = CarriedRows,
                                  !.value = Following(stamp), !.config = cfg]
<1>1. UNCHANGED <<stamp, mode, scrape>> /\ pc' = "sensed" /\ snap' = Draft(s) /\ Publish(snap')
  BY DEF Sense
<1>2. CASE mode = "direct"
  <2>1. Published \in Snapshot /\ snap' = s
    BY <1>1, <1>2, SnapshotsTyped DEF Draft
  <2>2. s.lastCycle = 0 /\ s.value = Following(stamp)
    BY <2>1 DEF Snapshot
  <2>3. snap' \in Snapshot
    BY SenseTyped DEF DisplayTypeOK
  <2>4. app' = Received(snap') /\ ~NewPoint(snap')
    BY <1>1, <1>2, <2>1, <2>2 DEF Publish, NewPoint
  <2> QED BY <1>1, <1>2, <2>1, <2>2, <2>3, <2>4, PointRecorded DEF PointsInv
<1>3. CASE mode # "direct"
  <2>1. app' = app
    BY <1>1, <1>3 DEF Publish
  <2> QED BY <1>1, <1>3, <2>1 DEF PointsInv
<1> QED
  BY <1>2, <1>3

LEMMA CyclePoints == DisplayTypeOK /\ PointsInv /\ Cycle => PointsInv'
<1> SUFFICES ASSUME DisplayTypeOK, PointsInv, Cycle PROVE PointsInv'
  OBVIOUS
<1>1. snap \in Snapshot /\ stamp \in Stamp
  BY DEF DisplayTypeOK
<1>2. CASE FailCycle
  <2>1. UNCHANGED <<stamp, mode, scrape>> /\ pc = "sensed" /\ pc' = "idle" /\ Publish(snap)
    BY <1>2 DEF FailCycle
  <2>2. CASE mode = "direct"
    <3>1. app' = Received(snap) /\ ~NewPoint(snap)
      BY <2>1, <2>2 DEF Publish, NewPoint, PointsInv
    <3> QED BY <1>1, <2>1, <2>2, <3>1, PointRecorded DEF PointsInv
  <2>3. CASE mode # "direct"
    <3>1. app' = app
      BY <2>1, <2>3 DEF Publish
    <3> QED BY <2>1, <2>3, <3>1 DEF PointsInv
  <2> QED BY <2>2, <2>3
<1>3. CASE ReadBack
  <2>1. UNCHANGED <<stamp, mode, scrape, app>> /\ pc = "sensed"
        /\ snap' = Draft([snap EXCEPT !.flagged = {}])
    BY <1>3 DEF ReadBack, viewVars
  <2>2. mode = "direct" => snap'.lastCycle = snap.lastCycle /\ snap'.value = snap.value
    BY <1>1, <2>1 DEF Draft, Snapshot
  <2> QED BY <2>1, <2>2 DEF PointsInv
<1>4. CASE JudgeFan
  <2>1. PICK f \in todo, v \in Verdicts :
          snap' = IF v = "bad" THEN Draft([snap EXCEPT !.flagged = @ \cup {f}]) ELSE snap
    BY <1>4 DEF JudgeFan
  <2>2. UNCHANGED <<stamp, mode, scrape, app, pc>>
    BY <1>4 DEF JudgeFan
  <2>3. mode = "direct" => snap'.lastCycle = snap.lastCycle /\ snap'.value = snap.value
    BY <1>1, <2>1 DEF Draft, Snapshot
  <2> QED BY <2>2, <2>3 DEF PointsInv
<1>5. CASE EndCycle
  <2> DEFINE s == [snap EXCEPT !.lastCycle = Following(stamp)]
  <2>1. /\ UNCHANGED <<mode, scrape>> /\ pc = "judging" /\ pc' = "idle"
        /\ stamp' = Following(stamp) /\ Publish(s)
    BY <1>5 DEF EndCycle
  <2>2. s \in Snapshot /\ s.lastCycle = Following(stamp) /\ s.value = snap.value
    BY <1>1, NextStamp DEF Snapshot
  <2> HIDE DEF s
  <2>3. CASE mode = "direct"
    <3>1. app' = Received(s) /\ NewPoint(s) /\ s.value = s.lastCycle
          /\ s.lastCycle = Following(app.recorded)
      BY <1>1, <2>1, <2>2, <2>3, NextStamp DEF Publish, NewPoint, PointsInv
    <3> QED BY <2>1, <2>2, <2>3, <3>1, PointRecorded DEF PointsInv
  <2>4. CASE mode # "direct"
    <3>1. app' = app
      BY <2>1, <2>4 DEF Publish
    <3> QED BY <2>1, <2>4, <3>1 DEF PointsInv
  <2> QED BY <2>3, <2>4
<1> QED
  BY <1>2, <1>3, <1>4, <1>5 DEF Cycle

LEMMA ScrapePoints == DisplayTypeOK /\ PointsInv /\ Scrape => PointsInv'
<1> SUFFICES ASSUME DisplayTypeOK, PointsInv, Scrape PROVE PointsInv'
  OBVIOUS
<1>1. mode = "attached" /\ UNCHANGED <<mode, stamp, pc, snap>>
  <2>1. BeginScrape \/ scrape.on
    BY DEF Scrape, ReadSeries, Sampled, EndScrape, ScrapeFails
  <2>2. UNCHANGED <<mode, stamp, pc, snap>>
    BY DEF Scrape, BeginScrape, ReadSeries, EndScrape, ScrapeFails, loopVars
  <2> QED BY <2>1, <2>2 DEF BeginScrape, PointsInv
<1>2. CASE EndScrape
  <2>1. Rebuilt(scrape.sample, viewCfg) \in Snapshot
    BY SnapshotsTyped DEF DisplayTypeOK
  <2>2. app' = Received(Rebuilt(scrape.sample, viewCfg))
    BY <1>2 DEF EndScrape
  <2> QED BY <1>1, <2>1, <2>2, PointRecorded DEF PointsInv
<1>3. CASE ~EndScrape
  <2>1. app'.hist = app.hist /\ app'.recorded = app.recorded
    BY <1>3 DEF Scrape, BeginScrape, ReadSeries, ScrapeFails, DisplayTypeOK, AppState
  <2> QED BY <1>1, <2>1 DEF PointsInv
<1> QED
  BY <1>2, <1>3

\* OnePointPerCycle for every length of the series and number of cycles.
THEOREM OnePoint == Spec => []OnePointPerCycle
<1>1. Init => PointsInv
  BY DEF Init, PointsInv
<1>2. DisplayTypeOK /\ PointsInv /\ [Next]_vars => PointsInv'
  <2> SUFFICES ASSUME DisplayTypeOK, PointsInv, [Next]_vars PROVE PointsInv'
    OBVIOUS
  <2>1. CASE UNCHANGED vars
    BY <2>1 DEF vars, loopVars, viewVars, PointsInv
  <2>2. ASSUME NEW p \in Reloaders, SwapConfig(p) \/ Announce(p) PROVE PointsInv'
    BY <2>2 DEF SwapConfig, Announce, loopVars, viewVars, PointsInv
  <2> QED BY <2>1, <2>2, SensePoints, CyclePoints, ScrapePoints DEF Next
<1>3. DisplayTypeOK /\ PointsInv => OnePointPerCycle
  <2> SUFFICES ASSUME DisplayTypeOK, PointsInv PROVE OnePointPerCycle
    OBVIOUS
  <2>1. DOMAIN app.hist = 1..Len(app.hist)
    BY LenProperties DEF DisplayTypeOK, AppState
  <2> QED BY <2>1 DEF OnePointPerCycle, PointsInv
<1> QED
  BY <1>1, <1>2, <1>3, DisplayTypes, PTL DEF Spec
-----------------------------------------------------------------------------
(***************************************************************************)
(* The alarms, with edits that leave the fans and their labels alone.      *)
(***************************************************************************)
SameFans == \A c, d \in Configs : c.fans = d.fans /\ c.label = d.label

Fans == Initial.fans

\* The series a fan's verdict is exported as.
SeriesOf(f) == <<f, Initial.label[f]>>

LEMMA FansFixed ==
  ASSUME SameFans, NEW c \in Configs
  PROVE  /\ c.fans = Fans /\ c.label = Initial.label /\ Fans \subseteq Fan
         /\ \A f \in Fan : SeriesOf(f) \in Fan \X Label /\ Initial.label[f] \in Label
BY ConstantFacts DEF SameFans, Fans, SeriesOf

Bad == {f \in Fans : verdict[f] = "bad"}

\* Only the series of the fans are there, and say what verify said.
GaugesInv ==
  /\ todo \subseteq Fans
  /\ \A x \in Fan \X Label : mismatch[x] # "absent" => \E f \in Fans : x = SeriesOf(f)
  /\ \A f \in Fans : mismatch[SeriesOf(f)] = "1" <=> verdict[f] = "bad"

\* With a display that runs the loop: the rows are the verdicts, but for those fans
\* that the read-back has yet to come to.
RowsInv ==
  mode = "direct" =>
    /\ ~snap.unnamed /\ ~app.snap.unnamed
    /\ pc = "idle" => app.snap.flagged = Bad
    /\ pc = "sensed" => snap.flagged = Bad
    /\ pc = "judging" => snap.flagged = Bad \ todo

\* What a scrape has read so far: of the fans' series, with none flagged that was not
\* below its floor since it began; and an effect of "0" is not all there is to see.
ScrapeInv ==
  scrape.on =>
    /\ Bad \subseteq witness
    /\ \A x \in Fan \X Label :
         scrape.sample.mismatch[x] \notin {"absent", Unread} => \E f \in Fans : x = SeriesOf(f)
    /\ \A f \in Fans : scrape.sample.mismatch[SeriesOf(f)] = "1" => f \in witness
    /\ witness = {} /\ "0" \in {effect, scrape.sample.effect} =>
         \E f \in Fans : /\ mismatch[SeriesOf(f)] # "absent"
                         /\ scrape.sample.mismatch[SeriesOf(f)] # "absent"

EffectInv == effect = "0" => \E f \in Fans : mismatch[SeriesOf(f)] # "absent"

AlarmInv == DisplayTypeOK /\ PointsInv /\ GaugesInv /\ RowsInv /\ ScrapeInv /\ EffectInv

\* With one label for each fan, byLabel finds that fan's series.
LEMMA OneSeries ==
  ASSUME SameFans, NEW s, NEW f \in Fans,
         \A x \in Fan \X Label : s.mismatch[x] # "absent" => \E g \in Fans : x = SeriesOf(g)
  PROVE  FanVerdict(s, f) = "1" <=> s.mismatch[SeriesOf(f)] = "1"
<1> DEFINE l == Initial.label[f]
           there == {k \in Label : s.mismatch[<<f, k>>] # "absent"}
<1>1. Initial \in Configs /\ Label \subseteq Nat /\ None # "1"
  BY DisplayAssumption
<1>2. f \in Fan /\ l \in Label /\ SeriesOf(f) = <<f, l>>
  BY <1>1, FansFixed DEF SeriesOf
<1>3. ASSUME NEW k \in Label, s.mismatch[<<f, k>>] # "absent"
      PROVE  k = l
  <2>1. PICK g \in Fans : <<f, k>> = SeriesOf(g)
    BY <1>2, <1>3
  <2> QED BY <2>1 DEF SeriesOf
<1>4. CASE s.mismatch[<<f, l>>] = "absent"
  <2>1. there = {}
    BY <1>3, <1>4
  <2>2. FanVerdict(s, f) = None
    BY <2>1 DEF FanVerdict
  <2> QED BY <1>1, <1>2, <1>4, <2>2
<1>5. CASE s.mismatch[<<f, l>>] # "absent"
  <2>1. there = {l}
    BY <1>2, <1>3, <1>5
  <2>2. (CHOOSE k \in {l} : \A m \in {l} : m <= k) = l
    BY <1>1, <1>2
  <2>3. FanVerdict(s, f) = s.mismatch[<<f, l>>]
    <3> HIDE DEF l
    <3> QED BY <2>1, <2>2 DEF FanVerdict
  <2> QED BY <1>2, <2>3
<1> QED
  BY <1>4, <1>5

LEMMA AlarmInit == SameFans /\ Init => GaugesInv /\ RowsInv /\ ScrapeInv /\ EffectInv
<1> SUFFICES ASSUME SameFans, Init PROVE GaugesInv /\ RowsInv /\ ScrapeInv /\ EffectInv
  OBVIOUS
<1>1. /\ None \notin {"bad", "0"} /\ Initial \in Configs
      /\ \A f \in Fans : f \in Fan /\ SeriesOf(f) \in Fan \X Label
  BY DisplayAssumption, FansFixed
<1>2. Bad = {}
  BY <1>1 DEF Init, Bad, Nothing
<1>3. GaugesInv
  BY <1>1 DEF Init, GaugesInv, Nothing
<1> QED
  BY <1>1, <1>2, <1>3 DEF Init, RowsInv, Blank, ScrapeInv, EffectInv

LEMMA SenseAlarms == SameFans /\ AlarmInv /\ Sense => AlarmInv'
<1> SUFFICES ASSUME SameFans, AlarmInv, Sense PROVE AlarmInv'
  OBVIOUS
<1> DEFINE s == [Published EXCEPT !.lastCycle = 0, !.flagged = CarriedRows,
                                  !.value = Following(stamp), !.config = cfg]
<1>1. /\ pc = "idle" /\ pc' = "sensed" /\ snap' = Draft(s) /\ Publish(snap')
      /\ UNCHANGED <<todo, verdict, mismatch, effect, mode, scrape, witness>>
  BY DEF Sense, gaugeVars
<1>2. DisplayTypeOK' /\ PointsInv'
  BY SenseTyped, SensePoints DEF AlarmInv
<1>3. RowsInv'
  <2> SUFFICES ASSUME mode = "direct"
               PROVE  ~snap'.unnamed /\ ~app'.snap.unnamed /\ snap'.flagged = Bad
    BY <1>1 DEF RowsInv, Bad
  <2>1. Published \in Snapshot /\ Published = app.snap /\ snap' = s
    BY <1>1, SnapshotsTyped DEF AlarmInv, Published, Draft
  <2>2. s.unnamed = Published.unnamed /\ s.flagged = CarriedRows
    BY <2>1 DEF Snapshot
  <2>3. ~app.snap.unnamed /\ app.snap.flagged = Bad
    BY <1>1 DEF AlarmInv, RowsInv
  <2>4. cfg.fans = Fans
    BY FansFixed DEF AlarmInv, DisplayTypeOK
  <2>5. CarriedRows = Bad
    BY <2>1, <2>3, <2>4 DEF CarriedRows, Bad
  <2>6. app'.snap = snap'
    BY <1>1 DEF Publish, Received
  <2> QED BY <2>1, <2>2, <2>3, <2>5, <2>6
<1> QED
  BY <1>1, <1>2, <1>3 DEF AlarmInv, GaugesInv, ScrapeInv, EffectInv, Bad

LEMMA CycleAlarms == SameFans /\ AlarmInv /\ Cycle => AlarmInv'
<1> SUFFICES ASSUME SameFans, AlarmInv, Cycle PROVE AlarmInv'
  OBVIOUS
<1>1. DisplayTypeOK' /\ PointsInv'
  BY CycleTyped, CyclePoints DEF AlarmInv
<1>2. /\ snap \in Snapshot /\ mine.fans = Fans /\ mine.label = Initial.label
      /\ \A f \in Fans : f \in Fan /\ SeriesOf(f) \in Fan \X Label
      /\ mode = "direct" => ~scrape.on
  BY FansFixed DEF AlarmInv, DisplayTypeOK, PointsInv
<1>3. CASE FailCycle
  <2>1. /\ UNCHANGED <<todo, verdict, mismatch, effect, mode, scrape, witness>>
        /\ pc = "sensed" /\ pc' = "idle" /\ snap' = Blank /\ Publish(snap)
    BY <1>3 DEF FailCycle, gaugeVars
  <2>2. mode = "direct" => app'.snap = snap /\ ~snap'.unnamed
    BY <2>1 DEF Publish, Received, Blank
  <2> QED
    BY <1>1, <2>1, <2>2 DEF AlarmInv, GaugesInv, RowsInv, ScrapeInv, EffectInv, Bad
<1>4. CASE ReadBack
  <2>1. /\ UNCHANGED <<verdict, mismatch, effect, mode, app, scrape, witness>>
        /\ pc' = "judging" /\ todo' = Fans /\ snap' = Draft([snap EXCEPT !.flagged = {}])
    BY <1>2, <1>4 DEF ReadBack, gaugeVars, viewVars
  <2>2. mode = "direct" => snap'.flagged = {} /\ snap'.unnamed = snap.unnamed
    BY <1>2, <2>1 DEF Draft, Snapshot
  <2> QED
    BY <1>1, <2>1, <2>2 DEF AlarmInv, GaugesInv, RowsInv, ScrapeInv, EffectInv, Bad
<1>5. CASE JudgeFan
  <2>1. PICK f \in todo, v \in Verdicts :
          /\ todo' = todo \ {f} /\ verdict' = [verdict EXCEPT ![f] = v]
          /\ mismatch' = [mismatch EXCEPT ![SeriesOf(f)] = VerdictGauge(@, v)]
          /\ snap' = IF v = "bad" THEN Draft([snap EXCEPT !.flagged = @ \cup {f}]) ELSE snap
          /\ witness' = IF v = "bad" /\ scrape.on THEN witness \cup {f} ELSE witness
    BY <1>2, <1>5 DEF JudgeFan, SeriesOf
  <2>2. pc = "judging" /\ UNCHANGED <<pc, effect, mode, app, scrape>>
    BY <1>5 DEF JudgeFan
  <2>3. f \in Fans /\ f \in Fan
    BY <1>2 DEF AlarmInv, GaugesInv
  <2>4. \A old : (VerdictGauge(old, v) = "1" <=> v = "bad") /\ VerdictGauge(old, v) # "absent"
    BY DisplayAssumption DEF VerdictGauge, Verdicts
  <2>5. /\ \A g \in Fan : verdict'[g] = IF g = f THEN v ELSE verdict[g]
        /\ \A x \in Fan \X Label :
             mismatch'[x] = IF x = SeriesOf(f) THEN VerdictGauge(mismatch[x], v) ELSE mismatch[x]
    BY <2>1 DEF AlarmInv, DisplayTypeOK
  <2>6. \A g \in Fans : SeriesOf(g) = SeriesOf(f) => g = f
    BY DEF SeriesOf
  <2>7. \A x \in Fan \X Label : mismatch[x] # "absent" => mismatch'[x] # "absent"
    BY <2>4, <2>5
  <2>8. GaugesInv'
    <3>1. ASSUME NEW g \in Fans
          PROVE  mismatch'[SeriesOf(g)] = "1" <=> verdict'[g] = "bad"
      <4>1. CASE g = f
        BY <4>1, <1>2, <2>3, <2>4, <2>5
      <4>2. CASE g # f
        BY <4>2, <1>2, <2>5, <2>6 DEF AlarmInv, GaugesInv
      <4> QED BY <4>1, <4>2
    <3>2. ASSUME NEW x \in Fan \X Label, mismatch'[x] # "absent"
          PROVE  \E g \in Fans : x = SeriesOf(g)
      BY <3>2, <2>3, <2>5 DEF AlarmInv, GaugesInv
    <3> QED BY <3>1, <3>2, <2>1 DEF GaugesInv, AlarmInv
  <2>9. Bad' = IF v = "bad" THEN Bad \cup {f} ELSE Bad \ {f}
    BY <1>2, <2>3, <2>5 DEF Bad
  <2>10. RowsInv'
    <3> SUFFICES ASSUME mode = "direct"
                 PROVE  ~snap'.unnamed /\ snap'.flagged = Bad' \ todo'
      BY <2>2 DEF RowsInv, AlarmInv
    <3>1. ~snap.unnamed /\ snap.flagged = Bad \ todo
      BY <2>2 DEF RowsInv, AlarmInv
    <3>2. CASE v = "bad"
      <4>1. snap'.flagged = snap.flagged \cup {f} /\ snap'.unnamed = snap.unnamed
        BY <1>2, <2>1, <3>2 DEF Draft, Snapshot
      <4> QED BY <4>1, <3>1, <3>2, <2>1, <2>9
    <3>3. CASE v # "bad"
      BY <3>1, <3>3, <2>1, <2>9
    <3> QED BY <3>2, <3>3
  <2>11. ScrapeInv'
    <3> SUFFICES ASSUME scrape.on
                 PROVE  ScrapeInv'
      BY <2>2 DEF ScrapeInv
    <3>1. /\ Bad \subseteq witness
          /\ \A x \in Fan \X Label :
               scrape.sample.mismatch[x] \notin {"absent", Unread} =>
                 \E g \in Fans : x = SeriesOf(g)
          /\ \A g \in Fans : scrape.sample.mismatch[SeriesOf(g)] = "1" => g \in witness
          /\ witness = {} /\ "0" \in {effect, scrape.sample.effect} =>
               \E g \in Fans : /\ mismatch[SeriesOf(g)] # "absent"
                               /\ scrape.sample.mismatch[SeriesOf(g)] # "absent"
      BY DEF AlarmInv, ScrapeInv
    <3>2. witness \subseteq witness' /\ Bad' \subseteq witness'
      BY <2>1, <2>9, <3>1
    <3> QED BY <3>1, <3>2, <1>2, <2>2, <2>7 DEF ScrapeInv
  <2>12. EffectInv'
    BY <1>2, <2>2, <2>7 DEF EffectInv, AlarmInv
  <2> QED BY <1>1, <2>8, <2>10, <2>11, <2>12 DEF AlarmInv
<1>6. CASE EndCycle
  <2> DEFINE s == [snap EXCEPT !.lastCycle = stamp']
  <2>1. /\ pc = "judging" /\ pc' = "idle" /\ todo = {} /\ snap' = Blank /\ Publish(s)
        /\ effect' = IF Judged = {} THEN effect ELSE IF AllHonoured THEN "1" ELSE "0"
        /\ UNCHANGED <<todo, verdict, mismatch, mode, scrape, witness>>
    BY <1>6 DEF EndCycle
  <2>2. s.flagged = snap.flagged /\ s.unnamed = snap.unnamed
    BY <1>2 DEF Snapshot
  <2>3. RowsInv'
    <3> HIDE DEF s
    <3>1. mode = "direct" => app'.snap = s /\ ~snap'.unnamed
      BY <2>1 DEF Publish, Received, Blank
    <3> QED BY <2>1, <2>2, <3>1 DEF RowsInv, AlarmInv, Bad
  <2>4. effect' = "0" => effect = "0" \/ \E f \in Fans : verdict[f] = "bad"
    BY <1>2, <2>1 DEF AllHonoured
  <2>5. \A f \in Fans : verdict[f] = "bad" => mismatch[SeriesOf(f)] # "absent" /\ f \in Bad
    BY DEF AlarmInv, GaugesInv, Bad
  <2>6. EffectInv'
    BY <2>1, <2>4, <2>5 DEF EffectInv, AlarmInv
  <2>7. ScrapeInv'
    <3>1. scrape.on /\ witness = {} => ~\E f \in Fans : verdict[f] = "bad"
      BY <2>5 DEF ScrapeInv, AlarmInv
    <3> QED BY <2>1, <2>4, <3>1 DEF ScrapeInv, AlarmInv, Bad
  <2> QED BY <1>1, <2>1, <2>3, <2>6, <2>7 DEF AlarmInv, GaugesInv
<1> QED
  BY <1>3, <1>4, <1>5, <1>6 DEF Cycle

LEMMA ScrapeAlarms == SameFans /\ AlarmInv /\ Scrape => AlarmInv'
<1> SUFFICES ASSUME SameFans, AlarmInv, Scrape PROVE AlarmInv'
  OBVIOUS
<1>1. DisplayTypeOK' /\ PointsInv'
  BY ScrapeTyped, ScrapePoints DEF AlarmInv
<1>2. mode = "attached" /\ mode' = mode
  BY DEF AlarmInv, PointsInv, Scrape, BeginScrape, ReadSeries, Sampled, EndScrape, ScrapeFails
<1>3. RowsInv'
  BY <1>2 DEF RowsInv
<1>4. UNCHANGED <<todo, verdict, mismatch, effect>>
  BY DEF Scrape, BeginScrape, ReadSeries, EndScrape, ScrapeFails, loopVars, gaugeVars
<1>5. GaugesInv' /\ EffectInv' /\ Bad' = Bad
  BY <1>4 DEF AlarmInv, GaugesInv, EffectInv, Bad
<1>6. \A f \in Fans : SeriesOf(f) \in Fan \X Label
  BY FansFixed DEF AlarmInv, DisplayTypeOK
<1>7. ScrapeInv'
  <2>1. CASE BeginScrape
    <3>1. scrape'.sample = NotScraping /\ witness' = BelowFloor
      BY <2>1 DEF BeginScrape
    <3>2. witness' = Bad
      BY <3>1, FansFixed DEF AlarmInv, DisplayTypeOK, BelowFloor, Bad
    <3>3. \A x \in Fan \X Label : scrape'.sample.mismatch[x] = Unread
      BY <3>1 DEF NotScraping
    <3>4. scrape'.sample.effect = Unread /\ Unread \notin {"absent", "0", "1"}
      BY <3>1, DisplayAssumption DEF NotScraping
    <3> QED BY <1>4, <1>5, <1>6, <3>2, <3>3, <3>4 DEF ScrapeInv, EffectInv, AlarmInv
  <2>2. CASE ReadSeries
    <3>1. /\ scrape.on /\ witness' = witness
          /\ scrape'.sample.effect \in {scrape.sample.effect, effect}
          /\ \A x \in Fan \X Label :
               scrape'.sample.mismatch[x] = scrape.sample.mismatch[x]
               \/ (scrape.sample.mismatch[x] = Unread
                   /\ scrape'.sample.mismatch[x] = mismatch[x])
      BY <2>2, SeriesRead DEF AlarmInv
    <3>2. /\ Bad \subseteq witness
          /\ \A x \in Fan \X Label :
               scrape.sample.mismatch[x] \notin {"absent", Unread} =>
                 \E g \in Fans : x = SeriesOf(g)
          /\ \A g \in Fans : scrape.sample.mismatch[SeriesOf(g)] = "1" => g \in witness
          /\ witness = {} /\ "0" \in {effect, scrape.sample.effect} =>
               \E g \in Fans : /\ mismatch[SeriesOf(g)] # "absent"
                               /\ scrape.sample.mismatch[SeriesOf(g)] # "absent"
      BY <3>1 DEF AlarmInv, ScrapeInv
    <3>3. \A x \in Fan \X Label :
            scrape'.sample.mismatch[x] \notin {"absent", Unread} =>
              \E g \in Fans : x = SeriesOf(g)
      BY <3>1, <3>2 DEF AlarmInv, GaugesInv
    <3>4. ASSUME NEW g \in Fans, scrape'.sample.mismatch[SeriesOf(g)] = "1"
          PROVE  g \in witness
      BY <1>6, <3>1, <3>2, <3>4 DEF AlarmInv, GaugesInv, Bad
    <3>5. ASSUME witness = {}, "0" \in {effect, scrape'.sample.effect}
          PROVE  \E g \in Fans : /\ mismatch[SeriesOf(g)] # "absent"
                                 /\ scrape'.sample.mismatch[SeriesOf(g)] # "absent"
      BY <1>6, <3>1, <3>2, <3>5
    <3> QED BY <1>4, <1>5, <3>1, <3>2, <3>3, <3>4, <3>5 DEF ScrapeInv
  <2>3. CASE EndScrape \/ ScrapeFails
    BY <2>3 DEF EndScrape, ScrapeFails, ScrapeInv
  <2> QED BY <2>1, <2>2, <2>3 DEF Scrape
<1> QED
  BY <1>1, <1>3, <1>5, <1>7 DEF AlarmInv

LEMMA ReloadAlarms ==
  ASSUME SameFans, AlarmInv, NEW p \in Reloaders, SwapConfig(p) \/ Announce(p)
  PROVE  AlarmInv' /\ app' = app
<1>1. DisplayTypeOK'
  BY ReloadTyped DEF AlarmInv
<1>2. UNCHANGED <<loopVars, viewVars, mismatch, effect>>
  BY DEF SwapConfig, Announce, gaugeVars
<1> QED
  BY <1>1, <1>2
  DEF AlarmInv, PointsInv, GaugesInv, RowsInv, ScrapeInv, EffectInv, Bad, loopVars, viewVars

LEMMA AlarmInvariant ==
  ASSUME SameFans
  PROVE  Spec => []AlarmInv
<1>1. Init /\ DisplayTypeOK => AlarmInv
  BY AlarmInit DEF AlarmInv, Init, PointsInv
<1>2. AlarmInv /\ [Next]_vars => AlarmInv'
  <2> SUFFICES ASSUME AlarmInv, [Next]_vars PROVE AlarmInv'
    OBVIOUS
  <2>1. CASE UNCHANGED vars
    BY <2>1 DEF vars, cfgVars, loopVars, gaugeVars, viewVars,
                AlarmInv, DisplayTypeOK, PointsInv, GaugesInv, RowsInv, ScrapeInv, EffectInv, Bad
  <2> QED BY <2>1, SenseAlarms, CycleAlarms, ReloadAlarms, ScrapeAlarms DEF Next
<1> QED
  BY <1>1, <1>2, DisplayTypes, PTL DEF Spec

\* ProducersAgree for edits that leave the fans alone: between cycles a scrape would
\* flag the fans that the published snapshot flags.
THEOREM SameFlags == SameFans /\ Spec => []ProducersAgree
<1> SUFFICES ASSUME SameFans
             PROVE  Spec => []ProducersAgree
  OBVIOUS
<1>1. AlarmInv => ProducersAgree
  <2> SUFFICES ASSUME AlarmInv, mode = "direct", pc = "idle"
               PROVE  Rebuilt(AtRest, cfg).flagged = app.snap.flagged
    BY DEF ProducersAgree
  <2>1. cfg.fans = Fans /\ app.snap.flagged = Bad /\ AtRest.mismatch = mismatch
    BY FansFixed DEF AlarmInv, DisplayTypeOK, RowsInv, AtRest
  <2>2. \A f \in Fans : FanVerdict(AtRest, f) = "1" <=> mismatch[SeriesOf(f)] = "1"
    BY <2>1, OneSeries DEF AlarmInv, GaugesInv
  <2>3. Rebuilt(AtRest, cfg).flagged = {f \in Fans : FanVerdict(AtRest, f) = "1"}
    BY <2>1 DEF Rebuilt
  <2> QED BY <2>1, <2>2, <2>3 DEF AlarmInv, GaugesInv, Bad
<1> QED
  BY <1>1, AlarmInvariant, PTL

\* AlarmsAreTrue for edits that leave the fans alone: whichever way it comes, and
\* whatever is written while it is scraped, an alarm is about a fan below its floor.
THEOREM TrueAlarms == SameFans /\ Spec => AlarmsAreTrue
<1> SUFFICES ASSUME SameFans
             PROVE  Spec => AlarmsAreTrue
  OBVIOUS
<1> DEFINE true == IF mode = "direct" THEN BelowFloor ELSE witness
           True == /\ app'.snap.flagged \subseteq true
                   /\ app'.snap.unnamed => true # {}
<1>1. ASSUME AlarmInv, [Next]_vars, app'.snap # app.snap
      PROVE  True
  <2>1. BelowFloor = Bad /\ snap \in Snapshot
    BY <1>1, FansFixed DEF AlarmInv, DisplayTypeOK, BelowFloor, Bad
  <2>2. CASE Sense \/ Cycle
    <3>1. AlarmInv' /\ mode' = mode
      BY <1>1, <2>2, SenseAlarms, CycleAlarms
      DEF Sense, Cycle, FailCycle, ReadBack, JudgeFan, EndCycle, viewVars
    <3>2. mode = "direct"
      BY <1>1, <2>2 DEF Sense, Cycle, FailCycle, ReadBack, JudgeFan, EndCycle, viewVars, Publish
    <3>3. CASE Sense
      <4>1. app'.snap = snap' /\ pc' = "sensed" /\ verdict' = verdict
        BY <3>2, <3>3 DEF Sense, Publish, Received
      <4> QED BY <2>1, <3>1, <3>2, <4>1 DEF AlarmInv, RowsInv, Bad
    <3>4. CASE Cycle
      <4>1. pc' = "idle" /\ verdict' = verdict
        BY <1>1, <3>4 DEF Cycle, FailCycle, ReadBack, JudgeFan, EndCycle, viewVars
      <4> QED BY <2>1, <3>1, <3>2, <4>1 DEF AlarmInv, RowsInv, Bad
    <3> QED BY <2>2, <3>3, <3>4
  <2>3. CASE Scrape
    <3> DEFINE s == scrape.sample
               r == Rebuilt(s, viewCfg)
    <3>1. EndScrape
      BY <1>1, <2>3 DEF Scrape, BeginScrape, ReadSeries, ScrapeFails, AlarmInv, DisplayTypeOK,
                        AppState
    <3>2. /\ scrape.on /\ Complete(s) /\ app'.snap = r /\ mode = "attached"
          /\ s.mismatch \in [Fan \X Label -> Series \cup {Unread}] /\ viewCfg.fans = Fans
      BY <1>1, <3>1, FansFixed
      DEF EndScrape, Received, AlarmInv, PointsInv, DisplayTypeOK, Sample
    <3>3. \A x \in Fan \X Label : s.mismatch[x] # Unread
      BY <3>2 DEF Complete
    <3>4. \A f \in Fans : FanVerdict(s, f) = "1" <=> s.mismatch[SeriesOf(f)] = "1"
      <4>1. \A x \in Fan \X Label : s.mismatch[x] # "absent" => \E g \in Fans : x = SeriesOf(g)
        BY <1>1, <3>2, <3>3 DEF AlarmInv, ScrapeInv
      <4> QED BY <4>1, OneSeries
    <3>5. r.flagged \subseteq witness
      BY <1>1, <3>2, <3>4 DEF Rebuilt, AlarmInv, ScrapeInv
    <3>6. r.unnamed => witness # {}
      <4> SUFFICES ASSUME r.unnamed, witness = {}
                   PROVE  FALSE
        OBVIOUS
      <4>1. s.effect = "0" /\ \A x \in Fan \X Label : s.mismatch[x] = "absent"
        BY <3>2 DEF Rebuilt, Unnamed
      <4>2. PICK f \in Fans : s.mismatch[SeriesOf(f)] # "absent"
        BY <1>1, <3>2, <4>1 DEF AlarmInv, ScrapeInv
      <4>3. SeriesOf(f) \in Fan \X Label
        BY <1>1, FansFixed DEF AlarmInv, DisplayTypeOK
      <4> QED BY <4>1, <4>2, <4>3
    <3> QED BY <3>2, <3>5, <3>6
  <2>4. ASSUME NEW p \in Reloaders, SwapConfig(p) \/ Announce(p) PROVE FALSE
    BY <1>1, <2>4, ReloadAlarms
  <2>5. ~(UNCHANGED vars)
    BY <1>1 DEF vars, viewVars
  <2> QED BY <1>1, <2>2, <2>3, <2>4, <2>5 DEF Next
<1>2. AlarmInv /\ [Next]_vars => [app'.snap # app.snap => True]_vars
  BY <1>1
<1> QED
  BY <1>2, AlarmInvariant, PTL DEF AlarmsAreTrue, Spec
=============================================================================
