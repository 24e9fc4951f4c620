------------------------------ MODULE Display ------------------------------
(***************************************************************************)
(* The way of a read-back verdict from verify to the screen: through the   *)
(* snapshots the loop publishes, when the display runs the loop itself, or *)
(* through the gauges of /metrics and a scrape, when it is attached to     *)
(* another process; and the trend series it keeps, one point per cycle.    *)
(*                                                                         *)
(* What verify finds for a fan is chosen freely: module Controller says    *)
(* how it comes about.  Time is abstracted: a cycle that completes takes   *)
(* the next of a ring of Stamps, which stands for LastCycle.               *)
(***************************************************************************)
EXTENDS Integers, FiniteSets, Sequences

CONSTANTS
  Fan,          \* fan indexes
  Label,        \* fan labels, numbered in their sort order
  Configs,      \* configurations: [fans, label, rest], rest being all that is of no
                \* account here but to the checksum
  Initial,      \* the one the loop starts with
  Modes,        \* subset of {"direct", "attached"}
  Reloaders,    \* subset of {"watch", "hup"}
  Stamps,       \* bound: distinct times of completed cycles
  HistLen,      \* histLen
  MaxEdits,     \* bound: edits of the config file
  None,         \* NaN, or nothing
  Unread        \* a series that the scrape has yet to read

ASSUME DisplayAssumption ==
  /\ Fan \subseteq Nat /\ IsFiniteSet(Fan) /\ Label \subseteq Nat
  /\ \A c \in Configs : c.fans \subseteq Fan /\ c.fans # {} /\ c.label \in [Fan -> Label]
  /\ Initial \in Configs /\ None \notin Configs
  /\ None \notin {"bad", "good", "absent", "0", "1"} /\ Unread \notin {None, "absent", "0", "1"}
  /\ Modes \subseteq {"direct", "attached"} /\ Reloaders \subseteq {"watch", "hup"}
  /\ Stamps \in Nat \ {0, 1} /\ HistLen \in Nat \ {0} /\ MaxEdits \in Nat

VARIABLES
  cfg, edits, announcing,           \* the running config; reloads that have yet to export it
  pc, mine, snap, todo,             \* the loop: its config, snapshot and read-back
  stamp,                            \* LastCycle with its gauge, 0 before the first
  verdict,                          \* the verdict verify came to last, by fan
  mismatch, effect, info,           \* the other gauges
  mode, viewCfg, app,               \* the display, its own config, and App
  scrape, witness                   \* a scrape under way; fans below their floor since it began

loopVars  == <<pc, mine, snap, todo, stamp, verdict>>
gaugeVars == <<mismatch, effect, info>>
viewVars  == <<mode, viewCfg, app, scrape, witness>>
cfgVars   == <<cfg, edits, announcing>>
vars == <<cfgVars, loopVars, gaugeVars, viewVars>>

Verdicts == {"good", "bad", None}   \* None: not read, or nothing to hold the fan to
Stamp == 0..Stamps

\* state.Snapshot: the fans flagged, the value of a sensor group by the cycle it
\* was read for, LastCycle and the checksum; and of Effective, EffectiveKnown and
\* FanVerdictsKnown, whether they tell of a failure that no fan is flagged for.
Snapshot == [flagged : SUBSET Fan, unnamed : BOOLEAN, value : Stamp, lastCycle : Stamp,
             config : Configs \cup {None}]

Blank == [flagged |-> {}, unnamed |-> FALSE, value |-> 0, lastCycle |-> 0, config |-> None]

Nothing == [f \in Fan |-> None]

\* A mismatch series can be missing, NaN, 0 or 1.
Series == {"absent", None, "0", "1"}

Sample == [mismatch : [Fan \X Label -> Series \cup {Unread}],
           effect : {None, "0", "1", Unread}]

\* A point of a group's trend series, and what App holds of it all.
Point == [cycle : Stamp, value : Stamp]

AppState == [snap : Snapshot, err : BOOLEAN, recorded : Stamp, hist : Seq(Point)]

NotScraping == [mismatch |-> [x \in Fan \X Label |-> Unread], effect |-> Unread]

DisplayTypeOK ==
  /\ cfg \in Configs /\ edits \in 0..MaxEdits
  /\ announcing \in [{"watch", "hup"} -> Configs \cup {None}]
  /\ pc \in {"idle", "sensed", "judging"}
  /\ mine \in Configs /\ snap \in Snapshot
  /\ verdict \in [Fan -> Verdicts]
  /\ todo \subseteq Fan /\ stamp \in Stamp
  /\ mismatch \in [Fan \X Label -> Series] /\ effect \in {None, "0", "1"}
  /\ info \in Configs
  /\ mode \in Modes /\ viewCfg \in Configs
  /\ app \in AppState /\ Len(app.hist) <= HistLen
  /\ scrape \in [on : BOOLEAN, sample : Sample] /\ witness \subseteq Fan

Init ==
  /\ cfg = Initial /\ edits = 0 /\ announcing = [p \in {"watch", "hup"} |-> None]
  /\ pc = "idle" /\ mine = cfg /\ snap = Blank
  /\ verdict = Nothing /\ todo = {} /\ stamp = 0
  /\ mismatch = [x \in Fan \X Label |-> "absent"] /\ effect = None
  /\ info = cfg
  /\ mode \in Modes /\ viewCfg \in IF mode = "direct" THEN {Initial} ELSE Configs
  /\ app = [snap |-> Blank, err |-> FALSE, recorded |-> 0, hist |-> <<>>]
  /\ scrape = [on |-> FALSE, sample |-> NotScraping] /\ witness = {}

Following(s) == (s % Stamps) + 1
-----------------------------------------------------------------------------
(***************************************************************************)
(* App: the slot both producers fill, and the trend series.                *)
(***************************************************************************)
\* Every observation is a point.
FaultyNewPoint(s) == s.lastCycle # 0

\* recordLocked: an incomplete cycle, and one recorded already, are no point.
NewPoint(s) == s.lastCycle # 0 /\ s.lastCycle # app.recorded

\* The series grows without end.
FaultyTrimmed(h) == h

Trimmed(h) == IF Len(h) > HistLen THEN Tail(h) ELSE h

\* A snapshot goes into the slot.
Received(s) ==
  [snap |-> s, err |-> FALSE,
   recorded |-> IF NewPoint(s) THEN s.lastCycle ELSE app.recorded,
   hist |-> IF NewPoint(s)
            THEN Trimmed(Append(app.hist, [cycle |-> s.lastCycle, value |-> s.value]))
            ELSE app.hist]

\* A loop without an Observer drafts its snapshot for nobody.
Draft(s) == IF mode = "direct" THEN s ELSE Blank

\* The controller's Observer is App.Publish, or there is none.
Publish(s) == app' = IF mode = "direct" THEN Received(s) ELSE app

\* c.last: what was published last.
Published == IF mode = "direct" THEN app.snap ELSE Blank
-----------------------------------------------------------------------------
(***************************************************************************)
(* The cycle.                                                              *)
(***************************************************************************)
\* The column is blanked until the read-back.
FaultyCarriedRows == {}

\* fanState without speeds: the last verdict of every fan the config has.
CarriedRows == Published.flagged \cap cfg.fans

\* carryForward, which leaves LastCycle out; a group is read, and all published.
Sense ==
  /\ pc = "idle" /\ announcing["watch"] = None
  /\ pc' = "sensed" /\ mine' = cfg
  /\ snap' = Draft([Published EXCEPT !.lastCycle = 0, !.flagged = CarriedRows,
                                     !.value = Following(stamp), !.config = cfg])
  /\ Publish(snap')
  /\ UNCHANGED <<todo, stamp, verdict, gaugeVars, mode, viewCfg, scrape, witness, cfgVars>>

\* The handshake came to nothing, or the read-back did: the deferred publish.
FailCycle ==
  /\ pc = "sensed" /\ pc' = "idle"
  /\ Publish(snap) /\ snap' = Blank
  /\ UNCHANGED <<mine, todo, stamp, verdict, gaugeVars, mode, viewCfg, scrape, witness, cfgVars>>

\* The session is up, the floors are written, both published with the rows as they
\* are, and FanSpeeds answers.
ReadBack ==
  /\ pc = "sensed" /\ pc' = "judging"
  /\ todo' = mine.fans
  /\ snap' = Draft([snap EXCEPT !.flagged = {}])
  /\ UNCHANGED <<mine, stamp, verdict, gaugeVars, viewVars, cfgVars>>

\* A fan that cannot be judged is passed over.
FaultyVerdictGauge(old, v) == CASE v = "bad" -> "1" [] v = "good" -> "0" [] OTHER -> old

\* NaN for a fan that cannot be judged.
VerdictGauge(old, v) == CASE v = "bad" -> "1" [] v = "good" -> "0" [] OTHER -> None

\* fanState's row and verify's verdict and gauge of one fan.
JudgeFan ==
  /\ pc = "judging"
  /\ \E f \in todo, v \in Verdicts :
       /\ \A g \in todo : f <= g
       /\ todo' = todo \ {f}
       /\ verdict' = [verdict EXCEPT ![f] = v]
       /\ LET s == <<f, mine.label[f]>>
          IN  mismatch' = [mismatch EXCEPT ![s] = VerdictGauge(@, v)]
       /\ snap' = IF v = "bad" THEN Draft([snap EXCEPT !.flagged = @ \cup {f}]) ELSE snap
       /\ witness' = IF v = "bad" /\ scrape.on THEN witness \cup {f} ELSE witness
  /\ UNCHANGED <<pc, mine, stamp, effect, info, mode, viewCfg, app, scrape, cfgVars>>

Judged == {f \in mine.fans : verdict[f] # None}
AllHonoured == \A f \in mine.fans : verdict[f] # "bad"

\* The verdict on the machine, whose gauge stands if nothing was judged; then the
\* cycle is complete, and published as such.
EndCycle ==
  /\ pc = "judging" /\ todo = {} /\ pc' = "idle"
  /\ effect' = IF Judged = {} THEN effect ELSE IF AllHonoured THEN "1" ELSE "0"
  /\ stamp' = Following(stamp)
  /\ Publish([snap EXCEPT !.lastCycle = stamp']) /\ snap' = Blank
  /\ UNCHANGED <<mine, todo, verdict, mismatch, info, mode, viewCfg, scrape, witness, cfgVars>>

Cycle == FailCycle \/ ReadBack \/ JudgeFan \/ EndCycle
-----------------------------------------------------------------------------
(***************************************************************************)
(* Reload: the swap under the lock, and SetConfigInfo at its end.  No      *)
(* series of a fan is touched but the one of its floor.                    *)
(***************************************************************************)
SwapConfig(p) ==
  /\ announcing[p] = None /\ edits < MaxEdits
  /\ p = "watch" => pc = "idle"
  /\ edits' = edits + 1
  /\ cfg' \in Configs \ {cfg}
  /\ announcing' = [announcing EXCEPT ![p] = cfg']
  /\ UNCHANGED <<loopVars, gaugeVars, viewVars>>

\* The series of the config before stays, and the new one is not set.
FaultyConfigInfo(next) == info

ConfigInfo(next) == next

Announce(p) ==
  /\ announcing[p] # None
  /\ info' = ConfigInfo(announcing[p])
  /\ announcing' = [announcing EXCEPT ![p] = None]
  /\ UNCHANGED <<cfg, edits, loopVars, mismatch, effect, viewVars>>
-----------------------------------------------------------------------------
(***************************************************************************)
(* The attached view: scrapeLoop.  The registry reads one series after     *)
(* another, in any order, while the loop goes on writing them.  The     *)
(* verdicts and effect are told apart; of the rest, which nothing relates  *)
(* to them or to one another, it is enough to read the values at the end.  *)
(***************************************************************************)
\* The fans of the config that the last verdict is against.
BelowFloor == {f \in cfg.fans : verdict[f] = "bad"}

BeginScrape ==
  /\ mode = "attached" /\ ~scrape.on
  /\ scrape' = [on |-> TRUE, sample |-> NotScraping]
  /\ witness' = BelowFloor
  /\ UNCHANGED <<loopVars, gaugeVars, cfgVars, mode, viewCfg, app>>

Sampled(s) == scrape.on /\ scrape' = [scrape EXCEPT !.sample = s]

ReadSeries ==
  /\ LET s == scrape.sample IN
     \/ \E x \in DOMAIN mismatch : /\ s.mismatch[x] = Unread
                                   /\ Sampled([s EXCEPT !.mismatch[x] = mismatch[x]])
     \/ s.effect = Unread /\ Sampled([s EXCEPT !.effect = effect])
  /\ UNCHANGED <<loopVars, gaugeVars, cfgVars, mode, viewCfg, app, witness>>

Complete(s) == s.effect # Unread /\ \A x \in DOMAIN s.mismatch : s.mismatch[x] # Unread

\* byLabel: of a fan's series the last in label order is kept; lookup: or NaN.
FanVerdict(s, f) ==
  LET there == {l \in Label : s.mismatch[<<f, l>>] # "absent"}
  IN  IF there = {} THEN None
      ELSE s.mismatch[<<f, CHOOSE l \in there : \A k \in there : k <= l>>]

\* Takes an Effective of false for a failure whenever no fan is flagged.
FaultyUnnamed(s) == s.effect = "0"

\* alerts: an Effective of false is one if the daemon is too old to name a fan, that
\* is, if the family of verdicts is not there.
Unnamed(s) == s.effect = "0" /\ \A x \in DOMAIN s.mismatch : s.mismatch[x] = "absent"

\* build, for a view with config c.
Rebuilt(s, c) ==
  LET bad == {f \in c.fans : FanVerdict(s, f) = "1"}
  IN  [flagged |-> bad, unnamed |-> bad = {} /\ Unnamed(s), value |-> 0,
       lastCycle |-> stamp, config |-> info]

EndScrape ==
  /\ scrape.on /\ Complete(scrape.sample)
  /\ app' = Received(Rebuilt(scrape.sample, viewCfg))
  /\ scrape' = [on |-> FALSE, sample |-> NotScraping] /\ witness' = {}
  /\ UNCHANGED <<loopVars, gaugeVars, cfgVars, mode, viewCfg>>

\* The snapshot before stays on the screen, under the error.
ScrapeFails ==
  /\ scrape.on
  /\ app' = [app EXCEPT !.err = TRUE]
  /\ scrape' = [on |-> FALSE, sample |-> NotScraping] /\ witness' = {}
  /\ UNCHANGED <<loopVars, gaugeVars, cfgVars, mode, viewCfg>>

Scrape == BeginScrape \/ ReadSeries \/ EndScrape \/ ScrapeFails

Next ==
  \/ Sense \/ Cycle
  \/ \E p \in Reloaders : SwapConfig(p) \/ Announce(p)
  \/ Scrape

Spec == Init /\ [][Next]_vars

(***************************************************************************)
(* The loop does not stop in the middle of a read-back, a reload comes to  *)
(* its end, and scrapeLoop goes on: a scrape ends by itself or by its      *)
(* timeout.                                                                *)
(***************************************************************************)
FairSpec ==
  /\ Spec
  /\ WF_vars(Cycle) /\ WF_vars(Scrape)
  /\ \A p \in Reloaders : WF_vars(Announce(p))
-----------------------------------------------------------------------------
\* alerts: the checksum is another one.
Warned(s) == mode = "attached" /\ s.config # None /\ s.config # viewCfg
-----------------------------------------------------------------------------
(***************************************************************************)
(* Properties.                                                             *)
(***************************************************************************)
(***************************************************************************)
(* "The one alarm in this program that has to mean what it says" (scrape.go*)
(* lines 129-130): a snapshot that comes to the screen names only fans that*)
(* verify found below their floor, in the last read-back or, for a scrape, *)
(* while it was taken; and it raises the alarm without a name only if there*)
(* was such a fan.                                                         *)
(***************************************************************************)
AlarmsAreTrue ==
  [][app'.snap # app.snap =>
       LET true == IF mode = "direct" THEN BelowFloor ELSE witness
       IN  app'.snap.flagged \subseteq true /\ (app'.snap.unnamed => true # {})]_vars

(***************************************************************************)
(* "The renderer must not be able to tell which one it is looking at"      *)
(* (state.go:7): between cycles a scrape would flag the fans, and show the *)
(* last cycle, that the published snapshot does.                           *)
(***************************************************************************)
AtRest == [mismatch |-> mismatch, effect |-> effect]

ProducersAgree ==
  mode = "direct" /\ pc = "idle" /\ mine = cfg =>
    Rebuilt(AtRest, cfg).flagged = app.snap.flagged

(***************************************************************************)
(* The trend series has one point per completed cycle: none twice in a row *)
(* although a scrape reads the same cycle many times, and none that belongs*)
(* to an unfinished one; the display that runs the loop misses none, and   *)
(* each of its points is the reading of its cycle.                         *)
(***************************************************************************)
OnePointPerCycle ==
  /\ \A i \in DOMAIN app.hist : i > 1 => app.hist[i].cycle # app.hist[i - 1].cycle
  /\ mode = "direct" =>
       /\ app.recorded = stamp
       /\ \A i \in DOMAIN app.hist :
            /\ app.hist[i].value = app.hist[i].cycle
            /\ i > 1 => app.hist[i].cycle = Following(app.hist[i - 1].cycle)

(***************************************************************************)
(* "This alert going quiet is the failure it exists to prevent" (tui.go    *)
(* lines 949-951): a fan that every read-back from some time on finds below*)
(* its floor is named on the screen for good, or the screen says that the  *)
(* daemon cannot be reached.                                               *)
(***************************************************************************)
AlarmReachesTheScreen ==
  \A f \in Fan :
    <>[](f \in BelowFloor /\ f \in viewCfg.fans) =>
      <>[](f \in app.snap.flagged \/ app.err)

(***************************************************************************)
(* "If the daemon is running a different config, the header says so"       *)
(* (README.md:212-213): a view whose config is not the running one warns of*)
(* it for good, or says that the daemon cannot be reached; one whose config*)
(* is does not.                                                            *)
(***************************************************************************)
OtherConfigIsNoticed ==
  mode = "attached" =>
    /\ <>[](cfg # viewCfg) => <>[](Warned(app.snap) \/ app.err)
    /\ <>[](cfg = viewCfg) => <>[](~Warned(app.snap) \/ app.err)
=============================================================================
