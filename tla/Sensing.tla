------------------------------- MODULE Sensing -------------------------------
(***************************************************************************)
(* The sensor half of a cycle: package sensors, which collects every group *)
(* concurrently, and in package controller resolveGroup and its helpers,   *)
(* which turn each result into the value the curves run on, hold the last  *)
(* good one while a group is blind, and keep the exported series honest.   *)
(*                                                                         *)
(* A step is one collector finishing, or one section under the mutex mu.   *)
(* What a tool finds at a source is chosen as it is read.  Time is counted *)
(* in intervals and passes between cycles.  An edit of the file and the    *)
(* reload that finds it are one step.  Rows are carried from one cycle to  *)
(* the next, as they are with a display; the daemon draws none.            *)
(*                                                                         *)
(* A configuration is [sensors, action, hold]: sensors maps each group to  *)
(* [kind, sources, auto, how], where the sources of an auto group are all  *)
(* the drives there may be, and hold is max_hold in intervals.             *)
(***************************************************************************)
EXTENDS Integers, Sequences, FiniteSetsExt

CONSTANTS
  None, Dead, Gone,
  Group, Source,  \* names of groups, and of the things they measure
  Temps,          \* what can be measured
  Configs, Initial,
  Reloaders,      \* subset of {"watch", "hup"}
  Elapsed,        \* intervals that can pass from one cycle to the next
  MaxAge,         \* bound: ages are not told apart from here on
  MaxEdits        \* bound: edits of the file

ValidSensors(c) ==
  /\ DOMAIN c.sensors # {} /\ DOMAIN c.sensors \subseteq Group
  /\ \A g \in DOMAIN c.sensors :
       /\ c.sensors[g].kind \in {"ipmi", "smart"} /\ c.sensors[g].how \in {"max", "mean"}
       /\ c.sensors[g].sources # {} /\ c.sensors[g].sources \subseteq Source
       /\ c.sensors[g].auto => c.sensors[g].kind = "smart"
  /\ c.action \in {"hold_last", "fixed"}
  /\ c.hold \in Int /\ (c.action = "hold_last" => c.hold > 0)

ASSUME SensingAssumption ==
  /\ \A c \in Configs : ValidSensors(c)
  /\ Initial \in Configs
  /\ IsFiniteSet(Source) /\ IsFiniteSet(Temps)  \* a machine has so many, a float64 as many values
  /\ Temps \subseteq Nat /\ Temps # {} /\ None \notin Nat /\ {Dead, Gone} \cap Temps = {}
  /\ Reloaders \subseteq {"watch", "hup"}
  /\ MaxAge \in Nat /\ Elapsed \subseteq 0..MaxAge /\ Elapsed # {}
  /\ \A c \in Configs : MaxAge > c.hold + Max(Elapsed)
  /\ MaxEdits \in Nat

VARIABLES
  \* the cycle: its position, captured config, groups still being collected,
  \* results in the channel, and what each collector read (history)
  pc, myCfg, pending, landed, read,
  \* Controller's fields under mu; blindFor is the time since blindSince, and the
  \* age of a value in lastGood and in rows (history) that since it was measured
  cfg, lastGood, blindFor, exported,
  \* the rows of the snapshot, and the series: per source, and per group its
  \* temperature and its blind and held flags
  rows, sensorGauge, groupGauge, flagGauge,
  edits

cycleVars == <<pc, myCfg, pending, landed, read>>
ctlVars   == <<cfg, lastGood, blindFor, exported>>
viewVars  == <<rows, sensorGauge, groupGauge, flagGauge>>
vars == <<cycleVars, ctlVars, viewVars, edits>>

\* What a group can have for a value: between the lowest and the highest reading.
Values == Min(Temps)..Max(Temps)

Readings == SUBSET (Source \X Temps)
Result == [group : Group, readings : Readings, err : BOOLEAN]
Flags  == [blind : BOOLEAN, held : BOOLEAN]
Row    == [kind : {"ipmi", "smart"}, value : Values \cup {None}, age : 0..MaxAge,
           blind : BOOLEAN, held : BOOLEAN]

ASSUME NoneIsNoRow == None \notin Row

SensingTypeOK ==
  /\ pc \in {"idle", "sweeping"} /\ myCfg \in Configs /\ cfg \in Configs
  /\ pending \subseteq Group /\ landed \in Seq(Result) /\ read \in [Group -> Readings]
  /\ lastGood \in [Group -> {None} \cup [value : Values, age : 0..MaxAge]]
  /\ blindFor \in [Group -> {None} \cup 0..MaxAge]
  /\ rows \in [Group -> {None} \cup Row]
  /\ exported \in [Group -> SUBSET Source]
  /\ sensorGauge \in [Source -> Temps \cup {None}]
  /\ groupGauge \in [Group -> Values \cup {None}]
  /\ flagGauge \in [Group -> Flags \cup {None}]
  /\ edits \in 0..MaxEdits

NoReadings == [g \in Group |-> {}]

Init ==
  /\ pc = "idle" /\ myCfg = Initial /\ pending = {} /\ landed = <<>> /\ read = NoReadings
  /\ cfg = Initial
  /\ lastGood = [g \in Group |-> None] /\ blindFor = [g \in Group |-> None]
  /\ exported = [g \in Group |-> {}]
  /\ rows = [g \in Group |-> None]
  /\ sensorGauge = [s \in Source |-> None]
  /\ groupGauge = [g \in Group |-> None] /\ flagGauge = [g \in Group |-> None]
  /\ edits = 0
-----------------------------------------------------------------------------
(***************************************************************************)
(* The sweep begins.                                                       *)
(***************************************************************************)
NewRow(s) == [kind |-> s.kind, value |-> None, age |-> 0, blind |-> FALSE, held |-> FALSE]

\* Only the value of a row is carried.
FaultyCarried(c) ==
  [g \in Group |->
     IF g \notin DOMAIN c.sensors THEN None
     ELSE IF rows[g] # None /\ rows[g].kind = c.sensors[g].kind
          THEN [NewRow(c.sensors[g]) EXCEPT !.value = rows[g].value]
          ELSE NewRow(c.sensors[g])]

\* carryForward: the rows of the config, each with all that was last known of it.
Carried(c) ==
  [g \in Group |->
     IF g \notin DOMAIN c.sensors THEN None
     ELSE IF rows[g] # None /\ rows[g].kind = c.sensors[g].kind
          THEN rows[g]
          ELSE NewRow(c.sensors[g])]

Aged(age, e) == IF age + e > MaxAge THEN MaxAge ELSE age + e

\* At a tick, or at a kick with no time passed since the cycle before.
BeginCycle(e) ==
  /\ pc = "idle"
  /\ pc' = "sweeping" /\ myCfg' = cfg
  /\ pending' = DOMAIN cfg.sensors /\ landed' = <<>> /\ read' = NoReadings
  /\ rows' = Carried(cfg)
  /\ lastGood' = [g \in Group |-> IF lastGood[g] = None THEN None
                                  ELSE [lastGood[g] EXCEPT !.age = Aged(@, e)]]
  /\ blindFor' = [g \in Group |-> IF blindFor[g] = None THEN None ELSE Aged(blindFor[g], e)]
  /\ UNCHANGED <<cfg, exported, sensorGauge, groupGauge, flagGauge, edits>>
-----------------------------------------------------------------------------
(***************************************************************************)
(* The collectors.  found maps each source to what the tool finds there: a *)
(* temperature, Dead (no reading, or the tool cannot be run), or Gone      *)
(* (a drive that a scan does not list, a sensor not in the SDR).           *)
(***************************************************************************)
ReadingsOf(s, found) == {<<x, found[x]>> : x \in {y \in s.sources : found[y] \in Temps}}

\* Devices and match lists are complained about in full, discovered drives as listed.
Expected(s, found) == {x \in s.sources : s.auto => found[x] # Gone}

CollectFails(s, found) ==
  \/ Expected(s, found) = {}
  \/ \E x \in Expected(s, found) : found[x] \notin Temps

\* The readings a collector returns beside its error are not copied.
ResultOf(g, s, found) ==
  [group |-> g, err |-> CollectFails(s, found),
   readings |-> IF CollectFails(s, found) THEN {} ELSE ReadingsOf(s, found)]

Collect(g) ==
  /\ g \in pending
  /\ pending' = pending \ {g}
  /\ \E found \in [myCfg.sensors[g].sources -> Temps \cup {Dead, Gone}] :
       /\ landed' = Append(landed, ResultOf(g, myCfg.sensors[g], found))
       /\ read' = [read EXCEPT ![g] = ReadingsOf(myCfg.sensors[g], found)]
  /\ UNCHANGED <<pc, myCfg, ctlVars, viewVars, edits>>

Celsius(r) == r[2]

\* The mean is left a sum.
FaultyAggregate(readings, how) ==
  IF how = "max" THEN Max({Celsius(r) : r \in readings}) ELSE MapThenSumSet(Celsius, readings)

Aggregate(readings, how) ==
  IF how = "max"
  THEN Max({Celsius(r) : r \in readings})
  ELSE MapThenSumSet(Celsius, readings) \div Cardinality(readings)
-----------------------------------------------------------------------------
(***************************************************************************)
(* resolveGroup.                                                           *)
(***************************************************************************)
Measured(readings) == {r[1] : r \in readings}

\* Nothing is pruned for a group that read nothing.
FaultyPruned(g, readings) ==
  {s \in exported[g] : s \notin Measured(readings) /\ readings # {}}

\* pruneSensors: the series g exported and did not measure this time.
Pruned(g, readings) == {s \in exported[g] : s \notin Measured(readings)}

\* The clock starts again at every failure.
FaultyBlindClock(res) == IF res.err THEN 0 ELSE None

\* The time since blindSince, which a good read deletes and a first failure sets.
BlindClock(res) ==
  IF ~res.err THEN None
  ELSE IF blindFor[res.group] = None THEN 0 ELSE blindFor[res.group]

\* Something was read, whether or not the collector also failed in part.
Usable(res) == res.readings # {}

Held(c, res) ==
  /\ ~Usable(res)
  /\ c.action = "hold_last" /\ lastGood[res.group] # None
  /\ BlindClock(res) <= c.hold

ValueOf(c, res) ==
  IF Usable(res) THEN Aggregate(res.readings, c.sensors[res.group].how)
  ELSE IF Held(c, res) THEN lastGood[res.group].value
  ELSE None

RowOf(c, res) ==
  [kind |-> c.sensors[res.group].kind, value |-> ValueOf(c, res),
   age |-> IF Held(c, res) THEN lastGood[res.group].age ELSE 0,
   blind |-> res.err, held |-> Held(c, res)]

\* A result comes off the channel.
Resolve ==
  /\ landed # <<>>
  /\ landed' = Tail(landed)
  /\ LET res == Head(landed)
         g   == res.group
         row == RowOf(myCfg, res)
     IN /\ sensorGauge' = [s \in Source |->
                             IF s \in Measured(res.readings)
                             THEN Celsius(CHOOSE r \in res.readings : r[1] = s)
                             ELSE IF s \in Pruned(g, res.readings) THEN None
                             ELSE sensorGauge[s]]
        /\ exported' = [exported EXCEPT ![g] = Measured(res.readings)]
        /\ groupGauge' = [groupGauge EXCEPT ![g] = row.value]
        /\ flagGauge' = [flagGauge EXCEPT ![g] = [blind |-> row.blind, held |-> row.held]]
        /\ rows' = [rows EXCEPT ![g] = row]
        /\ blindFor' = [blindFor EXCEPT ![g] = BlindClock(res)]
        /\ lastGood' = IF Usable(res)
                       THEN [lastGood EXCEPT ![g] = [value |-> row.value, age |-> 0]]
                       ELSE lastGood
  /\ UNCHANGED <<pc, myCfg, pending, read, cfg, edits>>

\* Every group is resolved: the values of the rows are what decide works on.
Swept == pc = "sweeping" /\ pending = {} /\ landed = <<>>

EndCycle ==
  /\ Swept
  /\ pc' = "idle"
  /\ UNCHANGED <<myCfg, pending, landed, read, ctlVars, viewVars, edits>>
-----------------------------------------------------------------------------
(***************************************************************************)
(* Reload, for what it does to sensor groups: forgetGroup for each group   *)
(* that the new config does not have.                                      *)
(***************************************************************************)
CanReload == \/ "watch" \in Reloaders /\ pc = "idle"
             \/ "hup" \in Reloaders

Forgotten(c) == DOMAIN cfg.sensors \ DOMAIN c.sensors

Without(fn, groups, empty) == [g \in Group |-> IF g \in groups THEN empty ELSE fn[g]]

ReloadGroups(c) ==
  /\ CanReload /\ edits < MaxEdits /\ c # cfg
  /\ edits' = edits + 1 /\ cfg' = c
  /\ sensorGauge' = [s \in Source |-> IF \E g \in Forgotten(c) : s \in exported[g]
                                      THEN None ELSE sensorGauge[s]]
  /\ exported' = Without(exported, Forgotten(c), {})
  /\ groupGauge' = Without(groupGauge, Forgotten(c), None)
  /\ flagGauge' = Without(flagGauge, Forgotten(c), None)
  /\ lastGood' = Without(lastGood, Forgotten(c), None)
  /\ blindFor' = Without(blindFor, Forgotten(c), None)
  /\ UNCHANGED <<cycleVars, rows>>

Next ==
  \/ \E e \in Elapsed : BeginCycle(e)
  \/ \E g \in Group : Collect(g)
  \/ Resolve
  \/ EndCycle
  \/ \E c \in Configs : ReloadGroups(c)

Spec == Init /\ [][Next]_vars
-----------------------------------------------------------------------------
(***************************************************************************)
(* Properties.                                                             *)
(***************************************************************************)

\* "Holding forever is not offered": whatever value a cycle decides on, it was
\* measured in this sweep, or held and measured no longer ago than max_hold and
\* the one interval that passes before the first failure is seen.
ValuesAreFresh ==
  Swept => \A g \in DOMAIN myCfg.sensors :
             rows[g].value # None =>
               rows[g].age <= (IF rows[g].held THEN myCfg.hold + Max(Elapsed) ELSE 0)

\* "A gauge here never holds a value that was not measured": between cycles a
\* series of a source has a value that a configured group measured in the last
\* sweep, and those of a group say what its row says of it.
NoStaleGauge ==
  pc = "idle" =>
    /\ \A s \in Source : sensorGauge[s] # None =>
         \E g \in DOMAIN cfg.sensors : <<s, sensorGauge[s]>> \in read[g]
    /\ \A g \in Group : groupGauge[g] # None =>
         g \in DOMAIN cfg.sensors /\ rows[g] # None /\ groupGauge[g] = rows[g].value
    /\ \A g \in Group : flagGauge[g] # None =>
         /\ g \in DOMAIN cfg.sensors /\ rows[g] # None
         /\ flagGauge[g] = [blind |-> rows[g].blind, held |-> rows[g].held]

\* A row that reads as blind goes on doing so until its group has been read: not
\* for the seconds a sweep takes before it comes to that group.
BlindUntilRead ==
  [][\A g \in Group :
       (/\ rows[g] # None /\ rows[g].blind
        /\ rows'[g] # None /\ ~rows'[g].blind /\ rows'[g].kind = rows[g].kind)
       => read[g] # {} /\ g \notin pending]_vars

\* "Partial reads still count": a group some of whose sources were read runs on
\* the aggregate of those.
PartialReadsCount ==
  Swept => \A g \in DOMAIN myCfg.sensors :
             read[g] # {} => rows[g].value = Aggregate(read[g], myCfg.sensors[g].how)
=============================================================================
