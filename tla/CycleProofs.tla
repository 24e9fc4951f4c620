---------------------------- MODULE CycleProofs -----------------------------
(***************************************************************************)
(* What the loop achieves when no reload by SIGHUP takes a fan away from a *)
(* cycle that is under way: cycles that meet the demand, floors that are   *)
(* remembered and released, and no false alarm.  Each theorem names the    *)
(* conditions it needs; the number of fans, curves, faults, resets, edits  *)
(* and crashes, the config contents and the readings are any.              *)
(***************************************************************************)
EXTENDS ControllerProofs

(***************************************************************************)
(* Either reloads are the watcher's, which run on the loop's own goroutine *)
(* between two cycles, or they come at any point of a cycle but change     *)
(* anything except which fans there are.                                   *)
(***************************************************************************)
WatcherOnly == "hup" \notin Reloaders

FixedFans == \A c, d \in Configs : c.fans = d.fans

Orderly == WatcherOnly \/ FixedFans

Busy == {"sensing", "joining", "rows", "judging", "releasing"} \cup Applying

(***************************************************************************)
(* Whatever the reloaders: the watcher's reload holds the loop up, and a   *)
(* cycle goes over the fans it captured.  With the watcher alone, what a   *)
(* cycle or release captured is what runs, and a reload winds down under   *)
(* the config it has installed.  With fixed fans, no reload has a fan to   *)
(* wind down, and no other fan is remembered or released.                  *)
(***************************************************************************)
Alone ==
  /\ rel["watch"].pc # "off" => pc = "reloading"
  /\ pc \in Applying => todo \subseteq myCfg.fans
  /\ WatcherOnly =>
       /\ rel["hup"].pc = "off"
       /\ rel["watch"].pc \in {"winding", "deleting"} =>
            rel["watch"].next = cfg /\ rel["watch"].bmc = bmc
       /\ pc \in Busy => myCfg = cfg /\ myBmc = bmc
  /\ FixedFans =>
       /\ \A p \in {"watch", "hup"} : rel[p].todo = {}
       /\ Remembered(applied) \subseteq Initial.fans
       /\ pc = "releasing" => todo \subseteq Initial.fans

LEMMA AloneCycle ==
  ASSUME TypeOK, Alone, Cycle PROVE Alone'
<1> USE DEF Applying, Busy
<1>1. CASE BeginCycle
  BY <1>1 DEF BeginCycle, Capture, Alone, ctlVars, Remembered
<1>2. CASE ConnectDone \/ SenseAndDecide
  BY <1>2 DEF ConnectDone, SenseAndDecide, Alone, ctlVars, Remembered
<1>3. CASE JoinConnect
  BY <1>3 DEF JoinConnect, EndCycle, Alone, Remembered
<1>4. CASE ChooseFloor
  BY <1>4 DEF ChooseFloor, Alone, ctlVars, Remembered
<1>5. CASE SendFloor
  BY <1>5 DEF SendFloor, OutcomeStep, Alone, ctlVars, Remembered
<1>6. CASE RecordFloor
  <2>1. PICK f \in todo : /\ applied' = [applied EXCEPT ![f] = RawToPct(raw)]
                          /\ todo' = todo \ {f}
    BY <1>6 DEF RecordFloor
  <2>2. pc = "recording" /\ pc' = "writing" /\ UNCHANGED <<cfg, bmc, myCfg, myBmc, rel>>
    BY <1>6 DEF RecordFloor
  <2>3. Remembered(applied)' \subseteq Remembered(applied) \cup {f}
    BY <2>1 DEF Remembered, TypeOK, CtlTypeOK
  <2>4. FixedFans => f \in Initial.fans
    BY <2>1, <2>2, ControllerAssumption DEF FixedFans, Alone, TypeOK, LoopTypeOK
  <2> QED BY <2>1, <2>2, <2>3, <2>4 DEF Alone
<1>7. CASE ReadBack \/ FanRows \/ Judge
  BY <1>7 DEF ReadBack, FanRows, Judge, EndCycle, Alone, ctlVars, Remembered
<1> QED
  BY <1>1, <1>2, <1>3, <1>4, <1>5, <1>6, <1>7 DEF Cycle

\* With fixed fans a reload winds no fan down.
LEMMA NothingDropped ==
  ASSUME TypeOK, Alone, FixedFans, NEW p \in {"watch", "hup"}
  PROVE  ~WindDown(p) /\ ~ForgetFan(p)
BY DEF Alone, WindDown, ForgetFan

\* What each kind of step of a reload does to the loop and to the reloads.
LEMMA ReloadShape ==
  ASSUME TypeOK, Alone, NEW p \in {"watch", "hup"}, LoadFile(p) \/ ReloadStep(p)
  PROVE  /\ UNCHANGED <<myCfg, myBmc, todo>>
         /\ p = "hup" => UNCHANGED pc
         /\ p = "watch" => pc \in {"idle", "reloading"} /\ pc' \in {"idle", "reloading"}
         /\ \A q \in {"watch", "hup"} : q # p => rel'[q] = rel[q]
         /\ pc' = "reloading" \/ UNCHANGED pc \/ rel'["watch"].pc = "off"
         /\ p = "watch" /\ rel'["watch"].pc # "off" => pc' = "reloading"
<1>1. rel \in [{"watch", "hup"} -> Reload] /\ NoReload.pc = "off"
  BY DEF TypeOK, RelTypeOK, NoReload
<1>2. CASE LoadFile(p) \/ SameChecksum(p) \/ ReloadDone(p)
  BY <1>1, <1>2 DEF LoadFile, SameChecksum, ReloadDone, BackFrom, AtReload, Alone
<1>3. CASE SwapConfig(p) \/ WindDown(p) \/ ForgetFan(p)
  <2>1. UNCHANGED loopVars /\ rel[p].pc # "off"
    BY <1>3 DEF SwapConfig, WindDown, ForgetFan, AtReload
  <2>2. \A q \in {"watch", "hup"} : q # p => rel'[q] = rel[q]
    <3>1. CASE SwapConfig(p)
      BY <1>1, <3>1 DEF SwapConfig
    <3>2. CASE WindDown(p)
      <4>1. PICK f \in rel[p].todo, out \in {"ok"} \cup {"unsent"} \cup FaultKinds :
              rel' = IF AfterWindDown(out) = "deleting" THEN [rel EXCEPT ![p].pc = "deleting"]
                     ELSE [rel EXCEPT ![p].todo = @ \ {f}]
        BY <3>2 DEF WindDown
      <4> QED BY <1>1, <4>1
    <3>3. CASE ForgetFan(p)
      BY <1>1, <3>3 DEF ForgetFan
    <3> QED BY <1>3, <3>1, <3>2, <3>3
  <2> QED BY <2>1, <2>2 DEF loopVars, Alone
<1> QED
  BY <1>2, <1>3 DEF ReloadStep

LEMMA AloneReload ==
  ASSUME TypeOK, Alone, NEW p \in {"watch", "hup"}, p \in Reloaders,
         LoadFile(p) \/ ReloadStep(p)
  PROVE  Alone'
<1>1. /\ rel \in [{"watch", "hup"} -> Reload] /\ NoReload.pc = "off" /\ NoReload.todo = {}
      /\ applied \in [Fan -> Floor \cup {None}]
  BY DEF TypeOK, RelTypeOK, CtlTypeOK, NoReload
<1>2. /\ rel'["watch"].pc # "off" => pc' = "reloading"
      /\ pc' \in Applying => todo' \subseteq myCfg'.fans
      /\ pc' \in Busy => pc' = pc /\ pc \in Busy /\ p = "hup"
      /\ pc' = "releasing" => pc = "releasing"
  <2>1. CASE p = "watch"
    BY <2>1, ReloadShape DEF Applying, Busy
  <2>2. CASE p = "hup"
    BY <2>2, ReloadShape DEF Alone
  <2> QED BY <2>1, <2>2
<1>3. WatcherOnly => p = "watch" /\ rel'["hup"].pc = "off"
  BY ReloadShape DEF WatcherOnly, Alone
<1>4. UNCHANGED <<myCfg, myBmc, todo>>
  BY ReloadShape
<1>5. WatcherOnly => (rel'["watch"].pc \in {"winding", "deleting"} =>
                        rel'["watch"].next = cfg' /\ rel'["watch"].bmc = bmc')
  <2> SUFFICES ASSUME WatcherOnly, rel'["watch"].pc \in {"winding", "deleting"}
               PROVE  rel'["watch"].next = cfg' /\ rel'["watch"].bmc = bmc'
    OBVIOUS
  <2>0. p = "watch"
    BY <1>3
  <2>1. ~LoadFile(p) /\ ~SameChecksum(p) /\ ~ReloadDone(p)
    BY <1>1, <2>0 DEF LoadFile, SameChecksum, ReloadDone, Reload
  <2>2. CASE SwapConfig(p)
    BY <1>1, <2>0, <2>2 DEF SwapConfig, Reload
  <2>3. CASE WindDown(p)
    <3>1. PICK f \in rel[p].todo, out \in {"ok"} \cup {"unsent"} \cup FaultKinds :
            rel' = IF AfterWindDown(out) = "deleting" THEN [rel EXCEPT ![p].pc = "deleting"]
                   ELSE [rel EXCEPT ![p].todo = @ \ {f}]
      BY <2>3 DEF WindDown
    <3>2. rel["watch"].pc = "winding" /\ UNCHANGED <<cfg, bmc>>
      BY <2>0, <2>3 DEF WindDown, AtReload, ctlVars
    <3>3. rel'["watch"].next = rel["watch"].next /\ rel'["watch"].bmc = rel["watch"].bmc
      BY <1>1, <2>0, <3>1 DEF Reload
    <3> QED BY <3>2, <3>3 DEF Alone
  <2>4. CASE ForgetFan(p)
    <3>1. rel["watch"].pc = "deleting" /\ UNCHANGED <<cfg, bmc>>
      BY <2>0, <2>4 DEF ForgetFan, AtReload
    <3>2. rel'["watch"].next = rel["watch"].next /\ rel'["watch"].bmc = rel["watch"].bmc
      BY <1>1, <2>0, <2>4 DEF ForgetFan, Reload
    <3> QED BY <3>1, <3>2 DEF Alone
  <2> QED BY <2>1, <2>2, <2>3, <2>4 DEF ReloadStep
<1>6. FixedFans => /\ \A q \in {"watch", "hup"} : rel'[q].todo = {}
                   /\ UNCHANGED applied
  <2> SUFFICES ASSUME FixedFans
               PROVE  rel'[p].todo = {} /\ UNCHANGED applied
    BY ReloadShape DEF Alone
  <2>1. CASE LoadFile(p)
    BY <1>1, <2>1 DEF LoadFile, ctlVars, Alone, Reload
  <2>2. CASE SameChecksum(p) \/ ReloadDone(p)
    BY <1>1, <2>2 DEF SameChecksum, ReloadDone, ctlVars
  <2>3. CASE SwapConfig(p)
    <3>1. rel[p].next.fans = Initial.fans
      BY RelFields, ControllerAssumption DEF FixedFans, TypeOK
    <3>2. Dropped(rel[p].next) = {}
      BY <3>1 DEF Dropped, Alone
    <3> QED BY <1>1, <2>3, <3>2 DEF SwapConfig, Reload
  <2> QED BY <2>1, <2>2, <2>3, NothingDropped DEF ReloadStep
<1>7. FixedFans => Remembered(applied)' \subseteq Initial.fans
  BY <1>6 DEF Alone, Remembered
<1> QED
  BY <1>2, <1>3, <1>4, <1>5, <1>6, <1>7 DEF Alone

LEMMA AloneStep ==
  ASSUME TypeOK, Alone, [Next]_vars PROVE Alone'
<1> USE DEF Applying, Busy
<1>1. CASE \E p \in Reloaders : LoadFile(p) \/ ReloadStep(p)
  BY <1>1, AloneReload, ControllerAssumption
<1>2. CASE Release
  <2>1. CASE ReleaseNothing \/ ReleaseFan \/ EndRelease
    BY <2>1 DEF ReleaseNothing, ReleaseFan, ReleasedTodo, EndRelease, Alone, ctlVars, Remembered
  <2>2. CASE BeginRelease
    BY <2>2 DEF BeginRelease, ToRelease, Alone, ctlVars, Remembered
  <2> QED BY <1>2, <2>1, <2>2 DEF Release
<1>3. CASE Environment
  <2>1. CASE Interval \/ EditFile \/ Trigger \/ ToggleDryRun \/ Stop \/ LoseBmc
    BY <2>1 DEF Interval, EditFile, Trigger, ToggleDryRun, Stop, LoseBmc, Alone, ctlVars,
                loopVars, Remembered
  <2>2. CASE Crash
    <3>1. Remembered(applied)' = {}
      BY <2>2 DEF Crash, NoFloors, Remembered
    <3>2. \A p \in {"watch", "hup"} : rel'[p].pc = "off" /\ rel'[p].todo = {}
      BY <2>2 DEF Crash, NoReload
    <3> QED BY <2>2, <3>1, <3>2, CrashPc DEF Alone
  <2>3. CASE StartAgain
    BY <2>3 DEF StartAgain, Alone, Remembered
  <2> QED BY <1>3, <2>1, <2>2, <2>3 DEF Environment
<1>4. CASE UNCHANGED vars
  BY <1>4 DEF vars, Alone, ctlVars, loopVars, Remembered
<1> QED
  BY <1>1, <1>2, <1>3, <1>4, AloneCycle DEF Next

LEMMA AloneFirst == Init => Alone
BY DEF Init, Alone, NoReload, NoFloors, Remembered, Applying, Busy

(***************************************************************************)
(* No fan is commanded that is not in the config, but for winding it down  *)
(* when it is taken out, whatever fails, whichever BMC is reset and        *)
(* wherever the process is killed and started again.                       *)
(***************************************************************************)
THEOREM OnlyConfigured ==
  ASSUME Orderly
  PROVE  Spec => OnlyConfiguredFansAreCommanded
<1> DEFINE Right == \A f \in Fan :
                      fanMin'[bmc.ilo][f] \notin {None, fanMin[bmc.ilo][f]} =>
                        f \in cfg.fans \/ fanMin'[bmc.ilo][f] = PctToRaw(cfg.min)
<1>1. TypeOK /\ Alone /\ [Next]_vars => Alone'
  BY AloneStep
<1>2. TypeOK /\ Alone /\ [Next]_vars => [Right]_vars
  <2> SUFFICES ASSUME TypeOK, Alone, Next, NEW f \in Fan,
                      fanMin'[bmc.ilo][f] \notin {None, fanMin[bmc.ilo][f]}
               PROVE  f \in cfg.fans \/ fanMin'[bmc.ilo][f] = PctToRaw(cfg.min)
    OBVIOUS
  <2>1. /\ fanMin \in [Host -> [Fan -> 0..RawMax \cup {None}]] /\ bmc.ilo \in Host
        /\ cfg \in Configs /\ myCfg \in Configs /\ Initial \in Configs
    BY ControllerAssumption DEF TypeOK, BmcTypeOK, CtlTypeOK, LoopTypeOK, Client
  <2>2. /\ \A c, cancelled, g, r, out : SetFanMin(c, cancelled, g, r, out) =>
                                           f = g /\ fanMin'[bmc.ilo][f] = r
        /\ ~\E h \in Host : BmcRestart(h)
    BY <2>1, SetByCommand
  <2>3. CASE SendFloor
    <3>1. f \in myCfg.fans /\ pc = "sending"
      BY <2>2, <2>3 DEF SendFloor, Alone, Applying
    <3>2. myCfg.fans = cfg.fans
      BY <2>1, <3>1 DEF Orderly, FixedFans, Alone, Applying, Busy
    <3> QED BY <3>1, <3>2
  <2>4. CASE ReleaseFan
    <3>1. f \in todo /\ fanMin'[bmc.ilo][f] = PctToRaw(myCfg.min) /\ pc = "releasing"
      BY <2>2, <2>4 DEF ReleaseFan
    <3>2. CASE WatcherOnly
      BY <3>1, <3>2 DEF Alone, Busy
    <3>3. CASE FixedFans
      BY <2>1, <3>1, <3>3 DEF FixedFans, Alone
    <3> QED BY <3>2, <3>3 DEF Orderly
  <2>5. CASE \E p \in Reloaders : WindDown(p)
    <3>1. PICK p \in {"watch", "hup"} : p \in Reloaders /\ WindDown(p)
      BY <2>5, ControllerAssumption
    <3>2. WatcherOnly /\ p = "watch"
      BY <3>1, NothingDropped DEF Orderly, WatcherOnly
    <3> QED BY <2>2, <3>1, <3>2 DEF WindDown, AtReload, Alone
  <2> QED BY <2>2, <2>3, <2>4, <2>5, WhoWrites
<1> QED
  BY AloneFirst, <1>1, <1>2, TypeCorrect, PTL DEF Spec, OnlyConfiguredFansAreCommanded

-----------------------------------------------------------------------------
(***************************************************************************)
(* What the controller believes.  With one BMC, which has not been reset   *)
(* and carries out a command or never gets it, what applied remembers is   *)
(* what the BMC has, but between a write and its record, and between the   *)
(* write of a wind-down and its deletion; in release it no longer is.      *)
(***************************************************************************)
OneBmc == \A c, d \in Configs : c.ilo = d.ilo

Answered == FaultKinds = {"unsent"}

Plain == Orderly /\ OneBmc /\ Answered

OnBmc(f) == fanMin[Initial.ilo][f]
Recording(f) == pc = "recording" /\ Next1(f, todo)
Forgetting(f) == rel["watch"].pc = "deleting" /\ Next1(f, rel["watch"].todo)

Believed ==
  /\ honours = Host
  /\ pc \notin {"releasing", "stopped"} =>
       \A f \in Fan : applied[f] # None =>
         \/ OnBmc(f) # None /\ applied[f] = RawToPct(OnBmc(f))
         \/ Recording(f) \/ Forgetting(f)
  /\ \A f \in Fan : Recording(f) => OnBmc(f) = raw

Steady == LimitsInv /\ Alone

LEMMA OnlyNext ==
  ASSUME NEW S \in SUBSET Fan, NEW f, NEW g, Next1(f, S), Next1(g, S)
  PROVE  f = g
BY BmcAssumption DEF Next1

\* A BMC that has not been reset yet was not, and is not in this step.
LEMMA NotReset ==
  ASSUME TypeOK, [Next]_vars, restarts' = 0
  PROVE  restarts = 0 /\ ~\E h \in Host : BmcRestart(h)
<1>1. restarts' = restarts \/ \E h \in Host : BmcRestart(h)
  BY DEF Next, Cycle, BeginCycle, ConnectDone, SenseAndDecide, JoinConnect, ChooseFloor,
       SendFloor, RecordFloor, ReadBack, SetFanMin, FanSpeeds, FanRows, Judge, LoadFile,
       ReloadStep, SameChecksum, SwapConfig, WindDown, ForgetFan, ReloadDone, Release,
       ReleaseNothing, BeginRelease, ReleaseFan, EndRelease, Environment, Interval, EditFile,
       Trigger, ToggleDryRun, Stop, LoseBmc, HangUp, Crash, StartAgain, vars, bmcVars
<1>2. \A h \in Host : ~BmcRestart(h)
  BY DEF BmcRestart, TypeOK, BmcTypeOK
<1> QED
  BY <1>1, <1>2

\* A process that has not been killed yet was not, and is not in this step.
LEMMA NotKilled ==
  ASSUME TypeOK, [Next]_vars, crashes' = 0
  PROVE  crashes = 0 /\ ~Crash
<1>1. crashes' = crashes \/ Crash
  BY DEF Next, Cycle, BeginCycle, ConnectDone, SenseAndDecide, JoinConnect, ChooseFloor,
       SendFloor, RecordFloor, ReadBack, FanRows, Judge, LoadFile, ReloadStep, SameChecksum,
       SwapConfig, WindDown, ForgetFan, ReloadDone, Release, ReleaseNothing, BeginRelease,
       ReleaseFan, EndRelease, Environment, Interval, EditFile, Trigger, ToggleDryRun, Stop,
       LoseBmc, StartAgain, vars, fileVars
<1>2. ~Crash
  BY DEF Crash, TypeOK, FileTypeOK
<1> QED
  BY <1>1, <1>2

\* Every client in use is one of the only BMC.
LEMMA AtHome ==
  ASSUME OneBmc, Steady
  PROVE  /\ bmc.ilo = Initial.ilo /\ myBmc.ilo = Initial.ilo
         /\ rel["watch"].pc \in {"winding", "deleting"} => rel["watch"].bmc.ilo = Initial.ilo
<1>1. cfg \in Configs /\ myCfg \in Configs /\ Initial \in Configs /\ rel["watch"].next \in Configs
  BY RelFields, ControllerAssumption DEF Steady, LimitsInv, TypeOK, CtlTypeOK, LoopTypeOK
<1> QED
  BY <1>1 DEF OneBmc, Steady, LimitsInv, Paired

\* A reload that has fans to wind down is the watcher's.
LEMMA WatcherWinds ==
  ASSUME Orderly, TypeOK, Alone, NEW p \in Reloaders, WindDown(p) \/ ForgetFan(p)
  PROVE  p = "watch"
BY NothingDropped, ControllerAssumption DEF Orderly, WatcherOnly

\* The other steps of a reload change the config, and nothing a cycle looks at.
LEMMA ReloadElse ==
  ASSUME OneBmc, TypeOK, Alone, NEW p \in {"watch", "hup"},
         LoadFile(p) \/ SameChecksum(p) \/ SwapConfig(p) \/ ReloadDone(p)
  PROVE  /\ UNCHANGED <<fanMin, spun, honours, sess, applied, settled, askVars, viewVars,
                        myCfg, myBmc, demand, critical, todo, raw>>
         /\ p = "hup" => UNCHANGED <<pc, rel["watch"]>>
         /\ p = "watch" => /\ pc \in {"idle", "reloading"} /\ pc' \in {"idle", "reloading"}
                           /\ rel["watch"].pc # "deleting" /\ rel'["watch"].pc # "deleting"
<1>1. rel \in [{"watch", "hup"} -> Reload] /\ NoReload.pc = "off"
  BY DEF TypeOK, RelTypeOK, NoReload
<1>2. LoadFile(p) \/ ReloadStep(p)
  BY DEF ReloadStep
<1>3. p = "watch" => rel["watch"].pc # "deleting" /\ rel'["watch"].pc # "deleting"
  BY <1>1 DEF LoadFile, SameChecksum, SwapConfig, ReloadDone, AtReload, Reload
<1>4. CASE LoadFile(p) \/ SameChecksum(p) \/ ReloadDone(p)
  BY <1>2, <1>3, <1>4, ReloadShape DEF LoadFile, SameChecksum, ReloadDone, bmcVars, ctlVars,
                                       sessVars
<1>5. CASE SwapConfig(p)
  <2>1. cfg \in Configs /\ rel[p].next \in Configs
    BY RelFields DEF TypeOK, CtlTypeOK
  <2>2. bmc' = bmc
    BY <1>5, <2>1 DEF SwapConfig, ClientFor, OneBmc
  <2> QED BY <1>2, <1>3, <1>5, <2>2, ReloadShape DEF SwapConfig, sessVars, loopVars
<1> QED
  BY <1>4, <1>5

\* What a command does: it sets one floor if the patch is there, or the client has
\* lost its session.
Sets(f, r) == \A g \in Fan : OnBmc(g)' = IF g = f THEN r ELSE OnBmc(g)
Keeps == \A g \in Fan : OnBmc(g)' = OnBmc(g)
Obeyed(f, r) == IF Initial.ilo \in honours THEN Sets(f, r) ELSE Keeps

LEMMA FloorSet ==
  ASSUME TypeOK, NEW f \in Fan, NEW r,
         fanMin' = IF Initial.ilo \in honours
                   THEN [fanMin EXCEPT ![Initial.ilo][f] = r] ELSE fanMin
  PROVE  Obeyed(f, r)
<1>1. fanMin \in [Host -> [Fan -> 0..RawMax \cup {None}]] /\ Initial.ilo \in Host
  BY ConfigFacts, ControllerAssumption DEF TypeOK, BmcTypeOK
<1> QED
  BY <1>1 DEF OnBmc, Sets, Keeps, Obeyed

LEMMA SendEffect ==
  ASSUME Plain, Steady, SendFloor
  PROVE  /\ honours' = honours /\ sess' \subseteq sess
         /\ \E f \in todo :
              /\ Next1(f, todo)
              /\ \/ Obeyed(f, raw) /\ pc' = "recording" /\ UNCHANGED <<todo, raw>>
                 \/ Keeps /\ pc' = "writing" /\ todo' = todo \ {f} /\ myBmc \notin sess'
<1>1. PICK f \in todo, out \in {"ok", "unsent"} :
        /\ Next1(f, todo) /\ SetFanMin(myBmc, stopping, f, raw, out)
        /\ pc' = OutcomeStep(out)
        /\ IF pc' = "recording" THEN UNCHANGED <<todo, raw>>
           ELSE todo' = todo \ {f} /\ raw' = 0
  BY DEF SendFloor, Plain, Answered
<1>2. f \in Fan /\ TypeOK /\ myBmc.ilo = Initial.ilo /\ honours' = honours
  BY <1>1, AtHome DEF Plain, Steady, LimitsInv, TypeOK, LoopTypeOK, SetFanMin
<1>3. CASE out = "ok"
  <2>1. /\ fanMin' = IF Initial.ilo \in honours
                     THEN [fanMin EXCEPT ![Initial.ilo][f] = raw] ELSE fanMin
        /\ sess' = sess
    BY <1>1, <1>2, <1>3 DEF SetFanMin, Run, sessVars, Plain, Answered
  <2> QED BY <1>1, <1>2, <1>3, <2>1, FloorSet DEF OutcomeStep
<1>4. CASE out = "unsent"
  <2>1. UNCHANGED fanMin /\ sess' \subseteq sess /\ myBmc \notin sess'
    BY <1>1, <1>4 DEF SetFanMin, Run, AfterFailure, Close, sessVars
  <2> QED BY <1>1, <1>2, <1>4, <2>1 DEF OutcomeStep, Keeps, OnBmc
<1> QED BY <1>3, <1>4

LEMMA WindDownEffect ==
  ASSUME Plain, Steady, WindDown("watch")
  PROVE  /\ honours' = honours /\ rel["watch"].next \in Configs
         /\ \E f \in rel["watch"].todo :
              /\ Next1(f, rel["watch"].todo)
              /\ \/ /\ Obeyed(f, PctToRaw(rel["watch"].next.min))
                    /\ rel'["watch"].pc = "deleting"
                    /\ rel'["watch"].todo = rel["watch"].todo
                 \/ Keeps /\ rel'["watch"].pc = "winding"
<1> DEFINE low == PctToRaw(rel["watch"].next.min)
<1>1. PICK f \in rel["watch"].todo, out \in {"ok", "unsent"} :
        /\ Next1(f, rel["watch"].todo)
        /\ SetFanMin(rel["watch"].bmc, FALSE, f, low, out)
        /\ rel' = IF AfterWindDown(out) = "deleting" THEN [rel EXCEPT !["watch"].pc = "deleting"]
                  ELSE [rel EXCEPT !["watch"].todo = @ \ {f}]
  BY DEF WindDown, Plain, Answered
<1>2. /\ rel \in [{"watch", "hup"} -> Reload] /\ rel["watch"].pc = "winding"
      /\ rel["watch"].bmc.ilo = Initial.ilo
  BY AtHome DEF WindDown, AtReload, TypeOK, RelTypeOK, Plain, Steady, LimitsInv
<1>3. f \in Fan /\ TypeOK /\ honours' = honours /\ rel["watch"].next \in Configs
  BY <1>1, <1>2 DEF Reload, Steady, LimitsInv, SetFanMin
<1>4. CASE out = "ok"
  <2>1. fanMin' = IF Initial.ilo \in honours
                  THEN [fanMin EXCEPT ![Initial.ilo][f] = low] ELSE fanMin
    BY <1>1, <1>2, <1>4 DEF SetFanMin
  <2>2. rel'["watch"].pc = "deleting" /\ rel'["watch"].todo = rel["watch"].todo
    BY <1>1, <1>2, <1>4 DEF AfterWindDown, Reload
  <2> QED BY <1>1, <1>3, <2>1, <2>2, FloorSet
<1>5. CASE out = "unsent"
  <2>1. UNCHANGED fanMin
    BY <1>1, <1>5 DEF SetFanMin
  <2>2. rel'["watch"].pc = "winding"
    BY <1>1, <1>2, <1>5 DEF AfterWindDown, Reload
  <2> QED BY <1>1, <1>3, <2>1, <2>2 DEF Keeps, OnBmc
<1> QED BY <1>4, <1>5

LEMMA ReleaseEffect ==
  ASSUME Plain, Steady, ReleaseFan
  PROVE  /\ honours' = honours /\ sess' \subseteq sess
         /\ \E f \in todo : /\ todo' = todo \ {f}
                            /\ \/ Obeyed(f, PctToRaw(myCfg.min))
                               \/ Keeps /\ myBmc \notin sess'
<1>1. PICK f \in todo, out \in {"ok", "unsent"} :
        /\ SetFanMin(myBmc, FALSE, f, PctToRaw(myCfg.min), out) /\ todo' = todo \ {f}
  BY DEF ReleaseFan, ReleasedTodo, Plain, Answered
<1>2. f \in Fan /\ TypeOK /\ myBmc.ilo = Initial.ilo /\ honours' = honours
  BY <1>1, AtHome DEF Plain, Steady, LimitsInv, TypeOK, LoopTypeOK, SetFanMin
<1>3. CASE out = "ok"
  <2>1. /\ fanMin' = IF Initial.ilo \in honours
                     THEN [fanMin EXCEPT ![Initial.ilo][f] = PctToRaw(myCfg.min)] ELSE fanMin
        /\ sess' = sess
    BY <1>1, <1>2, <1>3 DEF SetFanMin, Run, sessVars, Plain, Answered
  <2> QED BY <1>1, <1>2, <2>1, FloorSet
<1>4. CASE out = "unsent"
  <2>1. UNCHANGED fanMin /\ sess' \subseteq sess /\ myBmc \notin sess'
    BY <1>1, <1>4 DEF SetFanMin, Run, AfterFailure, Close, sessVars
  <2> QED BY <1>1, <1>2, <2>1 DEF Keeps, OnBmc
<1> QED BY <1>3, <1>4

LEMMA BelievedKept ==
  ASSUME Believed, UNCHANGED <<honours, fanMin, applied>>,
         pc' = "recording" => UNCHANGED <<pc, todo, raw>>,
         pc = "recording" => pc' = "recording",
         \/ rel'["watch"] = rel["watch"]
         \/ rel["watch"].pc # "deleting" /\ rel'["watch"].pc # "deleting",
         pc \in {"releasing", "stopped"} => pc' \in {"releasing", "stopped"}
  PROVE  Believed'
<1>1. \A f \in Fan : /\ OnBmc(f)' = OnBmc(f)
                     /\ Recording(f)' <=> Recording(f)
                     /\ Forgetting(f)' <=> Forgetting(f)
  BY DEF OnBmc, Recording, Forgetting
<1>2. \A f \in Fan : Recording(f)' => raw' = raw
  BY DEF Recording
<1> QED
  BY <1>1, <1>2 DEF Believed

\* A BMC that honours commands obeys.
LEMMA Served ==
  ASSUME Believed, NEW f, NEW r PROVE Obeyed(f, r) = Sets(f, r)
<1>1. Initial.ilo \in Host
  BY ConfigFacts, ControllerAssumption
<1> QED
  BY <1>1 DEF Believed, Obeyed

LEMMA BelievedCycle ==
  ASSUME Plain, Steady, Believed, Cycle PROVE Believed'
<1> USE DEF Steady, LimitsInv
<1>1. CASE BeginCycle \/ ConnectDone \/ SenseAndDecide \/ JoinConnect \/ FanRows \/ Judge
  BY <1>1, BelievedKept DEF BeginCycle, ConnectDone, SenseAndDecide, JoinConnect, FanRows,
                            Judge, EndCycle, bmcVars, ctlVars
<1>2. CASE ChooseFloor
  BY <1>2, BelievedKept DEF ChooseFloor, bmcVars, ctlVars
<1>3. CASE ReadBack
  BY <1>3, BelievedKept DEF ReadBack, FanSpeeds, EndCycle, ctlVars
<1>4. CASE SendFloor
  <2>1. PICK f \in todo :
          /\ Next1(f, todo)
          /\ \/ Sets(f, raw) /\ pc' = "recording" /\ UNCHANGED <<todo, raw>>
             \/ Keeps /\ pc' = "writing"
    BY <1>4, SendEffect, Served
  <2>2. f \in Fan /\ todo \subseteq Fan /\ honours' = Host
    BY <1>4, SendEffect DEF TypeOK, LoopTypeOK, Believed
  <2>3. /\ pc = "sending" /\ UNCHANGED <<applied, rel>> /\ rel["watch"].pc = "off"
    BY <1>4 DEF SendFloor, ctlVars, Alone
  <2>4. \A g \in Fan : ~Recording(g) /\ ~Forgetting(g) /\ ~Forgetting(g)'
    BY <2>3 DEF Recording, Forgetting
  <2>5. CASE Sets(f, raw) /\ pc' = "recording" /\ UNCHANGED <<todo, raw>>
    <3>1. Recording(f)' /\ \A g \in Fan : Recording(g)' => g = f
      BY <2>1, <2>2, <2>5, OnlyNext DEF Recording
    <3>2. OnBmc(f)' = raw' /\ \A g \in Fan : g # f => OnBmc(g)' = OnBmc(g)
      BY <2>2, <2>5 DEF Sets
    <3> QED BY <2>2, <2>3, <2>4, <3>1, <3>2 DEF Believed
  <2>6. CASE Keeps /\ pc' = "writing"
    <3>1. \A g \in Fan : ~Recording(g)' /\ OnBmc(g)' = OnBmc(g)
      BY <2>6 DEF Recording, Keeps
    <3> QED BY <2>2, <2>3, <2>4, <3>1 DEF Believed
  <2> QED BY <2>1, <2>5, <2>6
<1>5. CASE RecordFloor
  <2>1. PICK f \in todo : /\ Next1(f, todo) /\ pc = "recording"
                          /\ applied' = [applied EXCEPT ![f] = RawToPct(raw)]
    BY <1>5 DEF RecordFloor
  <2>2. /\ pc' = "writing" /\ UNCHANGED <<honours, fanMin, rel>>
        /\ rel["watch"].pc = "off"
    BY <1>5 DEF RecordFloor, bmcVars, Alone
  <2>3. f \in Fan /\ todo \subseteq Fan /\ applied \in [Fan -> Floor \cup {None}] /\ raw # None
    BY Distinct DEF TypeOK, LoopTypeOK, CtlTypeOK
  <2>4. Recording(f) /\ OnBmc(f) = raw
    BY <2>1, <2>3 DEF Recording, Believed
  <2>5. \A g \in Fan : g # f => ~Recording(g) /\ applied'[g] = applied[g]
    BY <2>1, <2>3, OnlyNext DEF Recording
  <2>6. \A g \in Fan : /\ OnBmc(g)' = OnBmc(g) /\ ~Forgetting(g)
                       /\ ~Recording(g)' /\ ~Forgetting(g)'
    BY <2>2 DEF OnBmc, Recording, Forgetting
  <2>7. applied'[f] = RawToPct(OnBmc(f)') /\ OnBmc(f)' # None
    BY <2>1, <2>3, <2>4, <2>6
  <2> QED BY <2>1, <2>2, <2>5, <2>6, <2>7 DEF Believed
<1> QED
  BY <1>1, <1>2, <1>3, <1>4, <1>5 DEF Cycle

LEMMA BelievedReload ==
  ASSUME Plain, Steady, Believed, NEW p \in Reloaders, LoadFile(p) \/ ReloadStep(p)
  PROVE  Believed'
<1> USE DEF Steady, LimitsInv
<1>1. /\ rel \in [{"watch", "hup"} -> Reload] /\ p \in {"watch", "hup"}
      /\ rel["watch"].todo \subseteq Fan
  BY RelFields, ControllerAssumption DEF TypeOK, RelTypeOK
<1>2. CASE LoadFile(p) \/ SameChecksum(p) \/ SwapConfig(p) \/ ReloadDone(p)
  <2>1. CASE p = "watch"
    BY <1>1, <1>2, <2>1, ReloadElse, BelievedKept DEF Plain
  <2>2. CASE p = "hup"
    BY <1>1, <1>2, <2>2, ReloadElse, BelievedKept DEF Plain
  <2> QED BY <1>1, <2>1, <2>2
<1>3. CASE WindDown(p)
  <2>0. p = "watch"
    BY <1>3, WatcherWinds DEF Plain
  <2>1. PICK f \in rel["watch"].todo :
          /\ Next1(f, rel["watch"].todo)
          /\ \/ /\ rel'["watch"].pc = "deleting" /\ rel'["watch"].todo = rel["watch"].todo
                /\ \A g \in Fan : g # f => OnBmc(g)' = OnBmc(g)
             \/ Keeps /\ rel'["watch"].pc = "winding"
    BY <1>3, <2>0, WindDownEffect DEF Obeyed, Sets, Keeps
  <2>2. f \in Fan /\ honours' = Host /\ UNCHANGED <<applied, pc>>
    BY <1>1, <1>3, <2>0, WindDownEffect DEF WindDown, ctlVars, loopVars, Believed
  <2>3. pc = "reloading" /\ rel["watch"].pc = "winding"
    BY <1>3, <2>0 DEF WindDown, AtReload, Alone
  <2>4. \A g \in Fan : ~Recording(g) /\ ~Recording(g)' /\ ~Forgetting(g)
    BY <2>2, <2>3 DEF Recording, Forgetting
  <2>5. CASE /\ rel'["watch"].pc = "deleting" /\ rel'["watch"].todo = rel["watch"].todo
             /\ \A g \in Fan : g # f => OnBmc(g)' = OnBmc(g)
    <3>1. Forgetting(f)'
      BY <2>1, <2>5 DEF Forgetting
    <3> QED BY <2>2, <2>4, <2>5, <3>1 DEF Believed
  <2>6. CASE Keeps /\ rel'["watch"].pc = "winding"
    BY <2>2, <2>4, <2>6 DEF Believed, Keeps
  <2> QED BY <2>1, <2>5, <2>6
<1>4. CASE ForgetFan(p)
  <2>0. p = "watch"
    BY <1>4, WatcherWinds DEF Plain
  <2>1. PICK f \in rel["watch"].todo :
          /\ Next1(f, rel["watch"].todo)
          /\ applied' = [applied EXCEPT ![f] = None]
    BY <1>4, <2>0 DEF ForgetFan
  <2>2. /\ rel["watch"].pc = "deleting" /\ pc = "reloading"
        /\ UNCHANGED <<honours, fanMin, pc>>
    BY <1>4, <2>0 DEF ForgetFan, AtReload, Alone, bmcVars, loopVars
  <2>3. \A g \in Fan : OnBmc(g)' = OnBmc(g) /\ ~Recording(g) /\ ~Recording(g)'
    BY <2>2 DEF OnBmc, Recording
  <2>4. applied'[f] = None /\ \A g \in Fan : g # f => applied'[g] = applied[g] /\ ~Forgetting(g)
    BY <1>1, <2>1, OnlyNext DEF TypeOK, CtlTypeOK, Forgetting
  <2> QED BY <2>2, <2>3, <2>4 DEF Believed
<1> QED
  BY <1>2, <1>3, <1>4 DEF ReloadStep

LEMMA BelievedStep ==
  ASSUME Plain, Steady, Believed, [Next]_vars, restarts' = 0 PROVE Believed'
<1> USE DEF Steady, LimitsInv
<1>1. CASE \E p \in Reloaders : LoadFile(p) \/ ReloadStep(p)
  BY <1>1, BelievedReload
<1>2. CASE Release
  <2>1. CASE ReleaseNothing \/ BeginRelease \/ EndRelease
    BY <2>1, BelievedKept DEF ReleaseNothing, BeginRelease, EndRelease, bmcVars, ctlVars
  <2>2. CASE ReleaseFan
    <3>1. pc = "releasing" /\ pc' = "releasing" /\ rel["watch"].pc = "off" /\ rel' = rel
      BY <2>2 DEF ReleaseFan, Alone
    <3>2. honours' = Host
      BY <2>2, ReleaseEffect DEF Believed
    <3> QED BY <3>1, <3>2 DEF Believed, Recording, Forgetting
  <2> QED BY <1>2, <2>1, <2>2 DEF Release
<1>3. CASE Environment
  <2>1. CASE Interval \/ EditFile \/ Trigger \/ ToggleDryRun \/ Stop
    BY <2>1, BelievedKept DEF Interval, EditFile, Trigger, ToggleDryRun, Stop, bmcVars,
                              ctlVars, loopVars
  <2>2. CASE LoseBmc
    <3>1. ~\E h \in Host : BmcRestart(h)
      BY NotReset
    <3> QED BY <2>2, <3>1, BelievedKept DEF LoseBmc, HangUp, ctlVars, loopVars
  <2>3. CASE Crash
    <3>1. \A f \in Fan : applied'[f] = None
      BY <2>3 DEF Crash, NoFloors
    <3>2. pc' # "recording" /\ honours' = Host
      BY <2>3, CrashPc DEF Crash, Believed
    <3>3. rel'["watch"].pc = "off"
      BY <2>3 DEF Crash, NoReload
    <3> QED BY <3>1, <3>2, <3>3 DEF Believed, Recording, Forgetting
  <2>4. CASE StartAgain
    BY <2>4, BelievedKept DEF StartAgain, Alone, bmcVars
  <2> QED BY <1>3, <2>1, <2>2, <2>3, <2>4 DEF Environment
<1>4. CASE UNCHANGED vars
  BY <1>4, BelievedKept DEF vars, bmcVars, ctlVars, loopVars
<1> QED
  BY <1>1, <1>2, <1>3, <1>4, BelievedCycle DEF Next

Sure == Paired /\ FloorsWithinOwnLimits /\ Alone /\ (restarts = 0 => Believed)

LEMMA SureFirst == Init => Sure
BY AloneFirst DEF Init, BmcInit, Sure, Paired, FloorsWithinOwnLimits, Believed, NoReload,
                  NoFloors, Recording

LEMMA SureStep ==
  ASSUME Plain, TypeOK, Sure, [Next]_vars PROVE Sure'
BY AloneStep, LimitsStep, BelievedStep, NotReset DEF Steady, LimitsInv, Sure

-----------------------------------------------------------------------------
(***************************************************************************)
(* What is forgotten is low.  While the process has not been killed, a fan *)
(* that applied does not remember is at the baseline of some config, or    *)
(* its record is about to be made; so is a fan about to be forgotten, and  *)
(* in release every fan gone over.  A reset clears floors, and a BMC whose *)
(* patch is gone raises none again.                                        *)
(***************************************************************************)
AtBaseline(f) == OnBmc(f) # None => \E c \in Configs : OnBmc(f) <= PctToRaw(c.min)

ForgottenIsLow ==
  /\ \A f \in Fan : applied[f] = None => AtBaseline(f) \/ Recording(f)
  /\ \A f \in Fan : Forgetting(f) => AtBaseline(f)
  /\ pc = "releasing" /\ myBmc \in sess => \A f \in Fan \ todo : AtBaseline(f)
  /\ Initial.ilo \notin honours => \A f \in Fan : OnBmc(f) = None

LEMMA BaselineIsLow ==
  ASSUME NEW c \in Configs, NEW f \in Fan
  PROVE  /\ OnBmc(f) = PctToRaw(c.min) => AtBaseline(f)
         /\ OnBmc(f)' = PctToRaw(c.min) => AtBaseline(f)'
         /\ OnBmc(f)' = OnBmc(f) => AtBaseline(f)' = AtBaseline(f)
<1>1. PctToRaw(c.min) \in Int /\ PctToRaw(c.min) <= PctToRaw(c.min)
  BY ConfigFacts DEF RawMax
<1> QED
  BY <1>1 DEF AtBaseline

\* A fan that a command has taken to a baseline, or that has no floor, is low.
LEMMA LoweredIsLow ==
  ASSUME ForgottenIsLow, NEW c \in Configs, NEW f \in Fan, Obeyed(f, PctToRaw(c.min))
  PROVE  AtBaseline(f)' /\ \A g \in Fan : AtBaseline(g) => AtBaseline(g)'
<1>1. CASE Initial.ilo \in honours
  <2>1. /\ OnBmc(f)' = PctToRaw(c.min)
        /\ \A g \in Fan : OnBmc(g)' = OnBmc(g) \/ OnBmc(g)' = PctToRaw(c.min)
    BY <1>1 DEF Obeyed, Sets
  <2> QED BY <2>1, BaselineIsLow
<1>2. CASE Initial.ilo \notin honours
  <2>1. \A g \in Fan : OnBmc(g)' = None
    BY <1>2 DEF Obeyed, Keeps, ForgottenIsLow
  <2> QED BY <2>1 DEF AtBaseline
<1> QED
  BY <1>1, <1>2

\* Commands leave a BMC without the patch as it is.
LEMMA StaysBare ==
  ASSUME ForgottenIsLow, UNCHANGED honours,
         Keeps \/ \E f \in Fan, r \in 0..RawMax : Obeyed(f, r)
  PROVE  Initial.ilo \notin honours' => \A f \in Fan : OnBmc(f)' = None
BY DEF ForgottenIsLow, Obeyed, Keeps

LEMMA LowKept ==
  ASSUME ForgottenIsLow, UNCHANGED <<honours, fanMin, applied>>,
         pc = "recording" => UNCHANGED <<pc, todo>>,
         pc' = "releasing" => UNCHANGED <<pc, todo, myBmc>> /\ sess' \subseteq sess,
         \/ rel'["watch"] = rel["watch"]
         \/ rel["watch"].pc # "deleting" /\ rel'["watch"].pc # "deleting"
  PROVE  ForgottenIsLow'
<1>1. \A f \in Fan : /\ AtBaseline(f)' = AtBaseline(f) /\ OnBmc(f)' = OnBmc(f)
                     /\ Recording(f) => Recording(f)'
                     /\ Forgetting(f)' <=> Forgetting(f)
  BY DEF AtBaseline, OnBmc, Recording, Forgetting
<1> QED
  BY <1>1 DEF ForgottenIsLow

LEMMA LowCycle ==
  ASSUME Plain, Steady, ForgottenIsLow, Cycle PROVE ForgottenIsLow'
<1> USE DEF Steady, LimitsInv
<1>1. CASE BeginCycle \/ ConnectDone \/ SenseAndDecide \/ JoinConnect \/ FanRows \/ Judge
  BY <1>1, LowKept DEF BeginCycle, ConnectDone, SenseAndDecide, JoinConnect, FanRows, Judge,
                       EndCycle, bmcVars, ctlVars
<1>2. CASE ChooseFloor
  BY <1>2, LowKept DEF ChooseFloor, bmcVars, ctlVars
<1>3. CASE ReadBack
  BY <1>3, LowKept DEF ReadBack, FanSpeeds, EndCycle, ctlVars
<1>4. CASE SendFloor
  <2>1. PICK f \in todo :
          /\ Next1(f, todo)
          /\ \/ Obeyed(f, raw) /\ pc' = "recording" /\ UNCHANGED <<todo, raw>>
             \/ Keeps /\ pc' = "writing"
    BY <1>4, SendEffect
  <2>2. /\ pc = "sending" /\ UNCHANGED <<applied, rel, honours>> /\ \A g \in Fan : ~Recording(g)
        /\ rel["watch"].pc = "off" /\ f \in Fan /\ raw \in 0..RawMax
    BY <1>4, SendEffect DEF SendFloor, ctlVars, Recording, Alone, TypeOK, LoopTypeOK
  <2>3. \A g \in Fan : /\ OnBmc(g)' = OnBmc(g) \/ Recording(g)'
                       /\ ~Forgetting(g)'
    BY <2>1, <2>2 DEF Obeyed, Sets, Keeps, Recording, Forgetting
  <2>4. \A g \in Fan : OnBmc(g)' = OnBmc(g) => AtBaseline(g)' = AtBaseline(g)
    BY BaselineIsLow, ControllerAssumption
  <2>5. Initial.ilo \notin honours' => \A g \in Fan : OnBmc(g)' = None
    BY <2>1, <2>2, StaysBare
  <2> QED BY <2>1, <2>2, <2>3, <2>4, <2>5 DEF ForgottenIsLow
<1>5. CASE RecordFloor
  <2>1. PICK f \in todo : /\ Next1(f, todo) /\ pc = "recording"
                          /\ applied' = [applied EXCEPT ![f] = RawToPct(raw)]
    BY <1>5 DEF RecordFloor
  <2>2. pc' = "writing" /\ UNCHANGED <<fanMin, honours, rel>> /\ rel["watch"].pc = "off"
    BY <1>5 DEF RecordFloor, bmcVars, Alone
  <2>3. /\ todo \subseteq Fan /\ applied \in [Fan -> Floor \cup {None}] /\ RawToPct(raw) # None
    BY Distinct DEF TypeOK, LoopTypeOK, CtlTypeOK
  <2>4. \A g \in Fan : applied'[g] = None => applied[g] = None /\ ~Recording(g)
    BY <2>1, <2>3, OnlyNext DEF Recording
  <2>5. \A g \in Fan : AtBaseline(g)' = AtBaseline(g) /\ OnBmc(g)' = OnBmc(g) /\ ~Forgetting(g)'
    BY <2>2 DEF AtBaseline, OnBmc, Forgetting
  <2> QED BY <2>2, <2>4, <2>5 DEF ForgottenIsLow
<1> QED
  BY <1>1, <1>2, <1>3, <1>4, <1>5 DEF Cycle

LEMMA LowReload ==
  ASSUME Plain, Steady, ForgottenIsLow, NEW p \in Reloaders, LoadFile(p) \/ ReloadStep(p)
  PROVE  ForgottenIsLow'
<1> USE DEF Steady, LimitsInv
<1>1. CASE LoadFile(p) \/ SameChecksum(p) \/ SwapConfig(p) \/ ReloadDone(p)
  <2>1. CASE p = "watch"
    BY <1>1, <2>1, ReloadElse, LowKept DEF Plain
  <2>2. CASE p = "hup"
    BY <1>1, <2>2, ReloadElse, LowKept DEF Plain
  <2> QED BY <2>1, <2>2, ControllerAssumption
<1>2. CASE WindDown(p)
  <2>0. WindDown("watch")
    BY <1>2, WatcherWinds DEF Plain
  <2>1. PICK f \in rel["watch"].todo :
          /\ Next1(f, rel["watch"].todo)
          /\ \/ /\ Obeyed(f, PctToRaw(rel["watch"].next.min))
                /\ rel'["watch"].pc = "deleting" /\ rel'["watch"].todo = rel["watch"].todo
             \/ Keeps /\ rel'["watch"].pc = "winding"
    BY <2>0, WindDownEffect
  <2>2. /\ pc = "reloading" /\ pc' = "reloading" /\ UNCHANGED <<applied, honours>>
        /\ rel["watch"].next \in Configs /\ f \in Fan
        /\ rel["watch"].todo \subseteq Fan
    BY <2>0, WindDownEffect, RelFields DEF WindDown, AtReload, Alone, loopVars, ctlVars, TypeOK
  <2>3. \A g \in Fan : ~Recording(g)
    BY <2>2 DEF Recording
  <2>4. \A g \in Fan : (AtBaseline(g) => AtBaseline(g)') /\ (Forgetting(g)' => AtBaseline(g)')
    <3>1. CASE /\ Obeyed(f, PctToRaw(rel["watch"].next.min))
               /\ rel'["watch"].todo = rel["watch"].todo
      <4>1. \A g \in Fan : Forgetting(g)' => g = f
        BY <2>1, <2>2, <3>1, OnlyNext DEF Forgetting
      <4> QED BY <2>2, <3>1, <4>1, LoweredIsLow
    <3>2. CASE Keeps /\ rel'["watch"].pc = "winding"
      BY <3>2, BaselineIsLow, ControllerAssumption DEF Keeps, Forgetting
    <3> QED BY <2>1, <3>1, <3>2
  <2>5. Initial.ilo \notin honours' => \A g \in Fan : OnBmc(g)' = None
    <3>1. PctToRaw(rel["watch"].next.min) \in 0..RawMax
      BY <2>2, ConfigFacts
    <3> QED BY <2>1, <2>2, <3>1, StaysBare
  <2> QED BY <2>2, <2>3, <2>4, <2>5 DEF ForgottenIsLow
<1>3. CASE ForgetFan(p)
  <2>0. ForgetFan("watch")
    BY <1>3, WatcherWinds DEF Plain
  <2>1. PICK f \in rel["watch"].todo :
          /\ Next1(f, rel["watch"].todo) /\ applied' = [applied EXCEPT ![f] = None]
          /\ rel' = [rel EXCEPT !["watch"].pc = "winding", !["watch"].todo = @ \ {f}]
    BY <2>0 DEF ForgetFan
  <2>2. /\ rel["watch"].pc = "deleting" /\ pc = "reloading" /\ UNCHANGED <<fanMin, honours, pc>>
        /\ f \in Fan /\ rel'["watch"].pc = "winding"
    BY <2>0, <2>1, RelFields DEF ForgetFan, AtReload, Alone, bmcVars, loopVars, TypeOK,
                                 RelTypeOK, Reload
  <2>3. AtBaseline(f)
    BY <2>1, <2>2 DEF ForgottenIsLow, Forgetting
  <2>4. \A g \in Fan : /\ ~Recording(g) /\ AtBaseline(g)' = AtBaseline(g)
                       /\ g # f => applied'[g] = applied[g]
                       /\ ~Forgetting(g)' /\ OnBmc(g)' = OnBmc(g)
    BY <2>1, <2>2 DEF Recording, Forgetting, AtBaseline, OnBmc, TypeOK, CtlTypeOK
  <2> QED BY <2>2, <2>3, <2>4 DEF ForgottenIsLow
<1> QED
  BY <1>1, <1>2, <1>3 DEF ReloadStep

LEMMA LowRelease ==
  ASSUME Plain, Steady, ForgottenIsLow, Release PROVE ForgottenIsLow'
<1> USE DEF Steady, LimitsInv
<1>1. CASE ReleaseNothing \/ EndRelease
  BY <1>1, LowKept DEF ReleaseNothing, EndRelease, ctlVars
<1>2. CASE BeginRelease
  <2>1. /\ pc = "idle" /\ todo' = Remembered(applied)
        /\ UNCHANGED <<fanMin, honours, applied, rel>>
    BY <1>2 DEF BeginRelease, ToRelease, bmcVars, ctlVars
  <2>2. \A f \in Fan : /\ f \notin todo' => applied[f] = None
                       /\ ~Recording(f) /\ AtBaseline(f)' = AtBaseline(f)
                       /\ OnBmc(f)' = OnBmc(f) /\ Forgetting(f)' = Forgetting(f)
    BY <2>1 DEF Remembered, Recording, Forgetting, AtBaseline, OnBmc
  <2> QED BY <2>1, <2>2 DEF ForgottenIsLow
<1>3. CASE ReleaseFan
  <2>1. PICK f \in todo : /\ todo' = todo \ {f}
                          /\ \/ Obeyed(f, PctToRaw(myCfg.min))
                             \/ Keeps /\ myBmc \notin sess'
    BY <1>3, ReleaseEffect
  <2>2. /\ pc = "releasing" /\ sess' \subseteq sess /\ UNCHANGED <<applied, honours, pc, myBmc>>
        /\ myCfg \in Configs /\ f \in Fan /\ PctToRaw(myCfg.min) \in 0..RawMax
        /\ rel["watch"].pc = "off" /\ rel' = rel
    BY <1>3, ReleaseEffect, ConfigFacts DEF ReleaseFan, ctlVars, TypeOK, LoopTypeOK, Alone
  <2>3. \A g \in Fan : ~Recording(g) /\ ~Forgetting(g)'
    BY <2>2 DEF Recording, Forgetting
  <2>4. /\ \A g \in Fan : AtBaseline(g) => AtBaseline(g)'
        /\ myBmc \in sess' => AtBaseline(f)'
    <3>1. CASE Obeyed(f, PctToRaw(myCfg.min))
      BY <2>2, <3>1, LoweredIsLow
    <3>2. CASE Keeps /\ myBmc \notin sess'
      BY <3>2, BaselineIsLow, ControllerAssumption DEF Keeps
    <3> QED BY <2>1, <3>1, <3>2
  <2>5. Initial.ilo \notin honours' => \A g \in Fan : OnBmc(g)' = None
    BY <2>1, <2>2, StaysBare
  <2> QED BY <2>1, <2>2, <2>3, <2>4, <2>5 DEF ForgottenIsLow
<1> QED
  BY <1>1, <1>2, <1>3 DEF Release

\* A reset clears every floor of the only BMC, or is another's.
LEMMA LowReset ==
  ASSUME TypeOK, ForgottenIsLow, NEW h \in Host, BmcRestart(h),
         UNCHANGED <<applied, loopVars, rel>>
  PROVE  ForgottenIsLow'
<1>1. /\ fanMin' = [fanMin EXCEPT ![h] = [f \in Fan |-> None]] /\ sess' = sess
      /\ honours' = honours \/ honours' = honours \ {h}
      /\ fanMin \in [Host -> [Fan -> 0..RawMax \cup {None}]] /\ Initial.ilo \in Host
  BY ConfigFacts, ControllerAssumption DEF BmcRestart, TypeOK, BmcTypeOK
<1>2. \A f \in Fan : OnBmc(f)' = None \/ (h # Initial.ilo /\ OnBmc(f)' = OnBmc(f))
  BY <1>1 DEF OnBmc
<1>3. \A f \in Fan : /\ AtBaseline(f) => AtBaseline(f)'
                     /\ Recording(f)' = Recording(f) /\ Forgetting(f)' = Forgetting(f)
  BY <1>2 DEF AtBaseline, Recording, Forgetting, loopVars
<1>4. Initial.ilo \notin honours' => \A f \in Fan : OnBmc(f)' = None
  BY <1>1, <1>2 DEF ForgottenIsLow
<1> QED
  BY <1>1, <1>3, <1>4 DEF ForgottenIsLow, loopVars

LEMMA LowStep ==
  ASSUME Plain, Steady, ForgottenIsLow, [Next]_vars, crashes' = 0
  PROVE  ForgottenIsLow'
<1> USE DEF Steady, LimitsInv
<1>1. CASE \E p \in Reloaders : LoadFile(p) \/ ReloadStep(p)
  BY <1>1, LowReload
<1>2. CASE Environment
  <2>1. CASE Interval \/ EditFile \/ Trigger \/ ToggleDryRun \/ Stop
    BY <2>1, LowKept DEF Interval, EditFile, Trigger, ToggleDryRun, Stop, bmcVars, ctlVars,
                         loopVars, sessVars
  <2>2. CASE LoseBmc
    <3>1. CASE \E h \in Host : BmcRestart(h)
      BY <2>2, <3>1, LowReset DEF LoseBmc, ctlVars
    <3>2. CASE \E c \in sess : HangUp(c)
      BY <2>2, <3>2, LowKept DEF LoseBmc, HangUp, ctlVars, loopVars
    <3> QED BY <2>2, <3>1, <3>2 DEF LoseBmc
  <2>3. CASE StartAgain
    BY <2>3, LowKept DEF StartAgain, bmcVars
  <2>4. ~Crash
    BY NotKilled
  <2> QED BY <1>2, <2>1, <2>2, <2>3, <2>4 DEF Environment
<1>3. CASE UNCHANGED vars
  BY <1>3, LowKept DEF vars, bmcVars, ctlVars, loopVars
<1> QED
  BY <1>1, <1>2, <1>3, LowCycle, LowRelease DEF Next

LEMMA LowFirst == Init => ForgottenIsLow
<1>1. Initial.ilo \in Host
  BY ConfigFacts, ControllerAssumption
<1> QED
  BY <1>1 DEF Init, BmcInit, ForgottenIsLow, AtBaseline, OnBmc, Forgetting, NoReload

LEMMA AlwaysLow ==
  ASSUME Plain
  PROVE  Spec => [](TypeOK /\ Sure /\ (crashes = 0 => ForgottenIsLow))
<1> DEFINE I == Sure /\ (crashes = 0 => ForgottenIsLow)
<1>1. Init => I
  BY SureFirst, LowFirst
<1>2. TypeOK /\ I /\ [Next]_vars => I'
  BY SureStep, LowStep, NotKilled DEF Sure, Steady, LimitsInv
<1> QED
  BY <1>1, <1>2, TypeCorrect, PTL DEF Spec

(***************************************************************************)
(* No floor is forgotten: while the process has not been killed, a fan the *)
(* BMC holds above every baseline is one applied remembers or is about to, *)
(* with any stop, edits, keys, failed commands, resets and upgrades.       *)
(***************************************************************************)
THEOREM RaisedRemembered ==
  ASSUME Plain
  PROVE  Spec => [](crashes = 0 => RaisedFloorsAreRemembered)
<1>1. TypeOK /\ Sure /\ ForgottenIsLow => RaisedFloorsAreRemembered
  <2> SUFFICES ASSUME TypeOK, Sure, ForgottenIsLow, NEW f \in Fan, OnBmc(f) # None,
                      \A c \in Configs : OnBmc(f) > PctToRaw(c.min)
               PROVE  applied[f] # None \/ InFlight(f)
    BY AtHome DEF RaisedFloorsAreRemembered, OnBmc, Sure, Steady, LimitsInv, Plain
  <2>1. OnBmc(f) \in 0..RawMax /\ \A c \in Configs : PctToRaw(c.min) \in 0..RawMax
    <3>1. Initial.ilo \in Host /\ \A c \in Configs : PctToRaw(c.min) \in 0..RawMax
      BY ConfigFacts, ControllerAssumption
    <3> QED BY <3>1 DEF TypeOK, BmcTypeOK, OnBmc
  <2>2. ~AtBaseline(f)
    <3>1. \A x, y \in 0..RawMax : x > y => ~(x <= y)
      BY DEF RawMax
    <3> QED BY <2>1, <3>1 DEF AtBaseline
  <2> QED BY <2>2 DEF ForgottenIsLow, Recording, InFlight, Next1
<1> QED
  BY <1>1, AlwaysLow, PTL

(***************************************************************************)
(* Shutdown: a release none of whose commands fails leaves no fan of the   *)
(* BMC above a baseline, whatever reloads, resets, upgrades and toggles of *)
(* the dry run came before it.                                             *)
(***************************************************************************)
THEOREM ReleasedAtBaseline ==
  ASSUME Plain
  PROVE  Spec => [](crashes = 0 => ReleasedFansAreAtBaseline)
<1>1. TypeOK /\ Sure /\ ForgottenIsLow => ReleasedFansAreAtBaseline
  BY AtHome DEF ReleasedFansAreAtBaseline, FloorOn, ForgottenIsLow, AtBaseline, OnBmc, Sure,
                Steady, LimitsInv, Plain
<1> QED
  BY <1>1, AlwaysLow, PTL
-----------------------------------------------------------------------------
(***************************************************************************)
(* What a cycle achieves.  In a process whose dry run is not toggled, the  *)
(* fans a cycle has gone over, without a failed command, have floors that  *)
(* meet their demand, and the maximum when it is critical.                 *)
(***************************************************************************)
Wanted(f, r) == r >= PctToRaw(demand[f]) /\ (critical => r = PctToRaw(myCfg.max))

DemandOK ==
  pc \in {"joining"} \cup Applying =>
    \A f \in myCfg.fans : /\ demand[f] \in myCfg.min..myCfg.max
                          /\ critical => demand[f] = myCfg.max

Done == pc \in Applying /\ myBmc \in sess /\ ~dryRun

DoneMeet ==
  /\ DemandOK
  /\ pc \in {"sending", "recording"} =>
       \A f \in todo : Next1(f, todo) => Wanted(f, raw)
  /\ Done => \A f \in myCfg.fans \ todo : OnBmc(f) # None /\ Wanted(f, OnBmc(f))

\* A command decided for a demand within the limits meets it.
LEMMA CommandMeetsDemand ==
  ASSUME NEW c \in Configs, NEW had \in BOOLEAN, NEW prev, had => prev \in Int,
         NEW target \in c.min..c.max, NEW crit \in BOOLEAN, crit => target = c.max
  PROVE  LET r == FloorToCommand(c, had, prev, target, crit)
         IN  r >= PctToRaw(target) /\ (crit => r = PctToRaw(c.max))
<1>1. /\ c.min \in Int /\ c.max \in Int /\ c.min <= c.max /\ c.ramp \in Int
      /\ target \in Int /\ c.min <= target /\ target <= c.max
  <2>1. c.min \in Int /\ c.max \in Int /\ c.min <= c.max /\ c.ramp \in Int
    BY ConfigFacts, ValidNumbers
  <2> QED BY <2>1
<1> DEFINE v == Ramped(c, had, prev, target, crit)
           u == Clamp(v, c.min, c.max)
<1>2. v \in Int /\ v >= target /\ (crit => v = target)
  BY <1>1 DEF Ramped, Falls
<1>3. u \in Int /\ u >= target /\ (crit => u = c.max)
  BY <1>1, <1>2 DEF Clamp
<1>4. PctToRaw(u) \in 0..RawMax /\ PctToRaw(target) \in 0..RawMax
      /\ PctToRaw(target) <= PctToRaw(u)
  BY <1>1, <1>3, PctToRawMonotone, PctToRawIsByte
<1>5. PctToRaw(u) >= PctToRaw(target)
  <2> HIDE DEF u
  <2> QED BY <1>4 DEF RawMax
<1>6. FloorToCommand(c, had, prev, target, crit) = PctToRaw(u)
  BY DEF FloorToCommand
<1> QED
  BY <1>3, <1>5, <1>6

\* A remembered floor that is left alone meets the demand as it is.
LEMMA LeftAloneMeets ==
  ASSUME Steady, Believed, DoneMeet, pc = "writing", NEW f \in myCfg.fans,
         LET had == applied[f] # None
         IN  LeftAlone(f, had, FloorToCommand(myCfg, had, applied[f], demand[f], critical))
  PROVE  OnBmc(f) # None /\ Wanted(f, OnBmc(f))
<1> USE DEF Steady, LimitsInv
<1> DEFINE had == applied[f] # None
           r == FloorToCommand(myCfg, had, applied[f], demand[f], critical)
<1>1. had
  BY DEF LeftAlone, HeldByHysteresis, Falls
<1>2. myCfg \in Configs /\ f \in Fan /\ Initial.ilo \in Host
  BY ConfigFacts, ControllerAssumption DEF TypeOK, LoopTypeOK
<1>3. OnBmc(f) # None /\ applied[f] = RawToPct(OnBmc(f))
  BY <1>1, <1>2 DEF Believed, Recording, Forgetting, Alone
<1>4. OnBmc(f) \in 0..RawMax
  BY <1>2, <1>3 DEF OnBmc, TypeOK, BmcTypeOK
<1>5. PctToRaw(applied[f]) = OnBmc(f) /\ applied[f] \in 0..Full
  BY <1>3, <1>4, RoundTrip
<1>6. /\ demand[f] \in myCfg.min..myCfg.max /\ critical \in BOOLEAN
      /\ critical => demand[f] = myCfg.max
  BY DEF DoneMeet, DemandOK, Applying, TypeOK, LoopTypeOK
<1>7. applied[f] \in Int /\ demand[f] \in Int
  BY <1>2, <1>5, <1>6, IntervalNumbers DEF TypeOK, LoopTypeOK, Floor
<1>8. CASE HeldByHysteresis(myCfg, had, applied[f], demand[f], critical)
  <2>1. ~critical /\ demand[f] < applied[f]
    BY <1>8 DEF HeldByHysteresis, Falls
  <2>2. PctToRaw(demand[f]) <= OnBmc(f) /\ PctToRaw(demand[f]) \in 0..RawMax
    BY <1>5, <1>7, <2>1, PctToRawMonotone, PctToRawIsByte
  <2> QED BY <1>3, <1>4, <2>1, <2>2 DEF Wanted, RawMax
<1>9. CASE r = PctToRaw(applied[f])
  <2>1. r >= PctToRaw(demand[f]) /\ (critical => r = PctToRaw(myCfg.max))
    BY <1>2, <1>6, <1>7, CommandMeetsDemand
  <2> QED BY <1>3, <1>5, <1>9, <2>1 DEF Wanted
<1> QED
  BY <1>8, <1>9 DEF LeftAlone

LEMMA MeetKept ==
  ASSUME DoneMeet, UNCHANGED <<fanMin, dryRun, myCfg, myBmc, demand, todo, raw, critical>>,
         pc' \in {"joining"} \cup Applying => UNCHANGED pc,
         pc \in Applying => sess' \subseteq sess
  PROVE  DoneMeet'
<1>1. \A f \in myCfg.fans : OnBmc(f)' = OnBmc(f)
  BY DEF OnBmc
<1> QED
  BY <1>1 DEF DoneMeet, DemandOK, Done, Wanted, Applying

\* A step out of the parts of a cycle this is about.
LEMMA MeetOutside ==
  ASSUME pc' \notin {"joining"} \cup Applying PROVE DoneMeet'
BY DEF DoneMeet, DemandOK, Done, Applying

LEMMA MeetCycle ==
  ASSUME Plain, Steady, Believed, DoneMeet, Cycle PROVE DoneMeet'
<1> USE DEF Steady, LimitsInv
<1>1. CASE BeginCycle \/ FanRows \/ Judge
  BY <1>1, MeetOutside DEF BeginCycle, FanRows, Judge, EndCycle, Applying
<1>2. CASE ConnectDone
  BY <1>2, MeetKept DEF ConnectDone, askVars, Applying
<1>3. CASE SenseAndDecide
  <2>1. PICK usable \in SUBSET myCfg.sensors : \E values \in [usable -> Temps] :
          /\ critical' = IsCritical(myCfg, values)
          /\ demand' = [f \in Fan |-> IF f \in myCfg.fans THEN Demands(myCfg, values)[f] ELSE 0]
    BY <1>3 DEF SenseAndDecide
  <2>2. PICK values \in [usable -> Temps] :
          /\ critical' = IsCritical(myCfg, values)
          /\ demand' = [f \in Fan |-> IF f \in myCfg.fans THEN Demands(myCfg, values)[f] ELSE 0]
    BY <2>1
  <2>3. ValidConfig(myCfg) /\ myCfg.fans \subseteq Fan /\ \A s \in DOMAIN values : values[s] \in Int
    BY ConfigFacts, ControllerAssumption DEF TypeOK, LoopTypeOK
  <2>4. \A f \in myCfg.fans : /\ demand'[f] \in myCfg.min..myCfg.max
                              /\ critical' => demand'[f] = myCfg.max
    BY <2>2, <2>3, DemandsWithinLimits
  <2>5. pc' = "joining" /\ UNCHANGED myCfg
    BY <1>3 DEF SenseAndDecide
  <2> QED BY <2>4, <2>5 DEF DoneMeet, DemandOK, Done, Applying
<1>4. CASE JoinConnect
  BY <1>4 DEF JoinConnect, EndCycle, DoneMeet, DemandOK, Done, Applying
<1>5. CASE ReadBack
  <2>1. pc' \notin {"joining"} \cup Applying
    BY <1>5 DEF ReadBack, EndCycle, Applying
  <2> QED BY <2>1, MeetOutside
<1>6. CASE ChooseFloor
  <2>1. PICK f \in todo :
          LET had == applied[f] # None
              r == FloorToCommand(myCfg, had, applied[f], demand[f], critical)
          IN  /\ Next1(f, todo)
              /\ \/ /\ LeftAlone(f, had, r) \/ Suppressed
                    /\ todo' = todo \ {f} /\ UNCHANGED <<pc, raw>>
                 \/ raw' = r /\ pc' = "sending" /\ UNCHANGED todo
    BY <1>6 DEF ChooseFloor
  <2>2. pc = "writing" /\ UNCHANGED <<fanMin, sess, dryRun, myCfg, myBmc, demand, critical>>
    BY <1>6 DEF ChooseFloor, bmcVars, askVars
  <2>3. f \in Fan /\ f \in myCfg.fans /\ todo \subseteq Fan /\ myCfg \in Configs
    BY <2>2 DEF Alone, Applying, TypeOK, LoopTypeOK
  <2>4. DemandOK' /\ \A g \in myCfg.fans : OnBmc(g)' = OnBmc(g)
    BY <2>1, <2>2 DEF DoneMeet, DemandOK, Applying, OnBmc
  <2>5. CASE /\ todo' = todo \ {f} /\ UNCHANGED pc
             /\ \/ Suppressed
                \/ LET had == applied[f] # None
                   IN  LeftAlone(f, had, FloorToCommand(myCfg, had, applied[f], demand[f], critical))
    <3>1. ~dryRun => OnBmc(f) # None /\ Wanted(f, OnBmc(f))
      BY <2>2, <2>3, <2>5, LeftAloneMeets DEF Suppressed
    <3>2. Done' => \A g \in myCfg.fans \ todo' : OnBmc(g) # None /\ Wanted(g, OnBmc(g))
      BY <2>2, <2>5, <3>1 DEF Done, DoneMeet
    <3> QED BY <2>2, <2>4, <2>5, <3>2 DEF DoneMeet, Wanted
  <2>6. CASE /\ raw' = FloorToCommand(myCfg, applied[f] # None, applied[f], demand[f], critical)
             /\ pc' = "sending" /\ UNCHANGED todo
    <3>1. /\ demand[f] \in myCfg.min..myCfg.max /\ critical \in BOOLEAN
          /\ critical => demand[f] = myCfg.max
          /\ applied[f] # None => applied[f] \in Int
      BY <2>2, <2>3, IntervalNumbers DEF DoneMeet, DemandOK, Applying, TypeOK, LoopTypeOK,
                                         CtlTypeOK, Floor
    <3>2. raw' >= PctToRaw(demand[f]) /\ (critical => raw' = PctToRaw(myCfg.max))
      BY <2>3, <2>6, <3>1, CommandMeetsDemand
    <3>3. \A g \in todo : Next1(g, todo) => g = f
      BY <2>1, <2>3, OnlyNext
    <3>4. Done' => \A g \in myCfg.fans \ todo : OnBmc(g) # None /\ Wanted(g, OnBmc(g))
      BY <2>2, <2>6 DEF Done, DoneMeet, Applying
    <3> QED BY <2>2, <2>4, <2>6, <3>2, <3>3, <3>4 DEF DoneMeet, Wanted
  <2> QED BY <2>1, <2>5, <2>6
<1>7. CASE SendFloor
  <2>1. PICK f \in todo :
          /\ Next1(f, todo)
          /\ \/ Sets(f, raw) /\ pc' = "recording" /\ UNCHANGED <<todo, raw>>
             \/ Keeps /\ pc' = "writing" /\ todo' = todo \ {f} /\ myBmc \notin sess'
    BY <1>7, SendEffect, Served
  <2>2. /\ pc = "sending" /\ UNCHANGED <<dryRun, myCfg, myBmc, demand, critical>>
        /\ sess' \subseteq sess /\ myCfg.fans \subseteq Fan
    BY <1>7, SendEffect, ConfigFacts DEF SendFloor, askVars, Believed, TypeOK, LoopTypeOK
  <2>3. DemandOK'
    BY <2>1, <2>2 DEF DoneMeet, DemandOK, Applying
  <2>4. CASE Sets(f, raw) /\ pc' = "recording" /\ UNCHANGED <<todo, raw>>
    <3>1. \A g \in myCfg.fans \ todo : OnBmc(g)' = OnBmc(g)
      BY <2>2, <2>4 DEF Sets
    <3>2. Done' => \A g \in myCfg.fans \ todo : OnBmc(g) # None /\ Wanted(g, OnBmc(g))
      BY <2>2, <2>4 DEF Done, DoneMeet, Applying
    <3>3. \A g \in todo : Next1(g, todo) => Wanted(g, raw)
      BY <2>2 DEF DoneMeet
    <3> QED BY <2>2, <2>3, <2>4, <3>1, <3>2, <3>3 DEF DoneMeet, Wanted
  <2>5. CASE pc' = "writing" /\ myBmc \notin sess'
    BY <2>2, <2>3, <2>5 DEF DoneMeet, Done
  <2> QED BY <2>1, <2>4, <2>5
<1>8. CASE RecordFloor
  <2>1. PICK f \in todo : Next1(f, todo) /\ todo' = todo \ {f}
    BY <1>8 DEF RecordFloor
  <2>2. /\ pc = "recording" /\ pc' = "writing"
        /\ UNCHANGED <<fanMin, sess, dryRun, myCfg, myBmc, demand, critical>>
    BY <1>8 DEF RecordFloor, bmcVars, askVars
  <2>3. f \in Fan /\ raw # None
    BY Distinct DEF TypeOK, LoopTypeOK
  <2>4. OnBmc(f) = raw /\ Wanted(f, raw)
    BY <2>1, <2>2, <2>3 DEF Believed, Recording, DoneMeet
  <2>5. Done' => \A g \in myCfg.fans \ todo' : OnBmc(g) # None /\ Wanted(g, OnBmc(g))
    BY <2>1, <2>2, <2>3, <2>4 DEF Done, DoneMeet, Applying
  <2> QED BY <2>2, <2>5 DEF DoneMeet, DemandOK, Applying, OnBmc, Wanted
<1> QED
  BY <1>1, <1>2, <1>3, <1>4, <1>5, <1>6, <1>7, <1>8 DEF Cycle

LEMMA MeetReload ==
  ASSUME Plain, Steady, DoneMeet, NEW p \in Reloaders, LoadFile(p) \/ ReloadStep(p)
  PROVE  DoneMeet'
<1> USE DEF Steady, LimitsInv
<1>1. CASE p = "watch"
  BY <1>1, ReloadShape, MeetOutside DEF Applying
<1>2. CASE p = "hup"
  <2>1. ~WindDown(p) /\ ~ForgetFan(p)
    BY <1>2, WatcherWinds DEF Plain
  <2> QED BY <1>2, <2>1, ReloadElse, MeetKept DEF ReloadStep, Plain, askVars
<1> QED
  BY <1>1, <1>2, ControllerAssumption

LEMMA MeetStep ==
  ASSUME Plain, Steady, Believed, DoneMeet, [Next]_vars, UNCHANGED dryRun, restarts' = 0
  PROVE  DoneMeet'
<1> USE DEF Steady, LimitsInv
<1>1. CASE \E p \in Reloaders : LoadFile(p) \/ ReloadStep(p)
  BY <1>1, MeetReload
<1>2. CASE Release
  <2>1. pc' \in {"releasing", "stopped"}
    BY <1>2 DEF Release, ReleaseNothing, BeginRelease, ReleaseFan, EndRelease
  <2> QED BY <2>1, MeetOutside DEF Applying
<1>3. CASE Environment
  <2>1. CASE Interval \/ EditFile \/ Trigger \/ ToggleDryRun \/ Stop
    BY <2>1, MeetKept DEF Interval, EditFile, Trigger, ToggleDryRun, Stop, bmcVars, askVars,
                          loopVars, sessVars
  <2>2. CASE LoseBmc
    <3>1. ~\E h \in Host : BmcRestart(h)
      BY NotReset
    <3> QED BY <2>2, <3>1, MeetKept DEF LoseBmc, HangUp, askVars, loopVars
  <2>3. CASE Crash \/ StartAgain
    <3>1. pc' \in {"start", "stopped", "down"}
      BY <2>3, CrashPc DEF StartAgain
    <3> QED BY <3>1, MeetOutside DEF Applying
  <2> QED BY <1>3, <2>1, <2>2, <2>3 DEF Environment
<1>4. CASE UNCHANGED vars
  BY <1>4, MeetKept DEF vars, bmcVars, askVars, loopVars
<1> QED
  BY <1>1, <1>2, <1>3, <1>4, MeetCycle DEF Next

LEMMA MeetFirst == Init => DoneMeet
BY DEF Init, DoneMeet, DemandOK, Done, Applying

\* The dry run, on or off, is not toggled; without a display nothing can.
Untoggled == [][UNCHANGED dryRun]_vars

LEMMA DaemonUntoggled ==
  ASSUME Interactive = FALSE PROVE Spec => Untoggled
<1>1. [Next]_vars => [UNCHANGED dryRun]_vars
  BY DEF Next, Cycle, BeginCycle, ConnectDone, SenseAndDecide, JoinConnect, ChooseFloor,
       SendFloor, RecordFloor, ReadBack, FanRows, Judge, LoadFile, ReloadStep, SameChecksum,
       SwapConfig, WindDown, ForgetFan, ReloadDone, Release, ReleaseNothing, BeginRelease,
       ReleaseFan, EndRelease, Environment, Interval, EditFile, Trigger, ToggleDryRun, Stop,
       LoseBmc, Crash, StartAgain, vars, askVars
<1> QED
  BY <1>1, PTL DEF Spec, Untoggled

LEMMA AlwaysMeet ==
  ASSUME Plain
  PROVE  Spec /\ Untoggled => [](TypeOK /\ Sure /\ (restarts = 0 => DoneMeet))
<1> DEFINE I == Sure /\ (restarts = 0 => DoneMeet)
<1>1. Init => I
  BY SureFirst, MeetFirst
<1>2. TypeOK /\ I /\ [Next]_vars /\ [UNCHANGED dryRun]_vars => I'
  <2> SUFFICES ASSUME TypeOK, I, [Next]_vars, [UNCHANGED dryRun]_vars PROVE I'
    OBVIOUS
  <2>1. UNCHANGED dryRun
    BY DEF vars, askVars
  <2> QED BY <2>1, SureStep, MeetStep, NotReset DEF Sure, Steady, LimitsInv
<1> QED
  BY <1>1, <1>2, TypeCorrect, PTL DEF Spec, Untoggled

(***************************************************************************)
(* After a cycle whose writes went through, every fan of the config has at *)
(* least the floor its curves demand: not hysteresis, the ramp limit, the  *)
(* skipped re-write nor any failed write, edit, kick or crash before, or a *)
(* reload in the middle of the cycle, leaves it below.                     *)
(***************************************************************************)
THEOREM MeetsDemand ==
  ASSUME Plain
  PROVE  Spec /\ Untoggled => [](restarts = 0 => FloorsMeetDemand)
<1>1. TypeOK /\ Sure /\ DoneMeet => FloorsMeetDemand
  BY AtHome DEF FloorsMeetDemand, WritesDone, FloorOn, DoneMeet, Done, Wanted, OnBmc, Applying,
                Sure, Steady, LimitsInv, Plain
<1> QED
  BY <1>1, AlwaysMeet, PTL

(***************************************************************************)
(* A critical reading takes every fan of the config to exactly the maximum *)
(* floor in that cycle, from whatever floor it had.                        *)
(***************************************************************************)
THEOREM ReachesEveryFan ==
  ASSUME Plain
  PROVE  Spec /\ Untoggled => [](restarts = 0 => CriticalReachesEveryFan)
<1>1. TypeOK /\ Sure /\ DoneMeet => CriticalReachesEveryFan
  BY AtHome DEF CriticalReachesEveryFan, WritesDone, FloorOn, DoneMeet, Done, Wanted, OnBmc,
                Applying, Sure, Steady, LimitsInv, Plain
<1> QED
  BY <1>1, AlwaysMeet, PTL
-----------------------------------------------------------------------------
(***************************************************************************)
(* Why no fan is falsely flagged.  A cycle of the daemon begins only after *)
(* a full interval, which every remembered floor has then had; what is     *)
(* copied to settled is therefore what the BMC shows, and until the        *)
(* verdict nothing raises it.                                              *)
(***************************************************************************)
Spun(f) == spun[Initial.ilo][f]
Seasoned(f) == Spun(f) = OnBmc(f)
Judging == {"rows", "judging"}

Quiet ==
  /\ kick = FALSE /\ flagged = {}
  /\ tick => pc \in {"idle", "reloading", "releasing", "stopped"}
  /\ pc \in {"start", "down"} => \A f \in Fan : applied[f] = None
  /\ (tick /\ pc \in {"idle", "reloading"}) \/ pc \in {"sensing", "joining"} =>
       \A f \in Fan : applied[f] # None => Seasoned(f) \/ Forgetting(f)
  /\ pc \in Applying \cup Judging =>
       \A f \in Fan : settled[f] # None => Spun(f) # None /\ settled[f] = RawToPct(Spun(f))
  /\ pc \in Judging =>
       \A f \in Fan : speeds[f] # None => speeds[f] >= ShownFloor(Initial.ilo, f)

\* A floor shown in whole percent is within two percent of what was written.
LEMMA ShownIsNear ==
  ASSUME NEW a \in 0..RawMax, NEW b \in 0..RawMax, NEW p \in 0..100,
         p >= RawToPct(IF a < b THEN a ELSE b) \div Pct(1)
  PROVE  /\ ~Mismatched(RawToPct(a), Pct(p)) \/ RawToPct(b) < RawToPct(a)
         /\ ~Mismatched(RawToPct(b), Pct(p)) \/ RawToPct(a) < RawToPct(b)
<1> DEFINE m == IF a < b THEN a ELSE b
<1>1. \A x, y \in 0..RawMax : x <= y => RawToPct(x) <= RawToPct(y)
  BY SMT DEF RawToPct, RawMax, Pct, RawStep
<1>2. \A x \in 0..RawMax : RawToPct(x) \in Int
  BY RoundTrip, IntervalNumbers
<1>3. \A x \in Int : p >= x \div Pct(1) => ~Mismatched(x, Pct(p))
  BY SMT DEF Mismatched, Pct
<1>4. ~Mismatched(RawToPct(m), Pct(p))
  BY <1>2, <1>3
<1>5. a \in Int /\ b \in Int
  BY DEF RawMax
<1>6. CASE a < b
  BY <1>1, <1>2, <1>4, <1>5, <1>6
<1>7. CASE ~(a < b)
  BY <1>1, <1>2, <1>4, <1>5, <1>7
<1> QED
  BY <1>6, <1>7

\* With what is settled and believed, no fan is bad.
LEMMA NothingBad ==
  ASSUME Plain, Steady, Believed, SettledFansAreRemembered, Quiet, pc = "judging"
  PROVE  Bad = {}
<1> USE DEF Steady, LimitsInv
<1> SUFFICES ASSUME NEW f \in Judged PROVE ~Mismatched(Verifiable(f), Pct(speeds[f]))
  BY DEF Bad
<1>1. /\ f \in Fan /\ speeds[f] # None /\ speeds[f] \in 0..100 /\ settled[f] # None
      /\ Initial.ilo \in Host
  BY ConfigFacts, ControllerAssumption DEF Judged, Verifiable, TypeOK, ViewTypeOK, LoopTypeOK
<1>2. applied[f] # None
  BY <1>1 DEF SettledFansAreRemembered, Remembered
<1>3. OnBmc(f) # None /\ applied[f] = RawToPct(OnBmc(f))
  BY <1>1, <1>2 DEF Believed, Recording, Forgetting, Alone
<1>4. Spun(f) # None /\ settled[f] = RawToPct(Spun(f)) /\ speeds[f] >= ShownFloor(Initial.ilo, f)
  BY <1>1 DEF Quiet, Judging
<1>5. OnBmc(f) \in 0..RawMax /\ Spun(f) \in 0..RawMax
  BY <1>1, <1>3, <1>4 DEF OnBmc, Spun, TypeOK, BmcTypeOK
<1>6. ShownFloor(Initial.ilo, f) =
        RawToPct(IF OnBmc(f) < Spun(f) THEN OnBmc(f) ELSE Spun(f)) \div Pct(1)
  BY <1>3, <1>4 DEF ShownFloor, OnBmc, Spun
<1>7. /\ ~Mismatched(applied[f], Pct(speeds[f])) \/ settled[f] < applied[f]
      /\ ~Mismatched(settled[f], Pct(speeds[f])) \/ applied[f] < settled[f]
  BY <1>1, <1>3, <1>4, <1>5, <1>6, ShownIsNear
<1>8. applied[f] \in Int /\ settled[f] \in Int
  BY <1>3, <1>4, <1>5, RoundTrip, IntervalNumbers
<1> QED
  BY <1>1, <1>2, <1>7, <1>8 DEF Verifiable

LEMMA QuietKept ==
  ASSUME Quiet, UNCHANGED <<kick, flagged, tick, fanMin, spun, applied, settled, speeds>>,
         UNCHANGED pc, rel'["watch"] = rel["watch"]
  PROVE  Quiet'
<1>1. \A f \in Fan : /\ Spun(f)' = Spun(f) /\ Seasoned(f)' = Seasoned(f)
                     /\ Forgetting(f)' = Forgetting(f)
                     /\ ShownFloor(Initial.ilo, f)' = ShownFloor(Initial.ilo, f)
  BY DEF Spun, Seasoned, OnBmc, Forgetting, ShownFloor
<1> QED
  BY <1>1 DEF Quiet

LEMMA QuietCycle ==
  ASSUME Plain, Steady, Believed, SettledFansAreRemembered, Quiet, Cycle PROVE Quiet'
<1> USE DEF Steady, LimitsInv
<1>1. CASE BeginCycle
  <2>1. /\ pc' = "sensing" /\ UNCHANGED <<fanMin, spun, applied, flagged, rel>>
        /\ (pc = "idle" /\ tick /\ tick' = FALSE) \/ (pc = "start" /\ UNCHANGED tick)
        /\ kick' = FALSE
    BY <1>1 DEF BeginCycle, bmcVars, ctlVars, viewVars, Quiet
  <2>2. \A f \in Fan : applied[f] # None => Seasoned(f) \/ Forgetting(f)
    BY <2>1 DEF Quiet
  <2>3. \A f \in Fan : /\ Seasoned(f)' = Seasoned(f) /\ Forgetting(f)' = Forgetting(f)
    BY <2>1 DEF Spun, Seasoned, OnBmc, Forgetting
  <2>4. tick' = FALSE
    BY <2>1 DEF Quiet, TypeOK, AskTypeOK
  <2> QED BY <2>1, <2>2, <2>3, <2>4 DEF Quiet, Applying, Judging
<1>2. CASE ConnectDone
  BY <1>2, QuietKept DEF ConnectDone, ctlVars, askVars, viewVars
<1>3. CASE SenseAndDecide
  <2>1. /\ pc = "sensing" /\ pc' = "joining"
        /\ UNCHANGED <<kick, tick, fanMin, spun, applied, flagged, rel>>
    BY <1>3 DEF SenseAndDecide, bmcVars, ctlVars, askVars, viewVars
  <2>2. \A f \in Fan : /\ Seasoned(f)' = Seasoned(f) /\ Forgetting(f)' = Forgetting(f)
    BY <2>1 DEF Spun, Seasoned, OnBmc, Forgetting
  <2> QED BY <2>1, <2>2 DEF Quiet, Applying, Judging
<1>4. CASE JoinConnect
  <2>1. /\ pc = "joining" /\ UNCHANGED <<kick, tick, fanMin, spun, flagged>>
        /\ pc' = "idle" \/ (pc' = "writing" /\ settled' = applied)
    BY <1>4 DEF JoinConnect, EndCycle, bmcVars, askVars, viewVars
  <2>2. \A f \in Fan : /\ Spun(f)' = Spun(f)
                       /\ ~Forgetting(f) /\ ~Recording(f)
    BY <2>1 DEF Spun, Forgetting, Recording, Alone
  <2>3. \A f \in Fan : applied[f] # None => Spun(f) # None /\ applied[f] = RawToPct(Spun(f))
    BY <2>1, <2>2 DEF Quiet, Believed, Seasoned
  <2>4. tick = FALSE
    BY <2>1 DEF Quiet, TypeOK, AskTypeOK
  <2> QED BY <2>1, <2>2, <2>3, <2>4 DEF Quiet, Applying, Judging
<1>5. CASE ChooseFloor \/ SendFloor \/ RecordFloor
  <2>1. /\ pc \in Applying /\ pc' \in Applying
        /\ UNCHANGED <<kick, tick, spun, settled, flagged>>
    BY <1>5 DEF ChooseFloor, SendFloor, RecordFloor, OutcomeStep, SetFanMin, Applying,
                bmcVars, ctlVars, askVars, viewVars
  <2>2. \A f \in Fan : Spun(f)' = Spun(f)
    BY <2>1 DEF Spun
  <2> QED BY <2>1, <2>2 DEF Quiet, Applying, Judging
<1>6. CASE ReadBack
  <2>1. PICK out \in {"ok"} \cup {"unsent"} \cup FaultKinds :
          \E s \in IF out = "ok" THEN Reports(myBmc.ilo) ELSE {speeds} :
            /\ FanSpeeds(myBmc, stopping, s, out)
            /\ IF out = "ok" /\ \E f \in Fan : s[f] # None
               THEN speeds' = s /\ pc' = "rows"
               ELSE EndCycle /\ UNCHANGED speeds
    BY <1>6 DEF ReadBack
  <2>2. PICK s \in IF out = "ok" THEN Reports(myBmc.ilo) ELSE {speeds} :
          /\ FanSpeeds(myBmc, stopping, s, out)
          /\ IF out = "ok" /\ \E f \in Fan : s[f] # None
             THEN speeds' = s /\ pc' = "rows"
             ELSE EndCycle /\ UNCHANGED speeds
    BY <2>1
  <2>3. /\ pc = "writing" /\ UNCHANGED <<kick, tick, fanMin, spun, settled, flagged>>
        /\ tick = FALSE
    BY <1>6, <2>2 DEF ReadBack, FanSpeeds, ctlVars, askVars, Quiet, TypeOK, AskTypeOK
  <2>4. CASE out = "ok" /\ speeds' = s /\ pc' = "rows"
    <3>1. s \in Reports(Initial.ilo)
      BY <2>4, AtHome DEF Plain
    <3>2. \A f \in Fan : s[f] # None => s[f] >= ShownFloor(Initial.ilo, f)
      <4> SUFFICES ASSUME NEW f \in Fan, s[f] # None
                   PROVE  s[f] >= ShownFloor(Initial.ilo, f)
        OBVIOUS
      <4>1. s[f] \in Seen(Initial.ilo, f)
        BY <3>1 DEF Reports
      <4>2. s[f] \in 0..100
        BY <3>1, ReportsType, ConfigFacts, ControllerAssumption DEF TypeOK
      <4>3. s[f] = ShownFloor(Initial.ilo, f) \/ s[f] > ShownFloor(Initial.ilo, f)
        BY <4>1 DEF Seen
      <4>4. ShownFloor(Initial.ilo, f) \in Int
        BY <3>1, ShownIsPercent, ConfigFacts, ControllerAssumption DEF TypeOK
      <4> QED BY <4>2, <4>3, <4>4
    <3>3. \A f \in Fan : /\ Spun(f)' = Spun(f)
                         /\ ShownFloor(Initial.ilo, f)' = ShownFloor(Initial.ilo, f)
      BY <2>3 DEF Spun, ShownFloor
    <3> QED BY <2>3, <2>4, <3>2, <3>3 DEF Quiet, Applying, Judging
  <2>5. CASE EndCycle
    BY <2>3, <2>5 DEF EndCycle, Quiet, Applying, Judging
  <2> QED BY <2>2, <2>4, <2>5
<1>7. CASE FanRows
  <2>1. /\ pc = "rows" /\ pc' = "judging"
        /\ UNCHANGED <<kick, tick, fanMin, spun, settled, speeds, flagged>>
    BY <1>7 DEF FanRows, bmcVars, ctlVars, askVars
  <2>2. \A f \in Fan : /\ Spun(f)' = Spun(f)
                       /\ ShownFloor(Initial.ilo, f)' = ShownFloor(Initial.ilo, f)
    BY <2>1 DEF Spun, ShownFloor
  <2> QED BY <2>1, <2>2 DEF Quiet, Applying, Judging
<1>8. CASE Judge
  <2>1. /\ pc = "judging" /\ pc' = "idle" /\ UNCHANGED <<kick, tick>>
        /\ flagged' = (flagged \ myCfg.fans) \cup Bad
    BY <1>8 DEF Judge, EndCycle, askVars
  <2>2. flagged' = {} /\ tick = FALSE
    BY <2>1, NothingBad DEF Quiet, TypeOK, AskTypeOK
  <2> QED BY <2>1, <2>2 DEF Quiet, Applying, Judging
<1> QED
  BY <1>1, <1>2, <1>3, <1>4, <1>5, <1>6, <1>7, <1>8 DEF Cycle

LEMMA QuietReload ==
  ASSUME Plain, Steady, Believed, Quiet, NEW p \in Reloaders, LoadFile(p) \/ ReloadStep(p)
  PROVE  Quiet'
<1> USE DEF Steady, LimitsInv
<1>1. CASE p # "watch"
  <2>1. p = "hup" /\ ~WindDown(p) /\ ~ForgetFan(p)
    BY <1>1, WatcherWinds, ControllerAssumption DEF Plain
  <2> QED BY <2>1, ReloadElse, QuietKept DEF ReloadStep, Plain, askVars, viewVars
<1> SUFFICES ASSUME p = "watch" PROVE Quiet'
  BY <1>1
<1>2. rel["watch"].todo \subseteq Fan
  BY RelFields DEF TypeOK
<1>3. pc \in {"idle", "reloading"} /\ pc' \in {"idle", "reloading"}
  BY ReloadShape
<1>4. UNCHANGED <<kick, tick, flagged, spun>>
  BY DEF LoadFile, ReloadStep, SameChecksum, SwapConfig, WindDown, ForgetFan, ReloadDone,
         SetFanMin, bmcVars, askVars, viewVars
<1> SUFFICES ASSUME tick
             PROVE  \A f \in Fan : applied'[f] # None => Seasoned(f)' \/ Forgetting(f)'
  BY <1>3, <1>4 DEF Quiet, Applying, Judging
<1>5. /\ \A f \in Fan : applied[f] # None => Seasoned(f) \/ Forgetting(f)
      /\ \A f \in Fan : Spun(f)' = Spun(f)
  BY <1>3, <1>4 DEF Quiet, Spun
<1>6. CASE LoadFile(p) \/ SameChecksum(p) \/ SwapConfig(p) \/ ReloadDone(p)
  BY <1>5, <1>6, ReloadElse DEF Plain, Seasoned, OnBmc, Forgetting
<1>7. CASE WindDown(p)
  <2>1. PICK f \in rel["watch"].todo :
          /\ Next1(f, rel["watch"].todo)
          /\ \/ /\ Sets(f, PctToRaw(rel["watch"].next.min)) /\ rel'["watch"].pc = "deleting"
                /\ rel'["watch"].todo = rel["watch"].todo
             \/ Keeps /\ rel'["watch"].pc = "winding"
    BY <1>7, WindDownEffect, Served
  <2>2. rel["watch"].pc = "winding" /\ UNCHANGED applied
    BY <1>7 DEF WindDown, AtReload, ctlVars
  <2>3. \A g \in Fan : OnBmc(g)' = OnBmc(g) \/ Forgetting(g)'
    BY <2>1 DEF Sets, Keeps, Forgetting
  <2> QED BY <1>5, <2>2, <2>3 DEF Seasoned, Forgetting
<1>8. CASE ForgetFan(p)
  <2>1. PICK f \in rel["watch"].todo :
          Next1(f, rel["watch"].todo) /\ applied' = [applied EXCEPT ![f] = None]
    BY <1>8 DEF ForgetFan
  <2>2. UNCHANGED fanMin
    BY <1>8 DEF ForgetFan, bmcVars
  <2>3. \A g \in Fan : applied'[g] # None => applied[g] # None /\ ~Forgetting(g)
    BY <1>2, <2>1, OnlyNext DEF Forgetting, TypeOK, CtlTypeOK
  <2> QED BY <1>5, <2>2, <2>3 DEF Seasoned, OnBmc
<1> QED
  BY <1>6, <1>7, <1>8 DEF ReloadStep

LEMMA QuietStep ==
  ASSUME Plain, Interactive = FALSE, Steady, Believed, SettledFansAreRemembered, Quiet,
         [Next]_vars, restarts' = 0
  PROVE  Quiet'
<1> USE DEF Steady, LimitsInv
<1>1. CASE \E p \in Reloaders : LoadFile(p) \/ ReloadStep(p)
  BY <1>1, QuietReload
<1>2. CASE Release
  BY <1>2 DEF Release, ReleaseNothing, BeginRelease, ReleaseFan, EndRelease, Quiet, Applying,
              Judging, askVars, viewVars
<1>3. CASE Environment
  <2>1. CASE Interval
    <3>1. /\ pc = "idle" /\ UNCHANGED <<pc, kick, flagged, fanMin>> /\ spun' = fanMin
      BY <2>1 DEF Interval, loopVars, viewVars
    <3>2. \A f \in Fan : Seasoned(f)'
      BY <3>1 DEF Seasoned, Spun, OnBmc
    <3> QED BY <3>1, <3>2 DEF Quiet, Applying, Judging
  <2>2. CASE EditFile \/ Stop
    BY <2>2, QuietKept DEF EditFile, Stop, bmcVars, ctlVars, askVars, loopVars, viewVars
  <2>3. CASE LoseBmc
    <3>1. ~\E h \in Host : BmcRestart(h)
      BY NotReset
    <3> QED BY <2>3, <3>1, QuietKept DEF LoseBmc, HangUp, ctlVars, askVars, loopVars, viewVars
  <2>4. CASE Crash
    <3>1. /\ kick' = FALSE /\ tick' = FALSE /\ flagged' = {}
          /\ \A f \in Fan : applied'[f] = None
      BY <2>4 DEF Crash, NoFloors
    <3> QED BY <2>4, <3>1, CrashPc DEF Quiet, Applying, Judging
  <2>5. CASE StartAgain
    BY <2>5 DEF StartAgain, Quiet, Applying, Judging, askVars, viewVars
  <2>6. ~Trigger /\ ~ToggleDryRun
    BY DEF Trigger, ToggleDryRun
  <2> QED BY <1>3, <2>1, <2>2, <2>3, <2>4, <2>5, <2>6 DEF Environment
<1>4. CASE UNCHANGED vars
  BY <1>4, QuietKept DEF vars, bmcVars, ctlVars, askVars, loopVars, viewVars
<1> QED
  BY <1>1, <1>2, <1>3, <1>4, QuietCycle DEF Next

(***************************************************************************)
(* No false alarm: until a BMC is reset the daemon flags no fan, be it one *)
(* that is still spooling up, one just lowered, one missing from the reply *)
(* or one a reload has dropped, for any speeds the BMC may report.         *)
(***************************************************************************)
THEOREM NoneFalse ==
  ASSUME Plain, Interactive = FALSE
  PROVE  Spec => []NoFalseAlarm
<1> DEFINE I == Sure /\ (restarts = 0 => Quiet)
<1>1. Init => I
  <2>1. Init => Quiet
    BY DEF Init, Quiet, Applying, Judging, NoFloors
  <2> QED BY <2>1, SureFirst
<1>2. TypeOK /\ SettledFansAreRemembered /\ I /\ [Next]_vars => I'
  BY SureStep, QuietStep, NotReset DEF Sure, Steady, LimitsInv
<1>3. TypeOK /\ I => NoFalseAlarm
  BY DEF NoFalseAlarm, Quiet, TypeOK, BmcTypeOK
<1> QED
  BY <1>1, <1>2, <1>3, TypeCorrect, SettledRemembered, PTL DEF Spec
=============================================================================
