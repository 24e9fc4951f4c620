----------------------------- MODULE Controller -----------------------------
(***************************************************************************)
(* Package controller: the sense, decide, write, verify loop, hot reload   *)
(* and shutdown, running against the BMC of module Bmc.                    *)
(*                                                                         *)
(* Goroutines and their steps.  The loop (pc) runs cycles, the watcher's   *)
(* reloads and release; a second goroutine runs the reloads that SIGHUP,   *)
(* or r in the display, asks for; Connect runs beside the sensor sweep.    *)
(* A step is a section under the mutex mu, one call of the BMC client, or  *)
(* work on a goroutine's own variables: those are all the points where     *)
(* another goroutine can be seen to run.                                   *)
(*                                                                         *)
(* Abstracted: how the sensors give a group its value or none (any values  *)
(* may be read in any sweep), the snapshot but for its read-back verdict,  *)
(* the Prometheus series, and time but for the interval.  A cycle is taken *)
(* to end before the interval does.  A local variable whose scope has      *)
(* ended is set back, so that states differ only in what can matter.       *)
(***************************************************************************)
EXTENDS Bmc

CONSTANTS
  Configs,      \* the valid configurations the file may come to hold
  Initial,      \* the one the process starts with
  Invalid,      \* content that Load rejects
  Temps,        \* values a sensor group can have
  Reloaders,    \* subset of {"watch", "hup"}
  Interactive,  \* the display runs the controller: r, d and space work
  MayStop,      \* a SIGTERM can come
  MaxEdits,     \* bound: edits of the config file
  MaxCrashes    \* bound: times the process is killed and started again

ASSUME ControllerAssumption ==
  /\ \A c \in Configs : /\ ValidConfig(c) /\ IsFiniteSet(c.fans)
                        /\ c.fans \subseteq Fan /\ c.ilo \in Host
  /\ Initial \in Configs /\ Invalid \notin Configs
  /\ Temps \subseteq Int
  /\ Reloaders \subseteq {"watch", "hup"}
  /\ Interactive \in BOOLEAN /\ MayStop \in BOOLEAN
  /\ MaxEdits \in Nat /\ MaxCrashes \in Nat

VARIABLES
  \* outside the process
  file, edits, crashes,
  \* Controller's fields under mu
  cfg, bmc, applied, settled,
  \* dryRun, the buffered kick, the interval ticker, the cancelled context
  dryRun, kick, tick, stopping,
  \* the loop: its position, what state() or release captured, the cycle's locals
  pc, myCfg, myBmc, conn, demand, critical, todo, raw,
  \* the read-back: the speeds read, the rows flagged by fanState, the fans
  \* flagged by verify, and the snapshot's Effective with EffectiveKnown
  speeds, rows, flagged, effective,
  \* the reload each reloader is running
  rel

fileVars == <<file, edits, crashes>>
ctlVars  == <<cfg, bmc, applied, settled>>
askVars  == <<dryRun, kick, tick, stopping>>
loopVars == <<pc, myCfg, myBmc, conn, demand, critical, todo, raw>>
viewVars == <<speeds, rows, flagged, effective>>
vars == <<bmcVars, fileVars, ctlVars, askVars, loopVars, viewVars, rel>>

Floor == 0..Full

LoopSteps == {"start", "idle", "sensing", "joining", "writing", "sending", "recording",
              "rows", "judging", "reloading", "releasing", "stopped", "down"}

Reload == [pc : {"off", "loaded", "winding", "deleting"}, next : Configs,
           bmc : Client, todo : SUBSET Fan]

NoReload == [pc |-> "off", next |-> Initial, bmc |-> [ilo |-> Initial.ilo, gen |-> 0],
             todo |-> {}]
NoSpeeds == [f \in Fan |-> None]
NoFloors == [f \in Fan |-> None]

FileTypeOK ==
  file \in Configs \cup {Invalid} /\ edits \in 0..MaxEdits /\ crashes \in 0..MaxCrashes

CtlTypeOK ==
  /\ cfg \in Configs /\ bmc \in Client
  /\ applied \in [Fan -> Floor \cup {None}]
  /\ settled \in [Fan -> Floor \cup {None}]

AskTypeOK == dryRun \in BOOLEAN /\ kick \in BOOLEAN /\ tick \in BOOLEAN /\ stopping \in BOOLEAN

LoopTypeOK ==
  /\ pc \in LoopSteps /\ myCfg \in Configs /\ myBmc \in Client
  /\ conn \in {"pending", "ok", "failed"}
  /\ demand \in [Fan -> Floor] /\ critical \in BOOLEAN
  /\ todo \in SUBSET Fan /\ raw \in 0..RawMax

ViewTypeOK ==
  /\ speeds \in [Fan -> 0..100 \cup {None}]
  /\ rows \in SUBSET Fan /\ flagged \in SUBSET Fan
  /\ effective \in {"unknown", "yes", "no"}

RelTypeOK == rel \in [{"watch", "hup"} -> Reload]

TypeOK ==
  /\ BmcTypeOK /\ FileTypeOK /\ CtlTypeOK /\ AskTypeOK
  /\ LoopTypeOK /\ ViewTypeOK /\ RelTypeOK

Init ==
  /\ BmcInit
  /\ file = Initial /\ edits = 0 /\ crashes = 0
  /\ cfg = Initial /\ bmc = [ilo |-> Initial.ilo, gen |-> 0]
  /\ applied = NoFloors /\ settled = NoFloors
  /\ dryRun \in BOOLEAN /\ kick = FALSE /\ tick = FALSE /\ stopping = FALSE
  /\ pc = "start" /\ myCfg = cfg /\ myBmc = bmc /\ conn = "pending"
  /\ demand = [f \in Fan |-> 0] /\ critical = FALSE /\ todo = {} /\ raw = 0
  /\ speeds = NoSpeeds /\ rows = {} /\ flagged = {} /\ effective = "unknown"
  /\ rel = [p \in {"watch", "hup"} |-> NoReload]

\* The fans whose floor the controller remembers, and the next fan of a sorted list.
Remembered(floors) == {f \in Fan : floors[f] # None}
Next1(f, fans) == f \in fans /\ \A g \in fans : f <= g
-----------------------------------------------------------------------------
(***************************************************************************)
(* The cycle.                                                              *)
(***************************************************************************)
EndCycle ==
  pc' = "idle"

\* The config is read once, when the loop starts.
FaultyCapture == myCfg' = (IF pc = "start" THEN cfg ELSE myCfg) /\ myBmc' = bmc

\* state(): both under one lock.
Capture == myCfg' = cfg /\ myBmc' = bmc

(***************************************************************************)
(* A cycle begins at once when the loop starts, at a tick, or at a kick,   *)
(* after which the ticker is reset; select takes any of those ready.       *)
(***************************************************************************)
BeginCycle ==
  /\ \/ pc = "start" /\ UNCHANGED <<kick, tick>>
     \/ pc = "idle" /\ tick /\ tick' = FALSE /\ UNCHANGED kick
     \/ pc = "idle" /\ kick /\ kick' = FALSE /\ tick' = FALSE
  /\ Capture
  /\ conn' = "pending"
  /\ pc' = "sensing"
  /\ UNCHANGED <<bmcVars, fileVars, ctlVars, dryRun, stopping,
                 demand, critical, todo, raw, viewVars, rel>>

\* The goroutine beside the sweep.
ConnectDone ==
  /\ pc \in {"sensing", "joining"} /\ conn = "pending"
  /\ \E ok \in BOOLEAN : /\ Connect(myBmc, stopping, ok)
                         /\ conn' = IF ok THEN "ok" ELSE "failed"
  /\ UNCHANGED <<fanMin, spun, honours, restarts, fileVars, ctlVars, askVars,
                 pc, myCfg, myBmc, demand, critical, todo, raw, viewVars, rel>>

\* The sweep and decide: every group of the config has a value or none.
SenseAndDecide ==
  /\ pc = "sensing"
  /\ \E usable \in SUBSET myCfg.sensors : \E values \in [usable -> Temps] :
       /\ critical' = IsCritical(myCfg, values)
       /\ demand' = [f \in Fan |-> IF f \in myCfg.fans THEN Demands(myCfg, values)[f] ELSE 0]
  /\ pc' = "joining"
  /\ UNCHANGED <<bmcVars, fileVars, ctlVars, askVars, myCfg, myBmc, conn, todo, raw,
                 viewVars, rel>>

\* The join, and with it freezeSettled: clear, then copy.
JoinConnect ==
  /\ pc = "joining"
  /\ \/ /\ conn = "failed" /\ EndCycle
        /\ UNCHANGED <<settled, todo>>
     \/ /\ conn = "ok"
        /\ settled' = applied
        /\ todo' = myCfg.fans
        /\ pc' = "writing"
  /\ conn' = "pending"
  /\ UNCHANGED <<bmcVars, fileVars, cfg, bmc, applied, askVars,
                 myCfg, myBmc, demand, critical, raw, viewVars, rel>>

\* Takes any command at or below the floor for one the BMC already has.
FaultyLeftAlone(f, had, r) == had /\ RawToPct(r) <= applied[f]

\* apply's early continues: hysteresis, and a command the BMC already has.
LeftAlone(f, had, r) ==
  \/ HeldByHysteresis(myCfg, had, applied[f], demand[f], critical)
  \/ had /\ r = PctToRaw(applied[f])

\* A critical cycle writes in a dry run too.
FaultySuppressed == dryRun /\ ~critical

Suppressed == dryRun

\* apply, up to the write of one fan.
ChooseFloor ==
  /\ pc = "writing"
  /\ \E f \in todo :
       LET had == applied[f] # None
           r == FloorToCommand(myCfg, had, applied[f], demand[f], critical)
       IN  /\ Next1(f, todo)
           /\ \/ /\ LeftAlone(f, had, r) \/ Suppressed
                 /\ todo' = todo \ {f} /\ UNCHANGED <<pc, raw>>
              \/ /\ ~LeftAlone(f, had, r) /\ ~Suppressed
                 /\ raw' = r /\ pc' = "sending" /\ UNCHANGED todo
  /\ UNCHANGED <<bmcVars, fileVars, ctlVars, askVars, myCfg, myBmc, conn, demand, critical,
                 viewVars, rel>>

\* A failed write is remembered in applied like one that succeeded.
FaultyOutcomeStep(out) == "recording"

OutcomeStep(out) == IF out = "ok" THEN "recording" ELSE "writing"

SendFloor ==
  /\ pc = "sending"
  /\ \E f \in todo, out \in {"ok"} \cup {"unsent"} \cup FaultKinds :
       /\ Next1(f, todo)
       /\ SetFanMin(myBmc, stopping, f, raw, out)
       /\ pc' = OutcomeStep(out)
       /\ IF pc' = "recording" THEN UNCHANGED <<todo, raw>>
          ELSE todo' = todo \ {f} /\ raw' = 0
  /\ UNCHANGED <<fileVars, ctlVars, askVars, myCfg, myBmc, conn, demand, critical,
                 viewVars, rel>>

RecordFloor ==
  /\ pc = "recording"
  /\ \E f \in todo : /\ Next1(f, todo)
                     /\ applied' = [applied EXCEPT ![f] = RawToPct(raw)]
                     /\ todo' = todo \ {f}
  /\ pc' = "writing" /\ raw' = 0
  /\ UNCHANGED <<bmcVars, fileVars, cfg, bmc, settled, askVars, myCfg, myBmc, conn, demand,
                 critical, viewVars, rel>>
-----------------------------------------------------------------------------
(***************************************************************************)
(* verify, in its three parts: the command, the rows under one read lock,  *)
(* the verdict under another.                                              *)
(***************************************************************************)
ReadBack ==
  /\ pc = "writing" /\ todo = {}
  /\ \E out \in {"ok"} \cup {"unsent"} \cup FaultKinds :
       \E s \in IF out = "ok" THEN Reports(myBmc.ilo) ELSE {speeds} :
         /\ FanSpeeds(myBmc, stopping, s, out)
         /\ IF out = "ok" /\ \E f \in Fan : s[f] # None
            THEN speeds' = s /\ pc' = "rows"
            ELSE EndCycle /\ UNCHANGED speeds
  /\ critical' = FALSE
  /\ UNCHANGED <<fileVars, ctlVars, askVars, myCfg, myBmc, conn, demand, todo, raw,
                 rows, flagged, effective, rel>>

\* Judges against the floor just written.
FaultyVerifiable(f) == applied[f]

\* verifiableFloorLocked: the lower of the settled and the current floor.
Verifiable(f) ==
  IF settled[f] # None /\ applied[f] # None /\ applied[f] < settled[f]
  THEN applied[f] ELSE settled[f]

Judged == {f \in myCfg.fans : speeds[f] # None /\ Verifiable(f) # None}

Bad == {f \in Judged : Mismatched(Verifiable(f), Pct(speeds[f]))}

\* The floor shown, which may have been written seconds ago.
FaultyRowFloor(f) == applied[f]

RowFloor(f) == Verifiable(f)

\* fanState: a row is red by the same test, made under a lock of its own.
RedRows ==
  {f \in myCfg.fans : /\ speeds[f] # None /\ RowFloor(f) # None
                      /\ Mismatched(RowFloor(f), Pct(speeds[f]))}

FanRows ==
  /\ pc = "rows"
  /\ rows' = RedRows
  /\ pc' = "judging"
  /\ UNCHANGED <<bmcVars, fileVars, ctlVars, askVars, myCfg, myBmc, conn, demand, critical,
                 todo, raw, speeds, flagged, effective, rel>>

\* With nothing judged the previous verdict stands.
FaultyVerdict == IF Bad # {} THEN "no" ELSE IF Judged = {} THEN effective ELSE "yes"

Verdict == IF Judged = {} THEN "unknown" ELSE IF Bad = {} THEN "yes" ELSE "no"

Judge ==
  /\ pc = "judging"
  /\ flagged' = (flagged \ myCfg.fans) \cup Bad
  /\ effective' = Verdict
  /\ speeds' = NoSpeeds /\ rows' = {}
  /\ EndCycle
  /\ UNCHANGED <<bmcVars, fileVars, ctlVars, askVars, myCfg, myBmc, conn, demand, critical,
                 todo, raw, rel>>
-----------------------------------------------------------------------------
(***************************************************************************)
(* Reload, run by the SIGHUP goroutine or by the loop for its watcher.     *)
(***************************************************************************)
AtReload(p, step) == rel[p].pc = step

\* The watcher's reload holds the loop up; the other one does not.
BackFrom(p) == IF p = "watch" THEN pc' = "idle" ELSE UNCHANGED pc

\* config.Load, outside the lock.  Content it rejects changes nothing.
LoadFile(p) ==
  /\ AtReload(p, "off")
  /\ p = "watch" => pc = "idle"
  /\ pc # "down"
  /\ file # Invalid
  /\ rel' = [rel EXCEPT ![p].pc = "loaded", ![p].next = file]
  /\ IF p = "watch" THEN pc' = "reloading" ELSE UNCHANGED pc
  /\ UNCHANGED <<bmcVars, fileVars, ctlVars, askVars, myCfg, myBmc, conn, demand, critical,
                 todo, raw, viewVars>>

SameChecksum(p) ==
  /\ AtReload(p, "loaded") /\ cfg = rel[p].next
  /\ rel' = [rel EXCEPT ![p] = NoReload]
  /\ BackFrom(p)
  /\ UNCHANGED <<bmcVars, fileVars, ctlVars, askVars, myCfg, myBmc, conn, demand, critical,
                 todo, raw, viewVars>>

\* The client of the new config: the running one, or a new one for a new BMC.
ClientFor(next) ==
  IF next.ilo = cfg.ilo THEN bmc ELSE [ilo |-> next.ilo, gen |-> bmc.gen + 1]

\* Looks for them in the settled floors, which miss those of the first cycle.
FaultyDropped(next) == IF dryRun THEN {} ELSE Remembered(settled) \ next.fans

\* The fans with a floor that the new config does not have; none in a dry run.
Dropped(next) == IF dryRun THEN {} ELSE Remembered(applied) \ next.fans

\* The section under the lock.
SwapConfig(p) ==
  LET next == rel[p].next
  IN  /\ AtReload(p, "loaded") /\ cfg # next
      /\ cfg' = next
      /\ bmc' = ClientFor(next)
      /\ IF bmc' = bmc THEN UNCHANGED sessVars ELSE Close(bmc)
      /\ rel' = [rel EXCEPT ![p].pc = "winding", ![p].bmc = bmc',
                            ![p].todo = Dropped(next)]
      /\ UNCHANGED <<fanMin, spun, honours, faults, restarts, fileVars, applied, settled,
                     askVars, loopVars, viewVars>>

\* The floor is forgotten whether or not the command went through.
FaultyAfterWindDown(out) == "deleting"

AfterWindDown(out) == IF out = "ok" THEN "deleting" ELSE "winding"

\* One dropped fan is wound down to the new baseline, under a context of its own.
WindDown(p) ==
  /\ AtReload(p, "winding")
  /\ \E f \in rel[p].todo, out \in {"ok"} \cup {"unsent"} \cup FaultKinds :
       /\ Next1(f, rel[p].todo)
       /\ SetFanMin(rel[p].bmc, FALSE, f, PctToRaw(rel[p].next.min), out)
       /\ rel' = IF AfterWindDown(out) = "deleting" THEN [rel EXCEPT ![p].pc = "deleting"]
                 ELSE [rel EXCEPT ![p].todo = @ \ {f}]
  /\ UNCHANGED <<fileVars, ctlVars, askVars, loopVars, viewVars>>

\* Only applied is cleared; settled keeps the floor of the fan.
FaultyForget(floors, f) == floors

Forget(floors, f) == [floors EXCEPT ![f] = None]

ForgetFan(p) ==
  /\ AtReload(p, "deleting")
  /\ \E f \in rel[p].todo :
       /\ Next1(f, rel[p].todo)
       /\ applied' = [applied EXCEPT ![f] = None]
       /\ settled' = Forget(settled, f)
       /\ rel' = [rel EXCEPT ![p].pc = "winding", ![p].todo = @ \ {f}]
  /\ UNCHANGED <<bmcVars, fileVars, cfg, bmc, askVars, loopVars, viewVars>>

ReloadDone(p) ==
  /\ AtReload(p, "winding") /\ rel[p].todo = {}
  /\ rel' = [rel EXCEPT ![p] = NoReload]
  /\ BackFrom(p)
  /\ UNCHANGED <<bmcVars, fileVars, ctlVars, askVars, myCfg, myBmc, conn, demand, critical,
                 todo, raw, viewVars>>

ReloadStep(p) ==
  \/ SameChecksum(p) \/ SwapConfig(p) \/ WindDown(p) \/ ForgetFan(p) \/ ReloadDone(p)
-----------------------------------------------------------------------------
(***************************************************************************)
(* release, once the loop has seen the cancelled context.                  *)
(***************************************************************************)
\* Winds down the fans of the config, not the ones it remembers a floor of.
FaultyToRelease == Remembered(applied) \cap cfg.fans

ToRelease == Remembered(applied)

\* Nothing to do, or nothing to be written: only the session is closed.
ReleaseNothing ==
  /\ pc = "idle" /\ stopping
  /\ ToRelease = {} \/ dryRun
  /\ Close(bmc)
  /\ pc' = "stopped"
  /\ UNCHANGED <<fanMin, spun, honours, faults, restarts, fileVars, ctlVars, askVars,
                 myCfg, myBmc, conn, demand, critical, todo, raw, viewVars, rel>>

BeginRelease ==
  /\ pc = "idle" /\ stopping
  /\ ToRelease # {} /\ ~dryRun
  /\ todo' = ToRelease
  /\ myCfg' = cfg /\ myBmc' = bmc
  /\ pc' = "releasing"
  /\ UNCHANGED <<bmcVars, fileVars, ctlVars, askVars, conn, demand, critical, raw,
                 viewVars, rel>>

\* A failed fan is tried again.
FaultyReleasedTodo(f, out) == IF out = "ok" THEN todo \ {f} ELSE todo

\* A failure is logged and the next fan is tried.
ReleasedTodo(f, out) == todo \ {f}

ReleaseFan ==
  /\ pc = "releasing"
  /\ \E f \in todo, out \in {"ok"} \cup {"unsent"} \cup FaultKinds :
       /\ Next1(f, todo)
       /\ SetFanMin(myBmc, FALSE, f, PctToRaw(myCfg.min), out)
       /\ todo' = ReleasedTodo(f, out)
  /\ UNCHANGED <<fileVars, ctlVars, askVars, pc, myCfg, myBmc, conn, demand, critical, raw,
                 viewVars, rel>>

EndRelease ==
  /\ pc = "releasing" /\ todo = {}
  /\ Close(myBmc)
  /\ pc' = "stopped"
  /\ UNCHANGED <<fanMin, spun, honours, faults, restarts, fileVars, ctlVars, askVars,
                 myCfg, myBmc, conn, demand, critical, todo, raw, viewVars, rel>>
-----------------------------------------------------------------------------
(***************************************************************************)
(* What comes from outside.                                                *)
(***************************************************************************)
\* An interval passes while the loop waits: the ticker fires, and every floor
\* in force has had a full interval.
Interval ==
  /\ pc = "idle" /\ ~tick
  /\ tick' = TRUE /\ spun' = fanMin
  /\ UNCHANGED <<fanMin, honours, sessVars, faults, restarts, fileVars, ctlVars,
                 dryRun, kick, stopping, loopVars, viewVars, rel>>

EditFile ==
  /\ edits < MaxEdits /\ edits' = edits + 1
  /\ file' \in (Configs \cup {Invalid}) \ {file}
  /\ UNCHANGED <<bmcVars, crashes, ctlVars, askVars, loopVars, viewVars, rel>>

Trigger ==
  /\ Interactive /\ pc # "down" /\ ~kick /\ kick' = TRUE
  /\ UNCHANGED <<bmcVars, fileVars, ctlVars, dryRun, tick, stopping, loopVars, viewVars, rel>>

ToggleDryRun ==
  /\ Interactive /\ pc # "down" /\ dryRun' = ~dryRun
  /\ UNCHANGED <<bmcVars, fileVars, ctlVars, kick, tick, stopping, loopVars, viewVars, rel>>

Stop ==
  /\ MayStop /\ pc # "down" /\ ~stopping /\ stopping' = TRUE
  /\ UNCHANGED <<bmcVars, fileVars, ctlVars, dryRun, kick, tick, loopVars, viewVars, rel>>

LoseBmc ==
  /\ (\E h \in Host : BmcRestart(h)) \/ (\E c \in sess : HangUp(c))
  /\ UNCHANGED <<fileVars, ctlVars, askVars, loopVars, viewVars, rel>>

(***************************************************************************)
(* The process is killed: a crash, or systemd out of patience.  What it    *)
(* remembered is gone, the floors stay, and its sessions end with its      *)
(* sockets.  A command on the way is carried out (SendFloor before) or not.*)
(***************************************************************************)
Crash ==
  /\ crashes < MaxCrashes /\ crashes' = crashes + 1
  /\ pc \notin {"stopped", "down"}
  /\ pc' = IF stopping THEN "stopped" ELSE "down"
  /\ sess' = {} /\ dead' = {}
  /\ applied' = NoFloors /\ settled' = NoFloors
  /\ rel' = [p \in {"watch", "hup"} |-> NoReload]
  /\ kick' = FALSE /\ tick' = FALSE
  /\ conn' = "pending" /\ demand' = [f \in Fan |-> 0] /\ critical' = FALSE
  /\ todo' = {} /\ raw' = 0
  /\ speeds' = NoSpeeds /\ rows' = {} /\ flagged' = {} /\ effective' = "unknown"
  /\ UNCHANGED <<fanMin, spun, honours, faults, restarts, file, edits, cfg, bmc, dryRun,
                 stopping, myCfg, myBmc>>

\* Restart=always: main starts over, and again until the file is valid.
StartAgain ==
  /\ pc = "down" /\ file # Invalid
  /\ cfg' = file /\ bmc' = [ilo |-> file.ilo, gen |-> bmc.gen + 1]
  /\ myCfg' = cfg' /\ myBmc' = bmc'
  /\ pc' = "start"
  /\ UNCHANGED <<bmcVars, fileVars, applied, settled, askVars, conn, demand, critical, todo,
                 raw, viewVars, rel>>
-----------------------------------------------------------------------------
Cycle ==
  \/ BeginCycle \/ ConnectDone \/ SenseAndDecide \/ JoinConnect
  \/ ChooseFloor \/ SendFloor \/ RecordFloor \/ ReadBack \/ FanRows \/ Judge

Release == ReleaseNothing \/ BeginRelease \/ ReleaseFan \/ EndRelease

Environment ==
  \/ Interval \/ EditFile \/ Trigger \/ ToggleDryRun \/ Stop \/ LoseBmc
  \/ Crash \/ StartAgain

Next ==
  \/ Cycle
  \/ \E p \in Reloaders : LoadFile(p) \/ ReloadStep(p)
  \/ Release
  \/ Environment

Spec == Init /\ [][Next]_vars

(***************************************************************************)
(* Fairness: a goroutine that can run does.  The ticker fires whatever the *)
(* loop is doing, and select takes a ready case at random, so none of the  *)
(* tick, the poll of the file and the cancelled context is passed over for *)
(* ever, although each is ready only while the loop waits: strong fairness.*)
(* That ConnectDone comes assumes that the BMC answers a handshake it has  *)
(* taken the connection for, which the code does not bound.                *)
(***************************************************************************)
Fairness ==
  /\ WF_vars(Cycle) /\ SF_vars(BeginCycle) /\ SF_vars(Interval)
  /\ \A p \in Reloaders : WF_vars(ReloadStep(p))
  /\ "watch" \in Reloaders => SF_vars(LoadFile("watch"))
  /\ SF_vars(ReleaseNothing \/ BeginRelease) /\ WF_vars(ReleaseFan \/ EndRelease)
  /\ WF_vars(StartAgain)

FairSpec == Spec /\ Fairness
-----------------------------------------------------------------------------
(***************************************************************************)
(* Properties.                                                             *)
(***************************************************************************)
\* apply has gone over every fan and no command failed: a failure closes the
\* session, and only the next cycle opens it again.
WritesDone == pc = "writing" /\ todo = {} /\ myBmc \in sess /\ ~dryRun

FloorOn(f) == fanMin[myBmc.ilo][f]

(***************************************************************************)
(* After a cycle whose writes all went through, every fan of its config    *)
(* has a floor on the BMC at least as high as the curves demand: neither   *)
(* hysteresis, the ramp limit, the skipped re-write of a value the BMC has *)
(* already, nor an earlier failed write leaves a fan below its demand.     *)
(* Fans that a reload is winding down, or has dropped, are its business.   *)
(***************************************************************************)
FloorsMeetDemand ==
  WritesDone =>
    \A f \in myCfg.fans \cap cfg.fans :
      FloorOn(f) # None /\ FloorOn(f) >= PctToRaw(demand[f])

(***************************************************************************)
(* A critical reading takes every fan of the config to exactly the maximum *)
(* floor in that same cycle, whatever zone the sensor covers and however   *)
(* far the floor was from it.                                              *)
(***************************************************************************)
CriticalReachesEveryFan ==
  WritesDone /\ critical =>
    \A f \in myCfg.fans \cap cfg.fans : FloorOn(f) = PctToRaw(myCfg.max)

(***************************************************************************)
(* Floors fall slowly: a cycle lowers a remembered floor by no more than   *)
(* the ramp limit and the half step lost in rounding, unless the floor was *)
(* above the maximum of the config in force.                               *)
(***************************************************************************)
FloorsFallSlowly ==
  [][\A f \in Fan :
       applied[f] # None /\ applied'[f] # None /\ applied'[f] < applied[f] =>
         \/ applied[f] > RawToPct(PctToRaw(myCfg.max))
         \/ myCfg.ramp <= 0
         \/ applied[f] - applied'[f] <= myCfg.ramp + RawStep \div 2]_vars

\* A raw value is within the limits of a config.
WithinLimits(c, r) == r \in PctToRaw(c.min)..PctToRaw(c.max)

(***************************************************************************)
(* Every floor a BMC holds is within the limits of a configuration that    *)
(* names this BMC: a reload arriving at any point never sends the floors   *)
(* of one configuration through the session of another, nor a value below  *)
(* its baseline or above its maximum.                                      *)
(***************************************************************************)
FloorsWithinOwnLimits ==
  \A h \in Host, f \in Fan :
    fanMin[h][f] # None =>
      \E c \in Configs : c.ilo = h /\ WithinLimits(c, fanMin[h][f])

\* A command for fan f is out, or its record is still to be made.
InFlight(f) == pc \in {"sending", "recording"} /\ f \in todo

(***************************************************************************)
(* What the tool will never do: "Command a fan that is not in the config"  *)
(* (README.md:238), but for winding it down when it is taken out.  Reloads *)
(* of the watcher keep to it; a cycle that one by SIGHUP overtakes goes on *)
(* with the fans it captured.  A floor that a reset of the BMC clears, so  *)
(* that it is None, was no command.                                        *)
(***************************************************************************)
OnlyConfiguredFansAreCommanded ==
  [][\A f \in Fan : fanMin'[bmc.ilo][f] \notin {None, fanMin[bmc.ilo][f]} =>
       f \in cfg.fans \/ fanMin'[bmc.ilo][f] = PctToRaw(cfg.min)]_vars

(***************************************************************************)
(* No floor is forgotten: a fan the running BMC holds above every baseline *)
(* is one the controller remembers, so a later cycle, a reload that drops  *)
(* the fan, or release can still lower it.                                 *)
(***************************************************************************)
RaisedFloorsAreRemembered ==
  \A f \in Fan :
    fanMin[bmc.ilo][f] # None /\ (\A c \in Configs : fanMin[bmc.ilo][f] > PctToRaw(c.min)) =>
      applied[f] # None \/ InFlight(f)

(***************************************************************************)
(* A fan is judged only against a floor the controller still answers for:  *)
(* a settled floor never outlives the applied one, although reloads delete *)
(* both between any two steps of a cycle.                                  *)
(***************************************************************************)
SettledFansAreRemembered == Remembered(settled) \subseteq Remembered(applied)

(***************************************************************************)
(* Shutdown: when release has gone over its fans and no command of it has  *)
(* failed, no fan of the BMC is left above the baseline of a config.       *)
(***************************************************************************)
ReleasedFansAreAtBaseline ==
  pc = "releasing" /\ todo = {} /\ myBmc \in sess =>
    \A f \in Fan : FloorOn(f) # None => \E c \in Configs : FloorOn(f) <= PctToRaw(c.min)

(***************************************************************************)
(* No false alarm: a fan is called unhonoured only after the BMC was reset *)
(* or lost its patch.  A fan that is still spooling up, one just lowered,  *)
(* one missing from a reply and one never written are not flagged.         *)
(***************************************************************************)
NoFalseAlarm == flagged # {} => restarts > 0

(***************************************************************************)
(* Verify "judges every configured fan and records the verdict on the fan, *)
(* in the same pass that decides Effective, so the two can never be seen   *)
(* apart" (controller.go:333-336).  They are two passes, but every fan the *)
(* verdict counts has a red row, and a red row the verdict does not count  *)
(* is one of a fan that a reload has wound down and forgotten in between.  *)
(***************************************************************************)
RowsAndVerdictAgree ==
  pc = "judging" => Bad \subseteq rows /\ \A f \in rows \ Bad : applied[f] = None

(***************************************************************************)
(* A reverted patch surfaces: once no BMC honours the fan command, control *)
(* is reported as not effective, or as unknown while nothing can be        *)
(* judged, and never again as effective, as long as replies keep coming    *)
(* and the BMC's own curve does not run the fans at their floors anyway.   *)
(***************************************************************************)
RevertedPatchSurfaces ==
  []<>(pc = "judging") => (honours = {} ~> [](effective # "yes"))

(***************************************************************************)
(* A dry run that is never switched off writes nothing at all: no cycle,   *)
(* no reload that drops fans and no shutdown touches a floor.              *)
(***************************************************************************)
DryRunWritesNothing ==
  []dryRun => [](\A h \in Host, f \in Fan : fanMin[h][f] = None)

\* The controller runs on: not in a dry run, and not down for good.
Controlling == <>[]~dryRun /\ []<>(pc \notin {"stopped", "down"})

(***************************************************************************)
(* Convergence: once the demand stands still, every fan of the running     *)
(* config ends up with a floor at least as high, whatever commands,        *)
(* handshakes and reloads failed or overtook each other before.            *)
(***************************************************************************)
FloorsEventuallyMeetDemand ==
  <>[][UNCHANGED demand]_vars /\ Controlling =>
    <>[](\A f \in cfg.fans : /\ fanMin[bmc.ilo][f] # None
                              /\ fanMin[bmc.ilo][f] >= PctToRaw(demand[f]))

(***************************************************************************)
(* ... and one that is not left high: it comes down to within the          *)
(* hysteresis of the demand, or to the PWM step of the demand.             *)
(***************************************************************************)
FloorsEventuallyComeDown ==
  <>[][UNCHANGED demand]_vars /\ Controlling =>
    <>[](\A f \in cfg.fans :
           \/ fanMin[bmc.ilo][f] = PctToRaw(demand[f])
           \/ /\ fanMin[bmc.ilo][f] # None
              /\ RawToPct(fanMin[bmc.ilo][f]) < demand[f] + cfg.hyst)

(***************************************************************************)
(* A fan removed from the config is in the end wound down and forgotten,   *)
(* as long as no command fails: a wind-down that failed is not tried again *)
(* until the loop ends or another edit comes.                              *)
(***************************************************************************)
DroppedFansAreForgotten ==
  [](faults = 0) /\ <>[]~dryRun => <>[](Remembered(applied) \subseteq cfg.fans)

(***************************************************************************)
(* A cancelled context ends the loop, whatever the BMC does in release.    *)
(***************************************************************************)
StopStops == stopping ~> pc = "stopped"

(***************************************************************************)
(* "On SIGTERM the daemon winds every fan it manages back down to          *)
(* min_floor_pct" (README.md:115).  The code does not do so in every case: *)
(* a stop in the middle of a cycle closes the session that release needs.  *)
(***************************************************************************)
StopWindsDown ==
  pc = "stopped" /\ ~dryRun =>
    \A f \in Remembered(applied) : fanMin[bmc.ilo][f] = PctToRaw(cfg.min)
=============================================================================
