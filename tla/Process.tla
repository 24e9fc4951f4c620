------------------------------ MODULE Process ------------------------------
(***************************************************************************)
(* cmd/ilo-fanctl: processes on one machine that may drive the same BMC,   *)
(* from start to exit.  The display takes the control loop if it can bind  *)
(* the listen address and attaches read only if it cannot; the daemon      *)
(* controls either way.  Whoever leaves has its loop wind the fans down,   *)
(* the display for no longer than 45 seconds.                              *)
(*                                                                         *)
(* Abstracted: the control loop (module Controller), of which only writing *)
(* floors and release are left, and time: the wait may run out at any      *)
(* moment, and the loop may be stuck for ever, as it is in a handshake     *)
(* that the BMC does not answer.  All processes have the same config.      *)
(***************************************************************************)
EXTENDS Naturals

CONSTANTS
  Daemon,       \* processes run without a display
  Tui,          \* ilo-fanctl tui
  Viewer,       \* ilo-fanctl tui -view
  MaxKills,     \* bound: SIGKILLs, systemd's included
  None

Proc == Daemon \cup Tui \cup Viewer

ASSUME ProcessAssumption ==
  /\ Daemon \cap Tui = {} /\ Daemon \cap Viewer = {} /\ Tui \cap Viewer = {}
  /\ None \notin Proc /\ MaxKills \in Nat

VARIABLES
  phase,        \* where main is
  loop,         \* the control loop, which ends with its process
  listening,    \* the goroutine that binds for the daemon has yet to do so
  holder,       \* the process that has the listen address bound
  gaveUp,       \* displays whose wait ran out
  abandoned,    \* history: a loop was killed, or ended with a display that gave up on it
  kills,
  raised,       \* some fan has a floor above the baseline
  wrote         \* processes whose loop has written floors, which is what applied holds

vars == <<phase, loop, listening, holder, gaveUp, abandoned, kills, raised, wrote>>

Loops == {"none", "running", "releasing", "ended"}

ProcessTypeOK ==
  /\ phase \in [Proc -> {"off", "controlling", "attached", "leaving", "closing"}]
  /\ loop \in [Proc -> Loops]
  /\ \A p \in Proc : (p \in Viewer \/ phase[p] \in {"off", "attached"}) => loop[p] = "none"
  /\ listening \subseteq Daemon /\ holder \in Proc \cup {None}
  /\ gaveUp \subseteq Tui /\ abandoned \in BOOLEAN /\ kills \in 0..MaxKills
  /\ raised \in BOOLEAN /\ wrote \subseteq Proc

Init ==
  /\ phase = [p \in Proc |-> "off"] /\ loop = [p \in Proc |-> "none"]
  /\ listening = {} /\ holder = None
  /\ gaveUp = {} /\ abandoned = FALSE /\ kills = 0 /\ raised = FALSE /\ wrote = {}

Goes(p, to) == phase' = [phase EXCEPT ![p] = to]
Loop(p, to) == loop' = [loop EXCEPT ![p] = to]
Freed(p) == IF holder = p THEN None ELSE holder

Alive(p) == loop[p] \in {"running", "releasing"}
-----------------------------------------------------------------------------
\* The address is tried although -view was given.
FaultyTakes(p) == holder = None

\* net.Listen succeeds: the address is free, and -view has not forbidden to try.
Takes(p) == p \notin Viewer /\ holder = None

\* runTUI, up to the display's own loop.
StartDisplay(p) ==
  /\ p \in Tui \cup Viewer /\ phase[p] = "off"
  /\ IF Takes(p)
     THEN Goes(p, "controlling") /\ Loop(p, "running") /\ holder' = p
     ELSE Goes(p, "attached") /\ UNCHANGED <<loop, holder>>
  /\ UNCHANGED <<listening, gaveUp, abandoned, kills, raised, wrote>>

\* runDaemon: ctrl.Run, with ListenAndServe beside it.
StartDaemon(p) ==
  /\ p \in Daemon /\ phase[p] = "off"
  /\ Goes(p, "controlling") /\ Loop(p, "running")
  /\ listening' = listening \cup {p}
  /\ UNCHANGED <<holder, gaveUp, abandoned, kills, raised, wrote>>

\* An address that is taken is logged: "not a reason to stop cooling".
Listen(p) ==
  /\ p \in listening
  /\ listening' = listening \ {p}
  /\ holder' = IF holder = None THEN p ELSE holder
  /\ UNCHANGED <<phase, loop, gaveUp, abandoned, kills, raised, wrote>>
-----------------------------------------------------------------------------
\* A cycle of the loop.
WriteFloors(p) ==
  /\ loop[p] = "running"
  /\ raised' \in BOOLEAN /\ wrote' = wrote \cup {p}
  /\ UNCHANGED <<phase, loop, listening, holder, gaveUp, abandoned, kills>>

\* SIGINT or SIGTERM, and q: the context of the loop is cancelled.
Quit(p) ==
  /\ phase[p] = "controlling" /\ Goes(p, "leaving")
  /\ UNCHANGED <<loop, listening, holder, gaveUp, abandoned, kills, raised, wrote>>

BeginRelease(p) ==
  /\ phase[p] \in {"leaving", "closing"} /\ loop[p] = "running" /\ Loop(p, "releasing")
  /\ UNCHANGED <<phase, listening, holder, gaveUp, abandoned, kills, raised, wrote>>

\* release, no command of it failing: the fans that the loop wrote go to the baseline.
Release(p) ==
  /\ loop[p] = "releasing" /\ Loop(p, "ended")
  /\ raised' = (raised /\ p \notin wrote)
  /\ UNCHANGED <<phase, listening, holder, gaveUp, abandoned, kills, wrote>>

\* The address is given up as soon as the display is left.
FaultyLoopAwaited(p) == TRUE

LoopAwaited(p) == loop[p] = "ended"

\* Run has returned, or done is closed: srv.Shutdown closes the listener.
CloseListener(p) ==
  /\ phase[p] = "leaving" /\ LoopAwaited(p)
  /\ Goes(p, "closing") /\ holder' = Freed(p)
  /\ UNCHANGED <<loop, listening, gaveUp, abandoned, kills, raised, wrote>>

\* The display waits for as long as it takes.
FaultyPatienceEnds(p) == FALSE

PatienceEnds(p) == p \in Tui

\* 45 seconds are over and the loop is not.
GiveUp(p) ==
  /\ phase[p] = "leaving" /\ Alive(p) /\ PatienceEnds(p)
  /\ gaveUp' = gaveUp \cup {p}
  /\ Goes(p, "closing") /\ holder' = Freed(p)
  /\ UNCHANGED <<loop, listening, abandoned, kills, raised, wrote>>

\* Shutdown is over, within 5 seconds, and main returns.
Exit(p) ==
  /\ phase[p] = "closing"
  /\ Goes(p, "off") /\ Loop(p, "none")
  /\ listening' = listening \ {p} /\ holder' = Freed(p)
  /\ gaveUp' = gaveUp \ {p} /\ abandoned' = (abandoned \/ (p \in gaveUp /\ Alive(p)))
  /\ wrote' = wrote \ {p} /\ UNCHANGED <<kills, raised>>

Detach(p) ==
  /\ phase[p] = "attached" /\ Goes(p, "off")
  /\ UNCHANGED <<loop, listening, holder, gaveUp, abandoned, kills, raised, wrote>>

Kill(p) ==
  /\ phase[p] # "off" /\ kills < MaxKills /\ kills' = kills + 1
  /\ Goes(p, "off") /\ Loop(p, "none")
  /\ listening' = listening \ {p} /\ holder' = Freed(p)
  /\ gaveUp' = gaveUp \ {p} /\ abandoned' = (abandoned \/ Alive(p))
  /\ wrote' = wrote \ {p} /\ UNCHANGED raised

Main(p) ==
  \/ StartDisplay(p) \/ StartDaemon(p) \/ Listen(p)
  \/ Quit(p) \/ CloseListener(p) \/ GiveUp(p) \/ Exit(p) \/ Detach(p) \/ Kill(p)

ControlLoop(p) == WriteFloors(p) \/ BeginRelease(p) \/ Release(p)

Next == \E p \in Proc : Main(p) \/ ControlLoop(p)

Spec == Init /\ [][Next]_vars

\* The Go runtime runs main and fires its timers; of the loop nothing is promised.
FairSpec == Spec /\ \A p \in Proc : WF_vars(CloseListener(p) \/ GiveUp(p) \/ Exit(p))
-----------------------------------------------------------------------------
(***************************************************************************)
(* "The listen socket is the mutual exclusion" (README.md:206): of two     *)
(* processes whose loops can write to the BMC, one is a daemon that has    *)
(* not got the address, or a display that stopped waiting for its loop and *)
(* is about to end.  The README knows of no exception: "two writers can    *)
(* never end up fighting over the same BMC" (lines 206-207).               *)
(***************************************************************************)
Deaf(p) == p \in Daemon /\ holder # p

OneWriter ==
  \A p, q \in Proc :
    Alive(p) /\ Alive(q) /\ p # q =>
      \E r \in {p, q} : Deaf(r) \/ r \in gaveUp

(***************************************************************************)
(* "Quitting with q winds the fans down to min_floor_pct exactly as a      *)
(* SIGTERM would" (README.md:215-216): with no loop left, and none that    *)
(* was abandoned, no fan is above the baseline, whoever raised it.         *)
(***************************************************************************)
LeftAtBaseline ==
  ~abandoned /\ (\A p \in Proc : loop[p] = "none") => ~raised

(***************************************************************************)
(* A display that is quit ends, and gives the address back, although its   *)
(* loop may be stuck in a call to the BMC for ever.                        *)
(***************************************************************************)
QuittingEnds ==
  \A p \in Tui : phase[p] = "leaving" ~> phase[p] = "off" /\ holder # p
=============================================================================
