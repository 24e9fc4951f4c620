--------------------------- MODULE ProcessProofs ---------------------------
(***************************************************************************)
(* Theorems about Process, for any set of daemons, displays and viewers    *)
(* and any number of kills.                                                *)
(***************************************************************************)
EXTENDS Process, TLAPS

\* What the actions are made of.
USE DEF Goes, Loop, Freed, Alive

LEMMA TypeInit == Init => ProcessTypeOK
<1> SUFFICES ASSUME Init PROVE ProcessTypeOK
  OBVIOUS
<1>1. \A p \in Proc : phase[p] = "off" /\ loop[p] = "none"
  BY DEF Init
<1>2. /\ phase \in [Proc -> {"off", "controlling", "attached", "leaving", "closing"}]
      /\ loop \in [Proc -> Loops]
  BY DEF Init, Loops
<1>3. abandoned \in BOOLEAN /\ raised \in BOOLEAN
  BY DEF Init
<1>4. kills \in 0..MaxKills
  BY ProcessAssumption DEF Init
<1> QED
  BY <1>1, <1>2, <1>3, <1>4 DEF Init, ProcessTypeOK

LEMMA TypeMain ==
  ASSUME NEW p \in Proc, ProcessTypeOK, Main(p)
  PROVE  ProcessTypeOK'
<1>1. CASE StartDisplay(p)
  BY <1>1, ProcessAssumption DEF StartDisplay, Takes, ProcessTypeOK, Loops, Proc
<1>2. CASE StartDaemon(p)
  BY <1>2, ProcessAssumption DEF StartDaemon, ProcessTypeOK, Loops, Proc
<1>3. CASE Listen(p)
  BY <1>3 DEF Listen, ProcessTypeOK, Loops, Proc
<1>4. CASE Quit(p) \/ Detach(p)
  BY <1>4 DEF Quit, Detach, ProcessTypeOK, Loops
<1>5. CASE CloseListener(p) \/ GiveUp(p)
  BY <1>5 DEF CloseListener, LoopAwaited, GiveUp, PatienceEnds, ProcessTypeOK, Loops
<1>6. CASE Exit(p) \/ Kill(p)
  <2>1. phase' = [phase EXCEPT ![p] = "off"] /\ loop' = [loop EXCEPT ![p] = "none"]
    BY <1>6 DEF Exit, Kill
  <2>2. listening' \subseteq Daemon /\ holder' \in Proc \cup {None} /\ gaveUp' \subseteq Tui
    BY <1>6 DEF Exit, Kill, ProcessTypeOK
  <2>3. abandoned' \in BOOLEAN /\ raised' \in BOOLEAN /\ wrote' \subseteq Proc
    BY <1>6 DEF Exit, Kill, ProcessTypeOK
  <2>4. kills' \in 0..MaxKills
    BY <1>6, ProcessAssumption DEF Exit, Kill, ProcessTypeOK
  <2> QED BY <2>1, <2>2, <2>3, <2>4 DEF ProcessTypeOK, Loops
<1> QED
  BY <1>1, <1>2, <1>3, <1>4, <1>5, <1>6 DEF Main

LEMMA TypeLoop ==
  ASSUME NEW p \in Proc, ProcessTypeOK, ControlLoop(p)
  PROVE  ProcessTypeOK'
BY DEF ControlLoop, WriteFloors, BeginRelease, Release, ProcessTypeOK, Loops

(***************************************************************************)
(* Type correctness, with it that a process without a loop of its own, a   *)
(* viewer's or one that is attached or over, never comes to have one.      *)
(***************************************************************************)
THEOREM TypesHold == Spec => []ProcessTypeOK
<1>1. ProcessTypeOK /\ [Next]_vars => ProcessTypeOK'
  <2>1. ProcessTypeOK /\ UNCHANGED vars => ProcessTypeOK'
    BY DEF vars, ProcessTypeOK
  <2> QED BY <2>1, TypeMain, TypeLoop DEF Next
<1> QED
  BY TypeInit, <1>1, PTL DEF Spec
-----------------------------------------------------------------------------
\* A display whose loop can write, and that still waits for it, has the address.
SocketHeld == \A t \in Tui : Alive(t) /\ t \notin gaveUp => holder = t

LEMMA HeldByMain ==
  ASSUME NEW p \in Proc, ProcessTypeOK, SocketHeld, Main(p)
  PROVE  SocketHeld'
<1>1. CASE StartDisplay(p)
  BY <1>1, ProcessAssumption DEF StartDisplay, Takes, SocketHeld, ProcessTypeOK, Proc
<1>2. CASE StartDaemon(p)
  BY <1>2, ProcessAssumption DEF StartDaemon, SocketHeld, ProcessTypeOK
<1>3. CASE Listen(p)
  BY <1>3, ProcessAssumption DEF Listen, SocketHeld, Proc
<1>4. CASE Quit(p) \/ Detach(p)
  BY <1>4 DEF Quit, Detach, SocketHeld
<1>5. CASE CloseListener(p)
  BY <1>5 DEF CloseListener, LoopAwaited, SocketHeld
<1>6. CASE GiveUp(p)
  BY <1>6 DEF GiveUp, SocketHeld
<1>7. CASE Exit(p) \/ Kill(p)
  BY <1>7 DEF Exit, Kill, SocketHeld, ProcessTypeOK, Proc
<1> QED
  BY <1>1, <1>2, <1>3, <1>4, <1>5, <1>6, <1>7 DEF Main

\* A loop that can write could before.
LEMMA HeldByLoop ==
  ASSUME NEW p \in Proc, ProcessTypeOK, SocketHeld, ControlLoop(p)
  PROVE  SocketHeld'
BY DEF ControlLoop, WriteFloors, BeginRelease, Release, SocketHeld, ProcessTypeOK, Proc

\* The socket tells any two of them apart.
LEMMA SocketIsExclusion == ProcessTypeOK /\ SocketHeld => OneWriter
<1> SUFFICES ASSUME ProcessTypeOK, SocketHeld,
                    NEW p \in Proc, NEW q \in Proc, Alive(p), Alive(q), p # q
             PROVE  \E r \in {p, q} : Deaf(r) \/ r \in gaveUp
  BY DEF OneWriter
<1>1. \A r \in {p, q} : r \in Daemon \cup Tui
  BY DEF ProcessTypeOK, Proc
<1>2. \A r \in {p, q} : Deaf(r) \/ r \in gaveUp \/ holder = r
  BY <1>1 DEF Deaf, SocketHeld
<1> QED
  BY <1>2

(***************************************************************************)
(* The listen address is the mutual exclusion between displays and the     *)
(* daemon that has it, however many are started, left and killed; a second *)
(* writer is a daemon that has not got it, or a display whose 45 seconds   *)
(* have run out.                                                           *)
(***************************************************************************)
THEOREM OneWriterAtATime == Spec => []OneWriter
<1>1. Init => SocketHeld
  BY DEF Init, SocketHeld, Proc
<1>2. ProcessTypeOK /\ SocketHeld /\ [Next]_vars => SocketHeld'
  <2>1. SocketHeld /\ UNCHANGED vars => SocketHeld'
    BY DEF vars, SocketHeld
  <2> QED BY <2>1, HeldByMain, HeldByLoop DEF Next
<1> QED
  BY <1>1, <1>2, TypesHold, SocketIsExclusion, PTL DEF Spec
-----------------------------------------------------------------------------
\* A process that ends while its loop can write has given up on it; and if a fan is
\* above the baseline, a loop that wrote floors is there to wind it down.
Accounted ==
  /\ \A p \in Proc : phase[p] = "closing" /\ Alive(p) => p \in gaveUp
  /\ raised /\ ~abandoned => \E p \in wrote : Alive(p)

LEMMA AccountedByMain ==
  ASSUME NEW p \in Proc, ProcessTypeOK, Accounted, Main(p)
  PROVE  Accounted'
<1>1. CASE StartDisplay(p)
  BY <1>1 DEF StartDisplay, Accounted, ProcessTypeOK
<1>2. CASE StartDaemon(p)
  BY <1>2 DEF StartDaemon, Accounted, ProcessTypeOK
<1>3. CASE Listen(p)
  BY <1>3 DEF Listen, Accounted
<1>4. CASE Quit(p) \/ Detach(p)
  BY <1>4 DEF Quit, Detach, Accounted, ProcessTypeOK
<1>5. CASE CloseListener(p)
  BY <1>5 DEF CloseListener, LoopAwaited, Accounted, ProcessTypeOK
<1>6. CASE GiveUp(p)
  BY <1>6 DEF GiveUp, Accounted, ProcessTypeOK
<1>7. CASE Exit(p) \/ Kill(p)
  <2>1. /\ phase' = [phase EXCEPT ![p] = "off"] /\ loop' = [loop EXCEPT ![p] = "none"]
        /\ gaveUp' = gaveUp \ {p} /\ wrote' = wrote \ {p} /\ raised' = raised
        /\ Alive(p) => abandoned'
        /\ abandoned => abandoned'
    BY <1>7 DEF Exit, Kill, Accounted
  <2> QED BY <2>1 DEF Accounted, ProcessTypeOK
<1> QED
  BY <1>1, <1>2, <1>3, <1>4, <1>5, <1>6, <1>7 DEF Main

LEMMA AccountedByLoop ==
  ASSUME NEW p \in Proc, ProcessTypeOK, Accounted, ControlLoop(p)
  PROVE  Accounted'
<1>1. CASE WriteFloors(p)
  BY <1>1 DEF WriteFloors, Accounted
<1>2. CASE BeginRelease(p)
  BY <1>2 DEF BeginRelease, Accounted, ProcessTypeOK
<1>3. CASE Release(p)
  BY <1>3 DEF Release, Accounted, ProcessTypeOK
<1> QED
  BY <1>1, <1>2, <1>3 DEF ControlLoop

(***************************************************************************)
(* Quitting leaves no raised floor, however many processes wrote floors    *)
(* and in whatever order they leave, unless a loop was killed or left to   *)
(* itself.                                                                 *)
(***************************************************************************)
THEOREM QuitsAtBaseline == Spec => []LeftAtBaseline
<1>1. Init => Accounted
  BY DEF Init, Accounted
<1>2. ProcessTypeOK /\ Accounted /\ [Next]_vars => Accounted'
  <2>1. Accounted /\ UNCHANGED vars => Accounted'
    BY DEF vars, Accounted
  <2> QED BY <2>1, AccountedByMain, AccountedByLoop DEF Next
<1>3. ProcessTypeOK /\ Accounted => LeftAtBaseline
  BY DEF ProcessTypeOK, Accounted, LeftAtBaseline
<1> QED
  BY <1>1, <1>2, <1>3, TypesHold, PTL DEF Spec
=============================================================================
