-------------------------------- MODULE Bmc --------------------------------
(***************************************************************************)
(* What the controller sees of a BMC: the interface bmcClient, and behind  *)
(* it the fans.  A client is one ilo.Client, [ilo, gen]: gen tells the     *)
(* clients a reload built apart.  A client in sess holds a session, which  *)
(* the BMC may have dropped without the client knowing (dead).  An         *)
(* operation is one step here because the client's mutex covers it from    *)
(* start to end; module IloSession has the steps, and implements these.    *)
(*                                                                         *)
(* The BMC itself is external.  It takes a floor in silence whether or not *)
(* the ilo4_unlock patch still honours it, reports whole percents, runs a  *)
(* fan as far above its floor as its own curve wants, and shows a raised   *)
(* floor only after a full interval, a lowered one at once.                *)
(***************************************************************************)
EXTENDS Config

CONSTANTS
  Host,         \* the BMCs
  Fan,          \* all fan indexes, of every BMC
  None,         \* no floor, no reading
  Speeds,       \* percents the BMC's own curve may ask for
  FaultKinds,   \* how a command can fail: "unsent", "unanswered" (see Run)
  MaxFaults,    \* bound: failed handshakes and commands, and dropped sessions
  MaxRestarts   \* bound: BMC resets and firmware upgrades

VARIABLES
  fanMin,       \* fanMin[h][f]: the floor in force on BMC h, a raw PWM value
  spun,         \* fanMin as it was when the last full interval ended
  honours,      \* the BMCs whose patch still honours the fan command
  sess,         \* the clients that hold a session
  dead,         \* those of them whose session the BMC has dropped
  faults, restarts

sessVars == <<sess, dead>>
bmcVars == <<fanMin, spun, honours, sess, dead, faults, restarts>>

ASSUME BmcAssumption ==
  /\ Fan \subseteq Nat
  /\ None \notin Int
  /\ Speeds \subseteq 0..100
  /\ FaultKinds # {} /\ FaultKinds \subseteq {"unsent", "unanswered"}
  /\ MaxFaults \in Nat /\ MaxRestarts \in Nat

Client == [ilo : Host, gen : Nat]

BmcTypeOK ==
  /\ fanMin \in [Host -> [Fan -> 0..RawMax \cup {None}]]
  /\ spun \in [Host -> [Fan -> 0..RawMax \cup {None}]]
  /\ honours \subseteq Host
  /\ sess \subseteq Client /\ dead \subseteq sess
  /\ faults \in 0..MaxFaults /\ restarts \in 0..MaxRestarts

BmcInit ==
  /\ fanMin = [h \in Host |-> [f \in Fan |-> None]]
  /\ spun = fanMin
  /\ honours = Host
  /\ sess = {} /\ dead = {}
  /\ faults = 0 /\ restarts = 0
-----------------------------------------------------------------------------
\* A fault the environment brings, within its bound; a cancelled context is free.
Fails(cancelled) ==
  \/ cancelled /\ UNCHANGED faults
  \/ faults < MaxFaults /\ faults' = faults + 1

\* Client.Connect: a no-op on a session the client holds, be it dead or not.
Connect(c, cancelled, ok) ==
  /\ UNCHANGED dead
  /\ \/ /\ ok /\ c \in sess
        /\ UNCHANGED <<sess, faults>>
     \/ /\ ok /\ c \notin sess /\ ~cancelled
        /\ sess' = sess \cup {c} /\ UNCHANGED faults
     \/ /\ ~ok /\ c \notin sess /\ Fails(cancelled)
        /\ UNCHANGED sess

\* Client.Close.
Close(c) == sess' = sess \ {c} /\ dead' = dead \ {c}

\* A failed command leaves its session in place.
FaultyAfterFailure(c) == UNCHANGED sessVars

\* "Every failure here tears the session down, and that is the whole recovery."
AfterFailure(c) == Close(c)

(***************************************************************************)
(* Client.run: an error without a session; an answer on a live one; or a   *)
(* failure, which on a dead one is certain.  A failed command has reached  *)
(* the BMC ("unanswered": the prompt never came back) or not ("unsent").   *)
(***************************************************************************)
Run(c, cancelled, out) ==
  \/ out = "unsent" /\ c \notin sess /\ UNCHANGED <<sessVars, faults>>
  \/ out = "ok" /\ c \in sess \ dead /\ ~cancelled /\ UNCHANGED <<sessVars, faults>>
  \/ out = "unsent" /\ c \in dead /\ AfterFailure(c) /\ UNCHANGED faults
  \/ out \in FaultKinds /\ c \in sess \ dead /\ Fails(cancelled) /\ AfterFailure(c)

SetFanMin(c, cancelled, f, raw, out) ==
  /\ Run(c, cancelled, out)
  /\ fanMin' = IF out # "unsent" /\ c.ilo \in honours
               THEN [fanMin EXCEPT ![c.ilo][f] = raw] ELSE fanMin
  /\ UNCHANGED <<spun, honours, restarts>>

\* The floor a fan shows, in whole percent.
ShownFloor(h, f) ==
  IF fanMin[h][f] = None \/ spun[h][f] = None THEN 0
  ELSE LET raw == IF fanMin[h][f] < spun[h][f] THEN fanMin[h][f] ELSE spun[h][f]
       IN  RawToPct(raw) \div Pct(1)

\* What the BMC may report of a fan; None when the reply leaves it out.
Seen(h, f) ==
  {None, ShownFloor(h, f)} \cup {p \in Speeds : p > ShownFloor(h, f)}

Reports(h) == {s \in [Fan -> UNION {Seen(h, f) : f \in Fan}] : \A f \in Fan : s[f] \in Seen(h, f)}

\* Client.FanSpeeds: a reply with no fan in it is an error.
FanSpeeds(c, cancelled, speeds, out) ==
  /\ Run(c, cancelled, out)
  /\ out = "ok" => speeds \in Reports(c.ilo)
  /\ UNCHANGED <<fanMin, spun, honours, restarts>>

-----------------------------------------------------------------------------
\* A reset of a BMC clears its floors and kills its sessions; a firmware
\* upgrade also reverts the patch.
BmcRestart(h) ==
  /\ restarts < MaxRestarts /\ restarts' = restarts + 1
  /\ fanMin' = [fanMin EXCEPT ![h] = [f \in Fan |-> None]]
  /\ spun' = [spun EXCEPT ![h] = [f \in Fan |-> None]]
  /\ honours' \in {honours, honours \ {h}}
  /\ dead' = dead \cup {c \in sess : c.ilo = h}
  /\ UNCHANGED <<sess, faults>>

\* A BMC drops a session it takes for idle, or the network does.
HangUp(c) ==
  /\ c \in sess \ dead
  /\ faults < MaxFaults /\ faults' = faults + 1
  /\ dead' = dead \cup {c}
  /\ UNCHANGED <<fanMin, spun, honours, sess, restarts>>
=============================================================================
