------------------------------ MODULE BmcCalls ------------------------------
(***************************************************************************)
(* What package ilo promises of a client: one call after another, each of  *)
(* which happens at a single moment, is answered by the BMC as it is then, *)
(* or fails and leaves no session behind.  Module Controller is built on   *)
(* these calls; module IloSession shows that the client makes them so.     *)
(* How often a call may fail is left open (its context may be cancelled).  *)
(***************************************************************************)
EXTENDS Bmc

CONSTANTS
  Clients,      \* the clients that make calls
  Raws          \* the PWM values they send

VARIABLE last   \* what the last call returned

callVars == <<bmcVars, last>>

NoSpeeds == [f \in Fan |-> None]

Return(kind, ok, speeds) == [kind |-> kind, ok |-> ok, speeds |-> speeds]

Init == BmcInit /\ last = Return("none", FALSE, NoSpeeds)

ConnectCall(c) ==
  \E cancelled, ok \in BOOLEAN :
    /\ Connect(c, cancelled, ok)
    /\ last' = Return("connect", ok, NoSpeeds)
    /\ UNCHANGED <<fanMin, spun, honours, restarts>>

SetCall(c) ==
  \E cancelled \in BOOLEAN, f \in Fan, raw \in Raws, out \in {"ok", "unsent"} \cup FaultKinds :
    /\ SetFanMin(c, cancelled, f, raw, out)
    /\ last' = Return("set", out = "ok", NoSpeeds)

ShowCall(c) ==
  \E cancelled \in BOOLEAN, out \in {"ok", "unsent"} \cup FaultKinds :
    \E s \in Reports(c.ilo) \cup {NoSpeeds} :
      /\ FanSpeeds(c, cancelled, s, out)
      /\ last' = Return("show", out = "ok", IF out = "ok" THEN s ELSE NoSpeeds)

CloseCall(c) ==
  /\ Close(c)
  /\ UNCHANGED <<fanMin, spun, honours, faults, restarts, last>>

\* A full interval passes.
Settle == spun' = fanMin /\ UNCHANGED <<fanMin, honours, sessVars, faults, restarts, last>>

Next ==
  \/ \E c \in Clients : ConnectCall(c) \/ SetCall(c) \/ ShowCall(c) \/ CloseCall(c)
  \/ (\E h \in Host : BmcRestart(h)) /\ UNCHANGED last
  \/ (\E c \in sess : HangUp(c)) /\ UNCHANGED last
  \/ Settle

Spec == Init /\ [][Next]_callVars
=============================================================================
