----------------------------- MODULE IloSession -----------------------------
(***************************************************************************)
(* The steps of ilo.Client: one SSH shell session to a BMC, a command      *)
(* written into it, and an output buffer polled for the prompt.  The BMC's *)
(* shell and the wire run beside it; the client's mutex lets one call in   *)
(* at a time, so one caller stands for all of them.                        *)
(*                                                                         *)
(* Output comes in pieces, text and prompts, each marked with whether it   *)
(* answers the call under way or an earlier one.  Time is not modelled: a  *)
(* deadline may pass whenever the code looks at the clock.                 *)
(*                                                                         *)
(* Assumed of the BMC: its shell carries out one command after another,    *)
(* ends an answer with a prompt, and does nothing more for a session that  *)
(* was closed.                                                             *)
(***************************************************************************)
EXTENDS Bmc, Sequences

CONSTANTS
  Me,           \* the client
  Raws          \* the PWM values its callers send

ASSUME SessionAssumption ==
  /\ Me \in Client /\ Raws \subseteq 0..RawMax
  /\ FaultKinds = {"unsent", "unanswered"}

VARIABLES
  step, op,     \* where the call under way is, and which call it is
  ctx,          \* whether its context is "live" or "cancelled"
  buf,          \* the output buffer c.out
  wire,         \* output on its way
  inbox,        \* commands the BMC's shell has not carried out
  conns,        \* connections the client has opened and not closed
  last,         \* what the last call returned
  floors        \* fanMin when the last call returned or the BMC was reset

pipeVars == <<buf, wire, inbox>>
vars == <<bmcVars, step, op, ctx, pipeVars, conns, last, floors>>

NoSpeeds == [f \in Fan |-> None]
NoOp == [kind |-> "none", fan |-> None, raw |-> 0]
Ops == [kind : {"connect", "show"}, fan : {None}, raw : {0}]
         \cup [kind : {"set"}, fan : Fan, raw : Raws]

Piece == [earlier : BOOLEAN, prompt : BOOLEAN, speeds : [Fan -> 0..100 \cup {None}]]
Order == [earlier : BOOLEAN, op : Ops]

Connecting == {"dialing", "shaking", "opening"}
Waiting == {"looking", "looked"}
Running == {"writing", "pausing"} \cup Waiting

CallTypeOK ==
  /\ step \in {"idle"} \cup Connecting \cup Running
  /\ op \in Ops \cup {NoOp} /\ ctx \in {"live", "cancelled"}
  /\ last \in [kind : {"none", "connect", "set", "show"}, ok : BOOLEAN,
               speeds : [Fan -> 0..100 \cup {None}]]
  /\ floors \in [Host -> [Fan -> 0..RawMax \cup {None}]]

PipeTypeOK ==
  buf \in Seq(Piece) /\ wire \in Seq(Piece) /\ inbox \in Seq(Order) /\ conns \in Nat

SessionTypeOK == BmcTypeOK /\ CallTypeOK /\ PipeTypeOK

Init ==
  /\ BmcInit
  /\ step = "idle" /\ op = NoOp /\ ctx = "live"
  /\ buf = <<>> /\ wire = <<>> /\ inbox = <<>>
  /\ conns = 0
  /\ last = [kind |-> "none", ok |-> FALSE, speeds |-> NoSpeeds]
  /\ floors = fanMin

Prompt == [earlier |-> FALSE, prompt |-> TRUE, speeds |-> NoSpeeds]
Listing(s) == [earlier |-> FALSE, prompt |-> FALSE, speeds |-> s]

\* strings.Contains(c.out.String(), prompt).
HasPrompt == \E i \in DOMAIN buf : buf[i].prompt

\* What parseFanSpeeds makes of the buffer: the last value of a fan stands.
Parsed ==
  [f \in Fan |->
     LET told == {i \in DOMAIN buf : buf[i].speeds[f] # None}
     IN  IF told = {} THEN None
         ELSE buf[CHOOSE i \in told : \A j \in told : j <= i].speeds[f]]

\* The call returns.
Returns(ok, speeds) ==
  /\ step' = "idle" /\ op' = NoOp /\ ctx' = "live"
  /\ last' = [kind |-> op.kind, ok |-> ok, speeds |-> speeds]
  /\ floors' = fanMin

Goes(to) == step' = to /\ UNCHANGED <<op, ctx, last, floors>>

\* Closes the session and the connection under it.
closeLocked ==
  /\ Close(Me)
  /\ buf' = <<>> /\ wire' = <<>> /\ inbox' = <<>>
  /\ conns' = conns - 1

bmcSide == <<fanMin, spun, honours, faults, restarts>>
-----------------------------------------------------------------------------
\* A call gets the mutex.  Whatever is still about answers an earlier one.
Earlier(s) == [i \in DOMAIN s |-> [s[i] EXCEPT !.earlier = TRUE]]

Begin ==
  /\ step = "idle"
  /\ op' \in Ops /\ ctx' \in {"live", "cancelled"}
  /\ buf' = Earlier(buf) /\ wire' = Earlier(wire) /\ inbox' = Earlier(inbox)
  /\ IF op'.kind = "connect"
     THEN /\ Me \notin sess /\ step' = "dialing"
     ELSE /\ Me \in sess /\ step' = "writing"
  /\ UNCHANGED <<bmcVars, conns, last, floors>>

\* Connect on a session it holds, and a command without one, return at once.
BeginNoop ==
  /\ step = "idle"
  /\ \E o \in Ops :
       /\ o.kind = "connect" <=> Me \in sess
       /\ last' = [kind |-> o.kind, ok |-> o.kind = "connect", speeds |-> NoSpeeds]
  /\ UNCHANGED <<bmcVars, step, op, ctx, pipeVars, conns, floors>>

\* DialContext, which a cancelled context fails.
Dial ==
  /\ step = "dialing"
  /\ \/ ctx = "live" /\ Goes("shaking") /\ conns' = conns + 1
     \/ Returns(FALSE, NoSpeeds) /\ UNCHANGED conns
  /\ UNCHANGED <<bmcVars, pipeVars>>

\* A failed handshake, or request of a shell, leaves its connection open.
FaultyHangUpConn == UNCHANGED conns

HangUpConn == conns' = conns - 1

\* ssh.NewClientConn: neither the timeout nor the context bounds it.
Handshake ==
  /\ step = "shaking"
  /\ \/ Goes("opening") /\ UNCHANGED conns
     \/ HangUpConn /\ Returns(FALSE, NoSpeeds)
  /\ UNCHANGED <<bmcVars, pipeVars>>

\* NewSession, RequestPty, StdinPipe and Shell; the banner comes with a prompt.
OpenShell ==
  /\ step = "opening"
  /\ \/ /\ sess' = sess \cup {Me} /\ UNCHANGED dead
        /\ buf' = <<>> /\ wire' = <<Prompt>> /\ inbox' = <<>>
        /\ Goes("looking") /\ UNCHANGED conns
     \/ /\ HangUpConn /\ Returns(FALSE, NoSpeeds)
        /\ UNCHANGED <<sessVars, pipeVars>>
  /\ UNCHANGED bmcSide

\* The output of an earlier command is not thrown away.
FaultyReset == buf

Reset == <<>>

\* run, up to the write: a dead session takes it or refuses it.
Write ==
  /\ step = "writing"
  /\ \/ /\ buf' = Reset /\ UNCHANGED <<wire, conns>>
        /\ inbox' = IF Me \in dead THEN inbox
                    ELSE Append(inbox, [earlier |-> FALSE, op |-> op])
        /\ Goes("pausing") /\ UNCHANGED sessVars
     \/ closeLocked /\ Returns(FALSE, NoSpeeds)
  /\ UNCHANGED bmcSide

\* ctx.Done() is ready.
Noticed == ctx # "live"

\* The command interval, which a cancelled context cuts short.
Pause ==
  /\ step = "pausing"
  /\ \/ ~Noticed /\ Goes("looking") /\ UNCHANGED <<sessVars, pipeVars, conns>>
     \/ Noticed /\ closeLocked /\ Returns(FALSE, NoSpeeds)
  /\ UNCHANGED bmcSide

\* One poll of the buffer.
Look ==
  /\ step = "looking"
  /\ \/ HasPrompt /\ Returns(TRUE, IF op.kind = "show" THEN Parsed ELSE NoSpeeds)
     \/ ~HasPrompt /\ Goes("looked")
  /\ UNCHANGED <<bmcVars, pipeVars, conns>>

\* The 50 ms between two polls.
LookAgain ==
  /\ step = "looked" /\ Goes("looking")
  /\ UNCHANGED <<bmcVars, pipeVars, conns>>

\* A command that timed out keeps its session.
FaultyTearDown == UNCHANGED <<sessVars, pipeVars, conns>>

TearDown == closeLocked

\* Only the context ends the wait.
FaultyGiveUp ==
  /\ step = "looked" /\ Noticed
  /\ TearDown /\ Returns(FALSE, NoSpeeds)
  /\ UNCHANGED bmcSide

\* The deadline has passed, or the context was cancelled.
GiveUp ==
  /\ step = "looked"
  /\ TearDown /\ Returns(FALSE, NoSpeeds)
  /\ UNCHANGED bmcSide

\* Client.Close, by release or a reload.
CloseSession ==
  /\ step = "idle" /\ Me \in sess
  /\ closeLocked
  /\ UNCHANGED <<bmcSide, step, op, ctx, last, floors>>
-----------------------------------------------------------------------------
(***************************************************************************)
(* The BMC, the wire and the caller's context.                             *)
(***************************************************************************)
Execute ==
  /\ inbox # <<>> /\ Me \in sess \ dead
  /\ LET cmd == Head(inbox)
     IN  /\ fanMin' = IF cmd.op.kind = "set" /\ Me.ilo \in honours
                      THEN [fanMin EXCEPT ![Me.ilo][cmd.op.fan] = cmd.op.raw] ELSE fanMin
         /\ \E said \in IF cmd.op.kind = "show"
                        THEN {<<Listing(s), Prompt>> : s \in Reports(Me.ilo)} ELSE {<<Prompt>>} :
              wire' = wire \o IF cmd.earlier THEN Earlier(said) ELSE said
  /\ inbox' = Tail(inbox)
  /\ UNCHANGED <<spun, honours, sessVars, faults, restarts, step, op, ctx, buf, conns, last,
                 floors>>

Deliver ==
  /\ wire # <<>>
  /\ buf' = Append(buf, Head(wire)) /\ wire' = Tail(wire)
  /\ UNCHANGED <<bmcVars, step, op, ctx, inbox, conns, last, floors>>

\* A reset ends the session; what of its output still gets through does so
\* before, and is read before, as neither can tell.
Restart ==
  /\ BmcRestart(Me.ilo)
  /\ step \in {"pausing"} \cup Waiting => ~HasPrompt
  /\ wire' = <<>> /\ inbox' = <<>>
  /\ floors' = fanMin'
  /\ UNCHANGED <<step, op, ctx, buf, conns, last>>

\* The BMC or the network drops an idle session; in the middle of a command
\* that is the command's failure.
Drop ==
  /\ step = "idle" /\ HangUp(Me)
  /\ wire' = <<>> /\ inbox' = <<>>
  /\ UNCHANGED <<step, op, ctx, buf, conns, last, floors>>

Cancel ==
  /\ step # "idle" /\ ctx = "live" /\ ctx' = "cancelled"
  /\ UNCHANGED <<bmcVars, step, op, pipeVars, conns, last, floors>>

Settle ==
  /\ step = "idle" /\ spun' = fanMin
  /\ UNCHANGED <<fanMin, honours, sessVars, faults, restarts, step, op, ctx, pipeVars, conns,
                 last, floors>>
-----------------------------------------------------------------------------
Command == Write \/ Pause \/ Look \/ LookAgain \/ GiveUp

Shell == Execute \/ Deliver

Next ==
  \/ Begin \/ BeginNoop \/ Dial \/ Handshake \/ OpenShell \/ Command \/ CloseSession
  \/ Shell \/ Restart \/ Drop \/ Cancel \/ Settle

Spec == Init /\ [][Next]_vars

(***************************************************************************)
(* The client goes on by itself and every deadline passes in the end; of   *)
(* the BMC and the wire nothing is assumed, not even in the handshake.     *)
(***************************************************************************)
FairSpec ==
  /\ Spec
  /\ WF_vars(Dial) /\ WF_vars(OpenShell)
  /\ WF_vars(Command) /\ SF_vars(GiveUp)
-----------------------------------------------------------------------------
(***************************************************************************)
(* Properties.                                                             *)
(***************************************************************************)
\* A Connect under way has set c.sess, but its caller has no session yet.
Held(clients) == IF op.kind = "connect" THEN clients \ {Me} ELSE clients

Calls == INSTANCE BmcCalls WITH
           fanMin <- floors, sess <- Held(sess), dead <- Held(dead), Clients <- {Me}

(***************************************************************************)
(* The client makes good what the controller is built on: every call is as *)
(* if made in one moment.  Its floor is set or not, its readings are those *)
(* the BMC reports at its end, a failure leaves no session, and a session  *)
(* the BMC has dropped answers nothing, wherever in the call the write     *)
(* fails, output comes late, the deadline passes, the context is           *)
(* cancelled or the BMC is reset.                                          *)
(***************************************************************************)
ClientCallsAreAtomic == Calls!Spec

(***************************************************************************)
(* No reply "is read as that command's answer" (client.go:183) when it     *)
(* belongs to another: from its write to its return a command has nothing  *)
(* of an earlier one in its buffer, on the wire, or still to be carried    *)
(* out by the shell.                                                       *)
(***************************************************************************)
AnswersBelongToTheirCommand ==
  step \in {"pausing"} \cup Waiting =>
    /\ \A i \in DOMAIN buf : ~buf[i].earlier
    /\ \A i \in DOMAIN wire : ~wire[i].earlier
    /\ \A i \in DOMAIN inbox : ~inbox[i].earlier

(***************************************************************************)
(* "iLO 4 allows very few concurrent SSH sessions" (client.go:42): the     *)
(* client has one connection open while it holds a session or makes one,   *)
(* and none otherwise, on whichever of its error paths it left.            *)
(***************************************************************************)
NoConnectionLeaks ==
  conns = IF Me \in sess \/ step \in {"shaking", "opening"} THEN 1 ELSE 0

(***************************************************************************)
(* A command returns, whatever the BMC does or fails to do.  A call that   *)
(* connects need not: only its dial is bounded, the handshake is not.      *)
(***************************************************************************)
CommandsReturn == step \in Running ~> step = "idle"
=============================================================================
