---------------------------- MODULE SessionProofs ----------------------------
(***************************************************************************)
(* The client of every BMC, with every fan, PWM value, fault and reset:    *)
(* answers go to their commands, connections do not leak, and its steps    *)
(* implement the calls the controller is built on (BmcCalls).              *)
(***************************************************************************)
EXTENDS IloSession, SequenceTheorems, TLAPS

\* A command has been written, and its call has not returned; or a session was
\* opened and its banner is waited for.
Out == step \in {"pausing"} \cup Waiting

\* What the shell may answer the call under way.
Answers ==
  IF op.kind = "show" THEN {<<Listing(s), Prompt>> : s \in Reports(Me.ilo)} ELSE {<<Prompt>>}

\* Of that answer, what the buffer holds and what is on the wire.
AnswerSplit ==
  \/ buf = <<>> /\ wire \in Answers
  \/ buf \in Answers /\ wire = <<>>
  \/ \E s \in Reports(Me.ilo) :
       op.kind = "show" /\ buf = <<Listing(s)>> /\ wire = <<Prompt>>

(***************************************************************************)
(* The pipe: nothing of a call is left on the wire or with the shell when  *)
(* it returns, for its prompt is the last it sends.  While a command is    *)
(* out it waits for the shell, or its answer is on the way, or its session *)
(* was dropped and there is none to come.                                  *)
(***************************************************************************)
Pipe ==
  /\ ~Out => wire = <<>> /\ inbox = <<>>
  /\ Out => \/ /\ inbox = <<[earlier |-> FALSE, op |-> op]>> /\ op.kind # "connect"
               /\ buf = <<>> /\ wire = <<>> /\ Me \notin dead
            \/ /\ inbox = <<>> /\ Me \notin dead /\ AnswerSplit
            \/ /\ inbox = <<>> /\ wire = <<>> /\ Me \in dead /\ ~HasPrompt
               /\ \A i \in DOMAIN buf : ~buf[i].earlier

\* The floors as callers know them, but for a command carried out meanwhile.
Carried ==
  Out /\ op.kind = "set" /\ inbox = <<>> /\ Me \notin dead /\ Me.ilo \in honours

KnownFloors ==
  fanMin = IF Carried THEN [floors EXCEPT ![Me.ilo][op.fan] = op.raw] ELSE floors

\* Who holds a session when, and what call it is.
Phases ==
  /\ step \in Connecting => Me \notin sess
  /\ step \in Running => Me \in sess
  /\ step = "idle" <=> op = NoOp
  /\ step \in Connecting => op.kind = "connect"
  /\ step \in {"writing", "pausing"} => op.kind # "connect"

SessionInv ==
  /\ SessionTypeOK /\ Pipe /\ KnownFloors /\ Phases
  /\ NoConnectionLeaks
-----------------------------------------------------------------------------
(***************************************************************************)
(* Types.                                                                  *)
(***************************************************************************)
LEMMA ConstantFacts ==
  /\ Me \in Client /\ Me.ilo \in Host /\ Raws \subseteq 0..RawMax
  /\ NoSpeeds \in [Fan -> 0..100 \cup {None}]
  /\ NoOp \notin Ops /\ NoOp.kind = "none"
  /\ \A o \in Ops : o.kind \in {"connect", "set", "show"}
  /\ \A o \in Ops : o.kind = "set" => o.fan \in Fan /\ o.raw \in Raws
BY SessionAssumption DEF Client, NoSpeeds, NoOp, Ops

LEMMA ReportType ==
  ASSUME BmcTypeOK, NEW h \in Host, NEW s \in Reports(h)
  PROVE  s \in [Fan -> 0..100 \cup {None}]
<1>1. ASSUME NEW f \in Fan PROVE ShownFloor(h, f) \in 0..100
  <2>1. \A r \in 0..RawMax : RawToPct(r) \div Pct(1) \in 0..100
    BY SMT DEF RawToPct, RawMax, Pct, RawStep
  <2>2. fanMin[h][f] \in 0..RawMax \cup {None} /\ spun[h][f] \in 0..RawMax \cup {None}
    BY DEF BmcTypeOK
  <2>3. CASE fanMin[h][f] = None \/ spun[h][f] = None
    BY <2>3 DEF ShownFloor
  <2>4. CASE fanMin[h][f] # None /\ spun[h][f] # None
    BY <2>1, <2>2, <2>4 DEF ShownFloor
  <2> QED BY <2>3, <2>4
<1>2. \A f \in Fan : Seen(h, f) \subseteq 0..100 \cup {None}
  BY <1>1, BmcAssumption DEF Seen
<1> QED
  BY <1>2 DEF Reports

LEMMA EarlierType ==
  /\ \A x \in Piece : [x EXCEPT !.earlier = TRUE] \in Piece
  /\ \A x \in Order : [x EXCEPT !.earlier = TRUE] \in Order
BY DEF Piece, Order

LEMMA PieceTypes ==
  /\ Prompt \in Piece
  /\ \A s \in [Fan -> 0..100 \cup {None}] : Listing(s) \in Piece
  /\ \A q \in Seq(Piece) : Earlier(q) \in Seq(Piece)
  /\ \A q \in Seq(Order) : Earlier(q) \in Seq(Order)
<1>1. Prompt \in Piece
  BY ConstantFacts DEF Prompt, Piece
<1>2. ASSUME NEW s \in [Fan -> 0..100 \cup {None}] PROVE Listing(s) \in Piece
  BY DEF Listing, Piece
<1>3. ASSUME NEW q \in Seq(Piece) PROVE Earlier(q) \in Seq(Piece)
  <2>1. \A i \in DOMAIN q : [q[i] EXCEPT !.earlier = TRUE] \in Piece
    BY EarlierType
  <2> QED BY <2>1 DEF Earlier
<1>4. ASSUME NEW q \in Seq(Order) PROVE Earlier(q) \in Seq(Order)
  <2>1. \A i \in DOMAIN q : [q[i] EXCEPT !.earlier = TRUE] \in Order
    BY EarlierType
  <2> QED BY <2>1 DEF Earlier
<1> QED
  BY <1>1, <1>2, <1>3, <1>4
-----------------------------------------------------------------------------
(***************************************************************************)
(* What the invariant says of a state, and what the pieces of an action    *)
(* do to it.                                                               *)
(***************************************************************************)
LEMMA SessionFacts ==
  ASSUME SessionInv
  PROVE  /\ conns = IF Me \in sess \/ step \in {"shaking", "opening"} THEN 1 ELSE 0
         /\ op.kind \in {"none", "connect", "set", "show"}
         /\ step # "idle" => op \in Ops /\ op.kind \in {"connect", "set", "show"}
         /\ op.kind = "set" => op.fan \in Fan /\ op.raw \in 0..RawMax
BY ConstantFacts DEF SessionInv, NoConnectionLeaks, SessionTypeOK, CallTypeOK, Phases

\* A call that returns.
LEMMA ReturnsType ==
  ASSUME SessionInv, NEW ok \in BOOLEAN, NEW s \in [Fan -> 0..100 \cup {None}], Returns(ok, s)
  PROVE  CallTypeOK'
BY SessionFacts DEF SessionInv, SessionTypeOK, CallTypeOK, BmcTypeOK, Returns

\* A call that goes on.
LEMMA GoesType ==
  ASSUME SessionInv, NEW to \in {"idle"} \cup Connecting \cup Running, Goes(to)
  PROVE  CallTypeOK'
BY DEF SessionInv, SessionTypeOK, CallTypeOK, Goes

\* A session that is closed.
LEMMA ClosedType ==
  ASSUME SessionInv, Me \in sess, closeLocked, UNCHANGED bmcSide
  PROVE  BmcTypeOK' /\ PipeTypeOK' /\ conns' = 0 /\ Me \notin sess'
<1>1. conns = 1
  BY SessionFacts
<1> QED
  BY <1>1 DEF SessionInv, SessionTypeOK, BmcTypeOK, PipeTypeOK, closeLocked, Close, bmcSide

LEMMA SameSessionTypes ==
  /\ BmcTypeOK /\ UNCHANGED bmcVars => BmcTypeOK'
  /\ CallTypeOK /\ UNCHANGED <<step, op, ctx, last, floors>> => CallTypeOK'
  /\ PipeTypeOK /\ UNCHANGED <<pipeVars, conns>> => PipeTypeOK'
BY DEF BmcTypeOK, bmcVars, CallTypeOK, PipeTypeOK, pipeVars
-----------------------------------------------------------------------------
(***************************************************************************)
(* The invariant is kept: calls that begin, and Connect.                   *)
(***************************************************************************)
LEMMA EarlierOfNothing == Earlier(<<>>) = <<>>
BY DEF Earlier

LEMMA BeginKeeps == SessionInv /\ Begin => SessionInv'
<1> SUFFICES ASSUME SessionInv, Begin PROVE SessionInv'
  OBVIOUS
<1>1. /\ step = "idle" /\ op' \in Ops /\ ctx' \in {"live", "cancelled"}
      /\ buf' = Earlier(buf) /\ wire' = Earlier(wire) /\ inbox' = Earlier(inbox)
      /\ \/ op'.kind = "connect" /\ Me \notin sess /\ step' = "dialing"
         \/ op'.kind # "connect" /\ Me \in sess /\ step' = "writing"
      /\ UNCHANGED <<bmcVars, conns, last, floors>>
  BY DEF Begin
<1>2. wire = <<>> /\ inbox = <<>> /\ ~Out
  BY <1>1 DEF SessionInv, Pipe, Out, Waiting
<1>3. wire' = <<>> /\ inbox' = <<>> /\ ~Out'
  BY <1>1, <1>2, EarlierOfNothing DEF Out, Waiting
<1>4. BmcTypeOK' /\ CallTypeOK' /\ PipeTypeOK'
  <2>1. BmcTypeOK'
    BY <1>1, SameSessionTypes DEF SessionInv, SessionTypeOK
  <2>2. CallTypeOK'
    BY <1>1 DEF SessionInv, SessionTypeOK, CallTypeOK, Connecting, Running
  <2>3. buf' \in Seq(Piece)
    BY <1>1, PieceTypes DEF SessionInv, SessionTypeOK, PipeTypeOK
  <2>4. PipeTypeOK'
    BY <1>1, <1>3, <2>3 DEF SessionInv, SessionTypeOK, PipeTypeOK
  <2> QED BY <2>1, <2>2, <2>4
<1>5. Pipe'
  BY <1>3 DEF Pipe
<1>6. KnownFloors'
  BY <1>1, <1>2, <1>3 DEF SessionInv, KnownFloors, Carried, bmcVars
<1>7. Phases'
  BY <1>1, ConstantFacts DEF SessionInv, Phases, Connecting, Running, Waiting, bmcVars
<1>8. NoConnectionLeaks'
  BY <1>1, SessionFacts DEF NoConnectionLeaks, Waiting, bmcVars
<1> QED
  BY <1>4, <1>5, <1>6, <1>7, <1>8 DEF SessionInv, SessionTypeOK

LEMMA BeginNoopKeeps == SessionInv /\ BeginNoop => SessionInv'
<1> SUFFICES ASSUME SessionInv, BeginNoop PROVE SessionInv'
  OBVIOUS
<1>1. PICK o \in Ops :
        last' = [kind |-> o.kind, ok |-> o.kind = "connect", speeds |-> NoSpeeds]
  BY DEF BeginNoop
<1>2. UNCHANGED <<bmcVars, step, op, ctx, pipeVars, conns, floors>>
  BY DEF BeginNoop
<1>3. CallTypeOK'
  BY <1>1, <1>2, ConstantFacts DEF SessionInv, SessionTypeOK, CallTypeOK
<1>4. SessionTypeOK'
  BY <1>2, <1>3, SameSessionTypes DEF SessionInv, SessionTypeOK
<1>5. /\ Pipe' /\ KnownFloors' /\ Phases'
      /\ NoConnectionLeaks'
  <2> USE <1>2 DEF bmcVars, pipeVars
  <2>1. Out' = Out /\ HasPrompt' = HasPrompt /\ AnswerSplit' = AnswerSplit
    BY DEF Out, HasPrompt, AnswerSplit, Answers, Reports, Seen, ShownFloor
  <2>2. Pipe'
    BY <2>1 DEF SessionInv, Pipe
  <2>3. KnownFloors' /\ Phases'
    BY <2>1 DEF SessionInv, KnownFloors, Carried, Phases
  <2>4. NoConnectionLeaks'
    BY DEF SessionInv, NoConnectionLeaks
  <2> QED BY <2>2, <2>3, <2>4
<1> QED
  BY <1>4, <1>5 DEF SessionInv

\* A call to connect that has no session yet goes on or returns.
LEMMA ConnectingKeeps == SessionInv /\ (Dial \/ Handshake) => SessionInv'
<1> SUFFICES ASSUME SessionInv, Dial \/ Handshake PROVE SessionInv'
  OBVIOUS
<1>1. /\ step \in {"dialing", "shaking"} /\ UNCHANGED <<bmcVars, pipeVars>>
      /\ Me \notin sess /\ wire = <<>> /\ inbox = <<>> /\ ~Out /\ op.kind = "connect"
  BY DEF Dial, Handshake, SessionInv, Phases, Connecting, Pipe, Out, Waiting
<1>2. \/ Goes("shaking") /\ conns' = 1 /\ ctx = "live"
      \/ Goes("opening") /\ conns' = 1 /\ step = "shaking"
      \/ Returns(FALSE, NoSpeeds) /\ conns' = 0
  <2>1. CASE Dial
    <3>1. conns = 0 /\ conns + 1 = 1
      BY <1>1, <2>1, SessionFacts DEF Dial
    <3> QED BY <2>1, <3>1 DEF Dial
  <2>2. CASE Handshake
    <3>1. conns = 1 /\ conns - 1 = 0
      BY <1>1, <2>2, SessionFacts DEF Handshake
    <3> QED BY <2>2, <3>1 DEF Handshake, HangUpConn
  <2> QED BY <2>1, <2>2
<1>3. CallTypeOK'
  BY <1>2, GoesType, ReturnsType, ConstantFacts DEF Connecting
<1>4. SessionTypeOK'
  <2>1. PipeTypeOK'
    <3>1. conns' = 0 \/ conns' = 1
      BY <1>2
    <3> QED BY <1>1, <3>1 DEF SessionInv, SessionTypeOK, PipeTypeOK, pipeVars
  <2> QED BY <1>1, <1>3, <2>1, SameSessionTypes DEF SessionInv, SessionTypeOK
<1>5. ~Out' /\ Pipe'
  BY <1>1, <1>2 DEF Goes, Returns, Out, Waiting, Pipe, pipeVars
<1>6. KnownFloors'
  BY <1>1, <1>2, <1>5 DEF Goes, Returns, SessionInv, KnownFloors, Carried, bmcVars
<1>7. Phases'
  BY <1>1, <1>2, ConstantFacts DEF Goes, Returns, SessionInv, Phases, Connecting, Running,
                                   Waiting, bmcVars
<1>8. NoConnectionLeaks'
  BY <1>1, <1>2 DEF Goes, Returns, SessionInv, NoConnectionLeaks, Waiting, bmcVars
<1> QED
  BY <1>4, <1>5, <1>6, <1>7, <1>8 DEF SessionInv

LEMMA OpenShellKeeps == SessionInv /\ OpenShell => SessionInv'
<1> SUFFICES ASSUME SessionInv, OpenShell PROVE SessionInv'
  OBVIOUS
<1>1. /\ step = "opening" /\ UNCHANGED bmcSide
      /\ Me \notin sess /\ wire = <<>> /\ inbox = <<>> /\ ~Out /\ op.kind = "connect"
  BY DEF OpenShell, SessionInv, Phases, Connecting, Pipe, Out, Waiting
<1>2. conns = 1 /\ conns - 1 = 0 /\ Me \notin dead
  BY <1>1, SessionFacts DEF SessionInv, SessionTypeOK, BmcTypeOK
<1>3. CASE /\ sess' = sess \cup {Me} /\ UNCHANGED dead
           /\ buf' = <<>> /\ wire' = <<Prompt>> /\ inbox' = <<>>
           /\ Goes("looking") /\ UNCHANGED conns
  <2>1. BmcTypeOK'
    BY <1>1, <1>3, ConstantFacts DEF SessionInv, SessionTypeOK, BmcTypeOK, bmcSide
  <2>2. CallTypeOK'
    BY <1>3, GoesType DEF Running, Waiting
  <2>3. PipeTypeOK'
    BY <1>3, PieceTypes DEF SessionInv, SessionTypeOK, PipeTypeOK
  <2>4. Pipe'
    <3>1. AnswerSplit'
      BY <1>1, <1>3 DEF AnswerSplit, Answers, Goes
    <3>2. Out' /\ Me \notin dead'
      BY <1>2, <1>3 DEF Out, Waiting, Goes
    <3> QED BY <1>3, <3>1, <3>2 DEF Pipe
  <2>5. KnownFloors' /\ Phases'
    BY <1>1, <1>3 DEF SessionInv, KnownFloors, Carried, Phases, Goes, bmcSide, Connecting,
                      Running, Waiting
  <2>7. NoConnectionLeaks'
    BY <1>2, <1>3 DEF NoConnectionLeaks, Goes
  <2> QED BY <2>1, <2>2, <2>3, <2>4, <2>5, <2>7 DEF SessionInv, SessionTypeOK
<1>4. CASE /\ conns' = 0 /\ Returns(FALSE, NoSpeeds)
           /\ UNCHANGED <<sessVars, pipeVars>>
  <2>1. BmcTypeOK' /\ CallTypeOK'
    <3>1. CallTypeOK'
      BY <1>4, ReturnsType, ConstantFacts
    <3> QED BY <1>1, <1>4, <3>1 DEF SessionInv, SessionTypeOK, BmcTypeOK, bmcSide, sessVars
  <2>2. PipeTypeOK'
    BY <1>4 DEF SessionInv, SessionTypeOK, PipeTypeOK, pipeVars
  <2>3. ~Out' /\ Pipe'
    BY <1>1, <1>4 DEF Returns, Out, Waiting, Pipe, pipeVars
  <2>4. KnownFloors' /\ Phases'
    BY <1>1, <1>4, <2>3, ConstantFacts DEF Returns, SessionInv, KnownFloors, Carried, Phases,
         Connecting, Running, Waiting, bmcSide, sessVars
  <2>5. NoConnectionLeaks'
    BY <1>1, <1>4 DEF Returns, NoConnectionLeaks, Waiting, sessVars
  <2> QED BY <2>1, <2>2, <2>3, <2>4, <2>5 DEF SessionInv, SessionTypeOK
<1> QED
  BY <1>2, <1>3, <1>4 DEF OpenShell, HangUpConn

\* A failed command closes its session.
LEMMA FailureKeeps ==
  ASSUME SessionInv, Me \in sess, closeLocked, Returns(FALSE, NoSpeeds), UNCHANGED bmcSide
  PROVE  SessionInv'
<1>1. BmcTypeOK' /\ PipeTypeOK' /\ conns' = 0 /\ Me \notin sess'
  BY ClosedType
<1>2. CallTypeOK'
  BY ReturnsType, ConstantFacts
<1>3. ~Out' /\ Pipe'
  BY DEF Returns, closeLocked, Out, Waiting, Pipe
<1>4. KnownFloors' /\ Phases'
  BY <1>3, ConstantFacts DEF Returns, KnownFloors, Carried, Phases, Connecting, Running,
                             Waiting, bmcSide
<1>5. NoConnectionLeaks'
  BY <1>1 DEF Returns, NoConnectionLeaks, Waiting
<1> QED
  BY <1>1, <1>2, <1>3, <1>4, <1>5 DEF SessionInv, SessionTypeOK, Returns

LEMMA WriteKeeps == SessionInv /\ Write => SessionInv'
<1> SUFFICES ASSUME SessionInv, Write PROVE SessionInv'
  OBVIOUS
<1>1. /\ step = "writing" /\ Me \in sess /\ UNCHANGED bmcSide
      /\ wire = <<>> /\ inbox = <<>> /\ ~Out /\ op.kind # "connect" /\ op \in Ops
  BY SessionFacts DEF Write, SessionInv, Phases, Running, Pipe, Out, Waiting
<1>2. CASE closeLocked /\ Returns(FALSE, NoSpeeds)
  BY <1>1, <1>2, FailureKeeps
<1>3. CASE /\ buf' = Reset /\ UNCHANGED <<wire, conns>>
           /\ inbox' = IF Me \in dead THEN inbox
                       ELSE Append(inbox, [earlier |-> FALSE, op |-> op])
           /\ Goes("pausing") /\ UNCHANGED sessVars
  <2>1. /\ buf' = <<>> /\ wire' = <<>> /\ Out' /\ ~HasPrompt'
        /\ \/ Me \in dead' /\ inbox' = <<>>
           \/ Me \notin dead' /\ inbox' = <<[earlier |-> FALSE, op |-> op]>>
        /\ UNCHANGED <<op, ctx, floors, fanMin, honours, conns, sess>> /\ step' = "pausing"
    <3>1. /\ buf' = <<>> /\ wire' = <<>> /\ step' = "pausing" /\ Out' /\ ~HasPrompt'
          /\ UNCHANGED <<op, ctx, floors, fanMin, honours, conns, sess, dead>>
      BY <1>1, <1>3 DEF Reset, Out, HasPrompt, Goes, bmcSide, sessVars
    <3>2. \A x : Append(<<>>, x) = <<x>>
      OBVIOUS
    <3> QED BY <1>1, <1>3, <3>1, <3>2
  <2>2. BmcTypeOK' /\ CallTypeOK'
    <3>1. CallTypeOK'
      BY <1>3, GoesType DEF Running
    <3> QED BY <1>1, <1>3, <3>1 DEF SessionInv, SessionTypeOK, BmcTypeOK, bmcSide, sessVars
  <2>3. PipeTypeOK'
    <3>1. [earlier |-> FALSE, op |-> op] \in Order
      BY <1>1 DEF Order
    <3>2. \A x \in Order : <<x>> \in Seq(Order)
      OBVIOUS
    <3>3. inbox' \in Seq(Order)
      <4>1. <<>> \in Seq(Order) /\ <<[earlier |-> FALSE, op |-> op]>> \in Seq(Order)
        BY <3>1, <3>2
      <4> QED BY <2>1, <4>1
    <3>4. buf' \in Seq(Piece) /\ wire' \in Seq(Piece)
      BY <2>1
    <3>5. conns' \in Nat
      BY <2>1 DEF SessionInv, SessionTypeOK, PipeTypeOK
    <3> QED BY <3>3, <3>4, <3>5 DEF PipeTypeOK
  <2>4. Pipe'
    BY <1>1, <2>1 DEF Pipe
  <2>5. KnownFloors' /\ Phases'
    BY <1>1, <2>1 DEF SessionInv, KnownFloors, Carried, Phases, Connecting, Running
  <2>6. NoConnectionLeaks'
    BY <1>1, <2>1 DEF SessionInv, NoConnectionLeaks, Waiting
  <2> QED BY <2>2, <2>3, <2>4, <2>5, <2>6 DEF SessionInv, SessionTypeOK
<1> QED
  BY <1>2, <1>3 DEF Write

\* A command that is out and goes on to wait, or waits on.
LEMMA WaitingKeeps ==
  ASSUME SessionInv, Out, step' \in Waiting,
         UNCHANGED <<bmcVars, pipeVars, conns, op, ctx, last, floors>>
  PROVE  SessionInv'
<1> USE DEF bmcVars, pipeVars
<1>1. Out' /\ HasPrompt' = HasPrompt /\ AnswerSplit' = AnswerSplit
  BY DEF Out, HasPrompt, AnswerSplit, Answers, Reports, Seen, ShownFloor
<1>2. SessionTypeOK'
  <2>1. CallTypeOK'
    BY DEF SessionInv, SessionTypeOK, CallTypeOK, Running
  <2> QED BY <2>1, SameSessionTypes DEF SessionInv, SessionTypeOK
<1>3. Pipe' /\ KnownFloors'
  BY <1>1 DEF SessionInv, Pipe, KnownFloors, Carried
<1>4. Phases'
  BY DEF SessionInv, Phases, Out, Waiting, Running, Connecting
<1>5. NoConnectionLeaks'
  BY DEF SessionInv, NoConnectionLeaks, Waiting, Out
<1> QED
  BY <1>2, <1>3, <1>4, <1>5 DEF SessionInv

LEMMA PauseKeeps == SessionInv /\ Pause => SessionInv'
<1> SUFFICES ASSUME SessionInv, Pause PROVE SessionInv'
  OBVIOUS
<1>1. step = "pausing" /\ Me \in sess /\ UNCHANGED bmcSide /\ Out
  BY DEF Pause, SessionInv, Phases, Running, Out
<1>2. CASE Noticed /\ closeLocked /\ Returns(FALSE, NoSpeeds)
  BY <1>1, <1>2, FailureKeeps
<1>3. CASE ~Noticed /\ Goes("looking") /\ UNCHANGED <<sessVars, pipeVars, conns>>
  BY <1>1, <1>3, WaitingKeeps DEF Goes, bmcVars, bmcSide, sessVars, pipeVars, Waiting
<1> QED
  BY <1>2, <1>3 DEF Pause

\* A call whose prompt is there: its answer is complete, and nothing follows.
LEMMA PromptIsLast ==
  ASSUME SessionInv, Out, HasPrompt
  PROVE  /\ inbox = <<>> /\ wire = <<>> /\ Me \notin dead
         /\ buf \in Answers
<1>1. ~(\E s : buf = <<Listing(s)>>) /\ buf # <<>>
  BY DEF HasPrompt, Listing
<1> QED
  BY <1>1 DEF SessionInv, Pipe, AnswerSplit

\* What parseFanSpeeds reads out of a complete answer.
LEMMA ParsedAnswer ==
  ASSUME SessionInv, buf \in Answers
  PROVE  /\ Parsed \in [Fan -> 0..100 \cup {None}]
         /\ op.kind = "show" => Parsed \in Reports(Me.ilo)
<1>1. CASE buf = <<Prompt>> /\ op.kind # "show"
  <2>1. \A f \in Fan : {i \in DOMAIN buf : buf[i].speeds[f] # None} = {}
    BY <1>1 DEF Prompt, NoSpeeds
  <2>2. Parsed = [f \in Fan |-> None]
    BY <2>1 DEF Parsed
  <2> QED BY <1>1, <2>2
<1>2. CASE \E s \in Reports(Me.ilo) : buf = <<Listing(s), Prompt>>
  <2>1. PICK s \in Reports(Me.ilo) : buf = <<Listing(s), Prompt>>
    BY <1>2
  <2>2. s \in [Fan -> 0..100 \cup {None}]
    BY <2>1, ReportType, ConstantFacts DEF SessionInv, SessionTypeOK
  <2>3. ASSUME NEW f \in Fan PROVE Parsed[f] = s[f]
    <3> DEFINE told == {i \in DOMAIN buf : buf[i].speeds[f] # None}
    <3>1. DOMAIN buf = {1, 2} /\ buf[1].speeds[f] = s[f] /\ buf[2].speeds[f] = None
      BY <2>1, <2>3 DEF Listing, Prompt, NoSpeeds
    <3>2. Parsed[f] = IF told = {} THEN None
                      ELSE buf[CHOOSE i \in told : \A j \in told : j <= i].speeds[f]
      BY <2>3 DEF Parsed
    <3>3. CASE s[f] = None
      BY <3>1, <3>2, <3>3
    <3>4. CASE s[f] # None
      <4>1. told = {1}
        BY <3>1, <3>4
      <4>2. (CHOOSE i \in told : \A j \in told : j <= i) = 1
        BY <4>1
      <4> QED BY <3>1, <3>2, <4>1, <4>2
    <3> QED BY <3>3, <3>4
  <2>4. Parsed = s
    BY <2>2, <2>3 DEF Parsed
  <2> QED BY <2>1, <2>2, <2>4
<1> QED
  BY <1>1, <1>2 DEF Answers

LEMMA LookKeeps == SessionInv /\ Look => SessionInv'
<1> SUFFICES ASSUME SessionInv, Look PROVE SessionInv'
  OBVIOUS
<1>1. step = "looking" /\ Me \in sess /\ Out /\ UNCHANGED <<bmcVars, pipeVars, conns>>
  BY DEF Look, SessionInv, Phases, Running, Waiting, Out
<1>2. CASE HasPrompt /\ Returns(TRUE, IF op.kind = "show" THEN Parsed ELSE NoSpeeds)
  <2>1. inbox = <<>> /\ wire = <<>> /\ buf \in Answers
    BY <1>1, <1>2, PromptIsLast
  <2>2. CallTypeOK'
    BY <1>2, <2>1, ReturnsType, ParsedAnswer, ConstantFacts
  <2>3. SessionTypeOK'
    BY <1>1, <2>2, SameSessionTypes DEF SessionInv, SessionTypeOK
  <2>4. ~Out' /\ Pipe' /\ step' = "idle" /\ op' = NoOp /\ floors' = fanMin
    BY <1>1, <1>2, <2>1 DEF Returns, Out, Waiting, Pipe, pipeVars
  <2>5. KnownFloors' /\ Phases'
    BY <1>1, <2>4, ConstantFacts DEF KnownFloors, Carried, Phases, Connecting, Running,
                                     Waiting, bmcVars
  <2>6. NoConnectionLeaks'
    BY <1>1, <2>4 DEF SessionInv, NoConnectionLeaks, Waiting,
                      bmcVars
  <2> QED BY <2>3, <2>4, <2>5, <2>6 DEF SessionInv
<1>3. CASE ~HasPrompt /\ Goes("looked")
  BY <1>1, <1>3, WaitingKeeps DEF Goes, Waiting
<1> QED
  BY <1>2, <1>3 DEF Look

LEMMA LookAgainKeeps == SessionInv /\ LookAgain => SessionInv'
BY WaitingKeeps DEF LookAgain, Goes, Out, Waiting, SessionInv

LEMMA GiveUpKeeps == SessionInv /\ GiveUp => SessionInv'
BY FailureKeeps DEF GiveUp, TearDown, SessionInv, Phases, Running, Waiting

LEMMA CloseSessionKeeps == SessionInv /\ CloseSession => SessionInv'
<1> SUFFICES ASSUME SessionInv, CloseSession PROVE SessionInv'
  OBVIOUS
<1>1. /\ step = "idle" /\ Me \in sess /\ closeLocked
      /\ UNCHANGED <<bmcSide, step, op, ctx, last, floors>>
  BY DEF CloseSession
<1>2. BmcTypeOK' /\ PipeTypeOK' /\ conns' = 0 /\ Me \notin sess'
  BY <1>1, ClosedType DEF bmcSide
<1>3. CallTypeOK'
  BY <1>1, SameSessionTypes DEF SessionInv, SessionTypeOK
<1>4. ~Out /\ ~Out' /\ Pipe'
  BY <1>1 DEF closeLocked, Out, Waiting, Pipe
<1>5. KnownFloors' /\ Phases'
  BY <1>1, <1>4 DEF SessionInv, KnownFloors, Carried, Phases, Connecting, Running, Waiting,
                    bmcSide
<1>6. NoConnectionLeaks'
  BY <1>1, <1>2 DEF NoConnectionLeaks, Waiting
<1> QED
  BY <1>2, <1>3, <1>4, <1>5, <1>6 DEF SessionInv, SessionTypeOK
-----------------------------------------------------------------------------
(***************************************************************************)
(* The invariant is kept: the shell, the wire and the rest of the world.   *)
(***************************************************************************)
\* The command carried out is the one the client waits for.
LEMMA ExecuteFacts ==
  ASSUME SessionInv, Execute
  PROVE  /\ Out /\ step # "idle" /\ op \in Ops /\ op.kind # "connect" /\ Me \notin dead
         /\ Head(inbox) = [earlier |-> FALSE, op |-> op] /\ Tail(inbox) = <<>>
         /\ buf = <<>> /\ wire = <<>>
<1>1. inbox # <<>> /\ Me \notin dead
  BY DEF Execute
<1>2. /\ Out /\ inbox = <<[earlier |-> FALSE, op |-> op]>> /\ op.kind # "connect"
      /\ buf = <<>> /\ wire = <<>>
  BY <1>1 DEF SessionInv, Pipe
<1>3. step # "idle"
  BY <1>2 DEF Out, Waiting
<1> QED
  BY <1>1, <1>2, <1>3, SessionFacts

LEMMA ExecuteKeeps == SessionInv /\ Execute => SessionInv'
<1> SUFFICES ASSUME SessionInv, Execute PROVE SessionInv'
  OBVIOUS
<1>1. /\ Out /\ step # "idle" /\ op \in Ops /\ op.kind # "connect" /\ Me \notin dead
      /\ Head(inbox) = [earlier |-> FALSE, op |-> op] /\ Tail(inbox) = <<>>
      /\ buf = <<>> /\ wire = <<>>
  BY ExecuteFacts
<1>2. /\ fanMin' = IF op.kind = "set" /\ Me.ilo \in honours
                   THEN [fanMin EXCEPT ![Me.ilo][op.fan] = op.raw] ELSE fanMin
      /\ \E said \in Answers : wire' = <<>> \o said
      /\ inbox' = <<>>
      /\ UNCHANGED <<spun, honours, sessVars, faults, restarts, step, op, ctx, buf, conns,
                     last, floors>>
  <2>1. Head(inbox).op = op /\ Head(inbox).earlier = FALSE
    BY <1>1
  <2>2. /\ fanMin' = IF op.kind = "set" /\ Me.ilo \in honours
                     THEN [fanMin EXCEPT ![Me.ilo][op.fan] = op.raw] ELSE fanMin
        /\ \E said \in Answers : wire' = wire \o said
    BY <2>1 DEF Execute, Answers
  <2> QED BY <1>1, <2>2 DEF Execute
<1>3. Answers \subseteq Seq(Piece)
  <2>1. ASSUME NEW s \in Reports(Me.ilo) PROVE <<Listing(s), Prompt>> \in Seq(Piece)
    <3>1. Listing(s) \in Piece /\ Prompt \in Piece
      BY <2>1, ReportType, PieceTypes, ConstantFacts DEF SessionInv, SessionTypeOK
    <3> QED BY <3>1
  <2>2. <<Prompt>> \in Seq(Piece)
    BY PieceTypes
  <2> QED BY <2>1, <2>2 DEF Answers
<1>4. wire' \in Answers
  BY <1>2, <1>3
<1>5. op.kind # "set" => fanMin' = fanMin
  BY <1>2
<1>6. Answers' = Answers
  <2>1. CASE op.kind = "show"
    <3>1. Reports(Me.ilo)' = Reports(Me.ilo)
      BY <1>2, <1>5, <2>1 DEF Reports, Seen, ShownFloor
    <3> QED BY <1>2, <3>1 DEF Answers
  <2>2. CASE op.kind # "show"
    BY <1>2, <2>2 DEF Answers
  <2> QED BY <2>1, <2>2
<1>7. SessionTypeOK'
  <2>1. BmcTypeOK'
    BY <1>1, <1>2, ConstantFacts DEF SessionInv, SessionTypeOK, BmcTypeOK, sessVars
  <2>2. PipeTypeOK'
    BY <1>2, <1>3, <1>4 DEF SessionInv, SessionTypeOK, PipeTypeOK
  <2> QED BY <1>2, <2>1, <2>2, SameSessionTypes DEF SessionInv, SessionTypeOK
<1>8. Pipe'
  BY <1>1, <1>2, <1>4, <1>6 DEF Pipe, AnswerSplit, Out, sessVars
<1>9. KnownFloors'
  <2>1. fanMin = floors
    BY <1>1 DEF SessionInv, Pipe, KnownFloors, Carried, Execute
  <2> QED BY <1>1, <1>2, <2>1 DEF KnownFloors, Carried, Out, sessVars
<1>10. Phases' /\ NoConnectionLeaks'
  BY <1>2 DEF SessionInv, Phases, NoConnectionLeaks, sessVars
<1> QED
  BY <1>7, <1>8, <1>9, <1>10 DEF SessionInv

LEMMA TupleFacts ==
  \A x, y : /\ Append(<<x>>, y) = <<x, y>>
            /\ Head(<<y>>) = y /\ Tail(<<y>>) = <<>>
<1> SUFFICES ASSUME NEW x, NEW y
             PROVE  /\ Append(<<x>>, y) = <<x, y>>
                    /\ Head(<<y>>) = y /\ Tail(<<y>>) = <<>>
  OBVIOUS
<1>1. <<x>> \in Seq({x, y}) /\ <<x, y>> \in Seq({x, y}) /\ Len(<<x>>) = 1
  OBVIOUS
<1>2. Append(<<x>>, y) \in Seq({x, y}) /\ Len(Append(<<x>>, y)) = 2
  BY <1>1
<1>3. Append(<<x>>, y)[1] = x /\ Append(<<x>>, y)[2] = y
  BY <1>1
<1>4. Append(<<x>>, y) = <<x, y>>
  <2>1. Len(Append(<<x>>, y)) = Len(<<x, y>>)
    BY <1>2
  <2>2. \A i \in 1..Len(Append(<<x>>, y)) : Append(<<x>>, y)[i] = <<x, y>>[i]
    BY <1>2, <1>3
  <2> QED BY <1>1, <1>2, <2>1, <2>2, SeqEqual
<1>5. Head(<<y>>) = y /\ Tail(<<y>>) = <<>>
  OBVIOUS
<1> QED
  BY <1>4, <1>5

LEMMA DeliverKeeps == SessionInv /\ Deliver => SessionInv'
<1> SUFFICES ASSUME SessionInv, Deliver PROVE SessionInv'
  OBVIOUS
<1>1. /\ wire # <<>> /\ buf' = Append(buf, Head(wire)) /\ wire' = Tail(wire)
      /\ UNCHANGED <<bmcVars, step, op, ctx, inbox, conns, last, floors>>
  BY DEF Deliver
<1>2. Out /\ Me \notin dead /\ inbox = <<>> /\ AnswerSplit
  BY <1>1 DEF SessionInv, Pipe
<1>3. Answers' = Answers /\ Out'
  BY <1>1, <1>2 DEF Answers, Reports, Seen, ShownFloor, Out, bmcVars
<1>4. AnswerSplit'
  <2>1. CASE buf = <<>> /\ wire = <<Prompt>> /\ op.kind # "show"
    <3>1. buf' = <<Prompt>> /\ wire' = <<>>
      BY <1>1, <2>1
    <3> QED BY <1>3, <2>1, <3>1 DEF AnswerSplit, Answers
  <2>2. CASE op.kind = "show" /\ \E s \in Reports(Me.ilo) :
                buf = <<>> /\ wire = <<Listing(s), Prompt>>
    <3>1. PICK s \in Reports(Me.ilo) : buf = <<>> /\ wire = <<Listing(s), Prompt>>
      BY <2>2
    <3>2. buf' = <<Listing(s)>> /\ wire' = <<Prompt>>
      BY <1>1, <3>1
    <3>3. s \in Reports(Me.ilo)' /\ op' = op
      BY <1>1 DEF Reports, Seen, ShownFloor, bmcVars
    <3> QED BY <2>2, <3>2, <3>3 DEF AnswerSplit
  <2>3. CASE op.kind = "show" /\ \E s \in Reports(Me.ilo) :
                buf = <<Listing(s)>> /\ wire = <<Prompt>>
    <3>1. PICK s \in Reports(Me.ilo) : buf = <<Listing(s)>> /\ wire = <<Prompt>>
      BY <2>3
    <3>2. buf' = <<Listing(s), Prompt>> /\ wire' = <<>>
      BY <1>1, <3>1, TupleFacts
    <3>3. buf' \in Answers
      BY <2>3, <3>1, <3>2 DEF Answers
    <3> QED BY <1>3, <3>2, <3>3 DEF AnswerSplit
  <2> QED BY <1>1, <1>2, <2>1, <2>2, <2>3 DEF AnswerSplit, Answers
<1>5. SessionTypeOK'
  <2>1. buf' \in Seq(Piece) /\ wire' \in Seq(Piece)
    BY <1>1 DEF SessionInv, SessionTypeOK, PipeTypeOK
  <2>2. PipeTypeOK'
    BY <1>1, <2>1 DEF SessionInv, SessionTypeOK, PipeTypeOK
  <2> QED BY <1>1, <2>2, SameSessionTypes DEF SessionInv, SessionTypeOK
<1>6. Pipe' /\ KnownFloors'
  BY <1>1, <1>2, <1>3, <1>4 DEF SessionInv, Pipe, KnownFloors, Carried, bmcVars
<1>7. Phases' /\ NoConnectionLeaks'
  BY <1>1 DEF SessionInv, Phases, NoConnectionLeaks, bmcVars
<1> QED
  BY <1>5, <1>6, <1>7 DEF SessionInv

LEMMA AnswerIsOwn ==
  \A a \in Answers : \A i \in DOMAIN a : ~a[i].earlier
<1>1. \A s : \A i \in DOMAIN <<Listing(s), Prompt>> : ~<<Listing(s), Prompt>>[i].earlier
  BY DEF Listing, Prompt
<1>2. \A i \in DOMAIN <<Prompt>> : ~<<Prompt>>[i].earlier
  BY DEF Prompt
<1> QED
  BY <1>1, <1>2 DEF Answers

LEMMA OwnAnswers == SessionInv => AnswersBelongToTheirCommand
<1> SUFFICES ASSUME SessionInv, Out
             PROVE  /\ \A i \in DOMAIN buf : ~buf[i].earlier
                    /\ \A i \in DOMAIN wire : ~wire[i].earlier
                    /\ \A i \in DOMAIN inbox : ~inbox[i].earlier
  BY DEF AnswersBelongToTheirCommand, Out
<1>1. CASE inbox = <<[earlier |-> FALSE, op |-> op]>> /\ buf = <<>> /\ wire = <<>>
  BY <1>1
<1>2. CASE inbox = <<>> /\ AnswerSplit
  BY <1>2, AnswerIsOwn DEF AnswerSplit, Listing, Prompt
<1>3. CASE inbox = <<>> /\ wire = <<>> /\ \A i \in DOMAIN buf : ~buf[i].earlier
  BY <1>3
<1> QED
  BY <1>1, <1>2, <1>3 DEF SessionInv, Pipe

LEMMA RestartKeeps == SessionInv /\ Restart => SessionInv'
<1> SUFFICES ASSUME SessionInv, Restart PROVE SessionInv'
  OBVIOUS
<1>1. /\ BmcRestart(Me.ilo) /\ (Out => ~HasPrompt)
      /\ wire' = <<>> /\ inbox' = <<>> /\ floors' = fanMin'
      /\ UNCHANGED <<step, op, ctx, buf, conns, last>>
  BY DEF Restart, Out
<1>2. BmcTypeOK'
  BY <1>1, BmcAssumption, ConstantFacts DEF BmcRestart, SessionInv, SessionTypeOK, BmcTypeOK
<1>3. CallTypeOK' /\ PipeTypeOK'
  BY <1>1, <1>2 DEF SessionInv, SessionTypeOK, CallTypeOK, PipeTypeOK, BmcTypeOK
<1>4. Out' = Out /\ HasPrompt' = HasPrompt /\ sess' = sess
  BY <1>1 DEF Out, HasPrompt, BmcRestart
<1>5. Out => Me \in dead' /\ Me \in sess
  <2>1. Out => Me \in sess
    BY DEF SessionInv, Phases, Out, Running, Waiting
  <2> QED BY <1>1, <2>1 DEF BmcRestart
<1>6. Pipe'
  <2>1. Out => \A i \in DOMAIN buf : ~buf[i].earlier
    BY OwnAnswers DEF AnswersBelongToTheirCommand, Out
  <2> QED BY <1>1, <1>4, <1>5, <2>1 DEF Pipe
<1>7. KnownFloors'
  BY <1>1, <1>4, <1>5 DEF KnownFloors, Carried
<1>8. Phases' /\ NoConnectionLeaks'
  BY <1>1, <1>4 DEF SessionInv, Phases, NoConnectionLeaks
<1> QED
  BY <1>2, <1>3, <1>6, <1>7, <1>8 DEF SessionInv, SessionTypeOK

LEMMA DropKeeps == SessionInv /\ (Drop \/ Settle) => SessionInv'
<1> SUFFICES ASSUME SessionInv, Drop \/ Settle PROVE SessionInv'
  OBVIOUS
<1>1. /\ step = "idle" /\ wire = <<>> /\ inbox = <<>> /\ ~Out
      /\ UNCHANGED <<fanMin, honours, sess, restarts, step, op, ctx, buf, conns, last, floors>>
  BY DEF Drop, HangUp, Settle, SessionInv, Pipe, Out, Waiting, pipeVars, sessVars
<1>2. wire' = <<>> /\ inbox' = <<>> /\ ~Out'
  BY <1>1 DEF Drop, Settle, Out, pipeVars
<1>3. BmcTypeOK'
  BY BmcAssumption DEF Drop, HangUp, Settle, SessionInv, SessionTypeOK, BmcTypeOK, sessVars
<1>4. SessionTypeOK'
  BY <1>1, <1>2, <1>3 DEF SessionInv, SessionTypeOK, CallTypeOK, PipeTypeOK
<1>5. Pipe' /\ KnownFloors'
  BY <1>1, <1>2 DEF SessionInv, Pipe, KnownFloors, Carried
<1>6. Phases' /\ NoConnectionLeaks'
  BY <1>1 DEF SessionInv, Phases, NoConnectionLeaks
<1> QED
  BY <1>4, <1>5, <1>6 DEF SessionInv

LEMMA CancelKeeps == SessionInv /\ Cancel => SessionInv'
<1> SUFFICES ASSUME SessionInv, Cancel PROVE SessionInv'
  OBVIOUS
<1>1. ctx' = "cancelled" /\ UNCHANGED <<bmcVars, step, op, pipeVars, conns, last, floors>>
  BY DEF Cancel
<1> USE <1>1 DEF bmcVars, pipeVars
<1>2. SessionTypeOK'
  <2>1. CallTypeOK'
    BY DEF SessionInv, SessionTypeOK, CallTypeOK
  <2> QED BY <2>1, SameSessionTypes DEF SessionInv, SessionTypeOK
<1>3. Out' = Out /\ HasPrompt' = HasPrompt /\ AnswerSplit' = AnswerSplit
  BY DEF Out, HasPrompt, AnswerSplit, Answers, Reports, Seen, ShownFloor
<1>4. Pipe' /\ KnownFloors' /\ Phases'
  BY <1>3 DEF SessionInv, Pipe, KnownFloors, Carried, Phases
<1>5. NoConnectionLeaks'
  BY DEF SessionInv, NoConnectionLeaks
<1> QED
  BY <1>2, <1>4, <1>5 DEF SessionInv

LEMMA SessionInvInit == Init => SessionInv
<1> SUFFICES ASSUME Init PROVE SessionInv
  OBVIOUS
<1>1. SessionTypeOK
  <2>1. BmcTypeOK
    BY BmcAssumption DEF Init, BmcInit, BmcTypeOK
  <2>2. CallTypeOK
    BY <2>1, ConstantFacts DEF Init, CallTypeOK, BmcTypeOK
  <2>3. PipeTypeOK
    BY DEF Init, PipeTypeOK
  <2> QED BY <2>1, <2>2, <2>3 DEF SessionTypeOK
<1>2. Pipe /\ KnownFloors /\ Phases
  BY ConstantFacts DEF Init, BmcInit, Pipe, Out, Waiting, KnownFloors, Carried, Phases, Running,
                       Connecting
<1>3. NoConnectionLeaks
  BY DEF Init, BmcInit, NoConnectionLeaks
<1> QED
  BY <1>1, <1>2, <1>3 DEF SessionInv

LEMMA SessionInvStep == SessionInv /\ [Next]_vars => SessionInv'
<1> SUFFICES ASSUME SessionInv, [Next]_vars PROVE SessionInv'
  OBVIOUS
<1>1. CASE UNCHANGED vars
  <2> USE <1>1 DEF vars, bmcVars, pipeVars
  <2>1. SessionTypeOK'
    BY SameSessionTypes DEF SessionInv, SessionTypeOK
  <2>2. Out' = Out /\ HasPrompt' = HasPrompt /\ AnswerSplit' = AnswerSplit
    BY DEF Out, HasPrompt, AnswerSplit, Answers, Reports, Seen, ShownFloor
  <2>3. Pipe' /\ KnownFloors' /\ Phases'
    BY <2>2 DEF SessionInv, Pipe, KnownFloors, Carried, Phases
  <2>4. NoConnectionLeaks'
    BY DEF SessionInv, NoConnectionLeaks
  <2> QED BY <2>1, <2>3, <2>4 DEF SessionInv
<1>2. CASE Begin \/ BeginNoop \/ Dial \/ Handshake \/ OpenShell \/ CloseSession
  BY <1>2, BeginKeeps, BeginNoopKeeps, ConnectingKeeps, OpenShellKeeps, CloseSessionKeeps
<1>3. CASE Command
  BY <1>3, WriteKeeps, PauseKeeps, LookKeeps, LookAgainKeeps, GiveUpKeeps DEF Command
<1>4. CASE Shell \/ Restart \/ Drop \/ Cancel \/ Settle
  BY <1>4, ExecuteKeeps, DeliverKeeps, RestartKeeps, DropKeeps, CancelKeeps DEF Shell
<1> QED
  BY <1>1, <1>2, <1>3, <1>4 DEF Next

(***************************************************************************)
(* A command reads no answer but its own: when it is written, everything   *)
(* an earlier one was answered has been read or was lost with its session. *)
(***************************************************************************)
THEOREM OwnAnswersOnly == Spec => []AnswersBelongToTheirCommand
<1> QED
  BY SessionInvInit, SessionInvStep, OwnAnswers, PTL DEF Spec

(***************************************************************************)
(* No error path of Connect or of a command leaks a connection.            *)
(***************************************************************************)
THEOREM NoLeaks == Spec => []NoConnectionLeaks
<1>1. SessionInv => NoConnectionLeaks
  BY DEF SessionInv
<1> QED
  BY <1>1, SessionInvInit, SessionInvStep, PTL DEF Spec

(***************************************************************************)
(* Type correctness of the client with its pipe and the BMC.               *)
(***************************************************************************)
THEOREM SessionTypes == Spec => []SessionTypeOK
<1>1. SessionInv => SessionTypeOK
  BY DEF SessionInv
<1> QED
  BY <1>1, SessionInvInit, SessionInvStep, PTL DEF Spec
-----------------------------------------------------------------------------
(***************************************************************************)
(* The refinement: each step is a call of module BmcCalls, or none.        *)
(***************************************************************************)
Stutters == UNCHANGED Calls!callVars

LEMMA CallNames ==
  /\ Calls!NoSpeeds = NoSpeeds
  /\ \A kind, ok, s : Calls!Return(kind, ok, s) = [kind |-> kind, ok |-> ok, speeds |-> s]
BY DEF Calls!NoSpeeds, NoSpeeds, Calls!Return

\* A step that leaves what the caller knows alone.
LEMMA QuietStep ==
  ASSUME UNCHANGED <<floors, spun, honours, faults, restarts, last>>,
         Held(sess)' = Held(sess), Held(dead)' = Held(dead)
  PROVE  Stutters
BY DEF Stutters, Calls!callVars, Calls!bmcVars

LEMMA QuietSteps ==
  ASSUME SessionInv,
         Begin \/ LookAgain \/ Execute \/ Deliver \/ Cancel
  PROVE  Stutters
<1>1. UNCHANGED <<floors, spun, honours, faults, restarts, last, sess, dead>>
  BY DEF Begin, LookAgain, Goes, Execute, Deliver, Cancel, bmcVars, sessVars
<1>2. CASE Begin
  <2>1. op.kind # "connect" /\ (op'.kind = "connect" => Me \notin sess /\ Me \notin dead)
    BY <1>2, ConstantFacts DEF Begin, SessionInv, Phases, SessionTypeOK, BmcTypeOK
  <2> QED BY <1>1, <2>1, QuietStep DEF Held
<1>3. CASE UNCHANGED op
  BY <1>1, <1>3, QuietStep DEF Held
<1> QED
  BY <1>2, <1>3 DEF LookAgain, Goes, Execute, Deliver, Cancel

\* A failed connect.
LEMMA ConnectFails ==
  ASSUME op.kind = "connect", Returns(FALSE, NoSpeeds), UNCHANGED bmcSide, floors' = floors,
         sess' = Held(sess), dead' = Held(dead), NoOp.kind # "connect", Me \notin sess'
  PROVE  Calls!ConnectCall(Me)
<1>1. Held(sess)' = Held(sess) /\ Held(dead)' = Held(dead) /\ Me \notin Held(sess)
  BY DEF Returns, Held
<1>2. Calls!Connect(Me, TRUE, FALSE)
  BY <1>1 DEF Calls!Connect, Calls!Fails, bmcSide
<1>3. last' = Calls!Return("connect", FALSE, Calls!NoSpeeds)
  BY CallNames DEF Returns
<1> QED
  BY <1>2, <1>3 DEF Calls!ConnectCall, bmcSide

\* A failed command: carried out before its session was given up, or not.
LEMMA CommandFails ==
  ASSUME SessionInv, step \in Running, closeLocked, Returns(FALSE, NoSpeeds),
         UNCHANGED bmcSide
  PROVE  Calls!ConnectCall(Me) \/ Calls!SetCall(Me) \/ Calls!ShowCall(Me)
<1>1. /\ Me \in sess /\ op.kind \in {"connect", "set", "show"} /\ step # "idle"
      /\ sess' = sess \ {Me} /\ dead' = dead \ {Me} /\ op' = NoOp /\ NoOp.kind = "none"
      /\ last' = [kind |-> op.kind, ok |-> FALSE, speeds |-> NoSpeeds]
      /\ floors' = fanMin
  BY SessionFacts, ConstantFacts
     DEF SessionInv, Phases, Running, Waiting, closeLocked, Close, Returns
<1>2. op.kind # "set" => floors' = floors
  BY <1>1 DEF SessionInv, KnownFloors, Carried
<1>3. CASE op.kind = "connect"
  BY <1>1, <1>2, <1>3, ConnectFails DEF Held
<1>4. CASE op.kind # "connect"
  <2>1. /\ Held(sess) = sess /\ Held(dead) = dead
        /\ Held(sess)' = sess \ {Me} /\ Held(dead)' = dead \ {Me}
    BY <1>1, <1>4 DEF Held
  <2>2. Calls!AfterFailure(Me)
    BY <2>1 DEF Calls!AfterFailure, Calls!Close
  <2>3. \A out \in FaultKinds : (Me \in dead => out = "unsent") => Calls!Run(Me, TRUE, out)
    BY <1>1, <2>1, <2>2 DEF Calls!Run, Calls!Fails, bmcSide
  <2>4. "unsent" \in FaultKinds /\ "unanswered" \in FaultKinds
    BY SessionAssumption
  <2>5. CASE op.kind = "show"
    <3>1. Calls!FanSpeeds(Me, TRUE, Calls!NoSpeeds, "unsent")
      BY <1>2, <2>3, <2>4, <2>5 DEF Calls!FanSpeeds, bmcSide
    <3>2. last' = Calls!Return("show", "unsent" = "ok",
                               IF "unsent" = "ok" THEN Calls!NoSpeeds ELSE Calls!NoSpeeds)
      BY <1>1, <2>5, CallNames
    <3> QED BY <2>4, <3>1, <3>2, Zenon DEF Calls!ShowCall
  <2>6. CASE op.kind = "set"
    <3>1. PICK out \in {"unsent", "unanswered"} : out = "unanswered" <=> Carried
      BY DEF Carried
    <3>2. op.fan \in Fan /\ op.raw \in Raws
      BY <1>1, <2>6, ConstantFacts DEF SessionInv, Phases, SessionTypeOK, CallTypeOK
    <3>3. Calls!Run(Me, TRUE, out)
      BY <2>3, <2>4, <3>1 DEF Carried
    <3>4. floors' = IF out # "unsent" /\ Me.ilo \in honours
                    THEN [floors EXCEPT ![Me.ilo][op.fan] = op.raw] ELSE floors
      BY <1>1, <3>1 DEF SessionInv, KnownFloors, Carried
    <3>5. Calls!SetFanMin(Me, TRUE, op.fan, op.raw, out)
      BY <3>3, <3>4 DEF Calls!SetFanMin, bmcSide
    <3>6. last' = Calls!Return("set", out = "ok", Calls!NoSpeeds)
      BY <1>1, <2>6, <3>1, CallNames
    <3> QED BY <2>4, <3>1, <3>2, <3>5, <3>6 DEF Calls!SetCall
  <2> QED BY <1>1, <1>4, <2>5, <2>6
<1> QED
  BY <1>3, <1>4

\* A call that returns what it came for.
LEMMA CallSucceeds ==
  ASSUME SessionInv, Look, HasPrompt
  PROVE  Calls!ConnectCall(Me) \/ Calls!SetCall(Me) \/ Calls!ShowCall(Me)
<1>1. /\ step = "looking" /\ UNCHANGED <<bmcVars, pipeVars, conns>>
      /\ Returns(TRUE, IF op.kind = "show" THEN Parsed ELSE NoSpeeds)
  BY DEF Look
<1>2. Out /\ Me \in sess /\ op.kind \in {"connect", "set", "show"}
  BY <1>1, SessionFacts DEF Out, Waiting, SessionInv, Phases, Running
<1>3. inbox = <<>> /\ Me \notin dead /\ buf \in Answers
  BY <1>2, PromptIsLast
<1>4. /\ op' = NoOp /\ NoOp.kind = "none" /\ floors' = fanMin
      /\ UNCHANGED <<fanMin, spun, honours, sess, dead, faults, restarts>>
  BY <1>1, ConstantFacts DEF Returns, bmcVars
<1>5. op.kind # "set" => floors' = floors
  BY <1>4 DEF SessionInv, KnownFloors, Carried
<1>6. CASE op.kind = "connect"
  <2>1. /\ Held(sess) = sess \ {Me} /\ Held(sess)' = sess
        /\ Held(dead) = dead /\ Held(dead)' = dead
    BY <1>3, <1>4, <1>6 DEF Held
  <2>2. Calls!Connect(Me, FALSE, TRUE)
    BY <1>2, <1>4, <2>1 DEF Calls!Connect
  <2>3. last' = Calls!Return("connect", TRUE, Calls!NoSpeeds)
    BY <1>1, <1>6, CallNames DEF Returns
  <2> QED BY <1>4, <1>5, <1>6, <2>2, <2>3 DEF Calls!ConnectCall
<1>7. CASE op.kind # "connect"
  <2>1. /\ Held(sess) = sess /\ Held(dead) = dead
        /\ Held(sess)' = sess /\ Held(dead)' = dead
    BY <1>4, <1>7 DEF Held
  <2>2. Calls!Run(Me, FALSE, "ok")
    BY <1>2, <1>3, <1>4, <2>1 DEF Calls!Run, Calls!sessVars
  <2>3. CASE op.kind = "show"
    <3>1. Parsed \in Reports(Me.ilo)
      BY <1>3, <2>3, ParsedAnswer
    <3>2. Calls!Reports(Me.ilo) = Reports(Me.ilo)
      BY <1>4, <1>5, <2>3 DEF Calls!Reports, Calls!Seen, Calls!ShownFloor, Reports, Seen,
           ShownFloor, Calls!RawToPct, Calls!Pct, Calls!RawStep, RawToPct, Pct, RawStep
    <3>3. Calls!FanSpeeds(Me, FALSE, Parsed, "ok")
      BY <1>4, <1>5, <2>2, <2>3, <3>1, <3>2 DEF Calls!FanSpeeds
    <3>4. last' = Calls!Return("show", TRUE, Parsed)
      BY <1>1, <2>3, CallNames DEF Returns
    <3> QED BY <3>1, <3>2, <3>3, <3>4 DEF Calls!ShowCall
  <2>4. CASE op.kind = "set"
    <3>1. op.fan \in Fan /\ op.raw \in Raws
      BY <1>1, <2>4, ConstantFacts DEF SessionInv, Phases, SessionTypeOK, CallTypeOK
    <3>2. floors' = IF Me.ilo \in honours
                    THEN [floors EXCEPT ![Me.ilo][op.fan] = op.raw] ELSE floors
      BY <1>2, <1>3, <1>4, <2>4 DEF SessionInv, KnownFloors, Carried
    <3>3. Calls!SetFanMin(Me, FALSE, op.fan, op.raw, "ok")
      BY <1>4, <2>2, <3>2 DEF Calls!SetFanMin
    <3>4. last' = Calls!Return("set", TRUE, Calls!NoSpeeds)
      BY <1>1, <2>4, CallNames DEF Returns
    <3> QED BY <3>1, <3>3, <3>4 DEF Calls!SetCall
  <2> QED BY <1>2, <1>7, <2>3, <2>4
<1> QED
  BY <1>6, <1>7

\* The steps of a call before it has a session.
LEMMA ConnectSteps ==
  ASSUME SessionInv, Dial \/ Handshake \/ OpenShell
  PROVE  Stutters \/ Calls!ConnectCall(Me)
<1>1. /\ UNCHANGED bmcSide /\ op.kind = "connect" /\ fanMin = floors
      /\ Me \notin sess /\ Me \notin dead /\ NoOp.kind = "none"
  BY ConstantFacts DEF Dial, Handshake, OpenShell, SessionInv, Phases, Connecting, KnownFloors,
       Carried, SessionTypeOK, BmcTypeOK, bmcVars, bmcSide
<1>2. Held(sess) = sess /\ Held(dead) = dead
  BY <1>1 DEF Held
<1>3. CASE Returns(FALSE, NoSpeeds) /\ UNCHANGED sessVars
  <2>1. floors' = floors /\ sess' = Held(sess) /\ dead' = Held(dead) /\ Me \notin sess'
    BY <1>1, <1>2, <1>3 DEF Returns, sessVars
  <2> QED BY <1>1, <1>3, <2>1, ConnectFails
<1>4. CASE /\ \E to : Goes(to)
           /\ sess' = sess \/ sess' = sess \cup {Me}
           /\ UNCHANGED dead
  <2>1. op' = op /\ Held(sess)' = Held(sess) /\ Held(dead)' = Held(dead)
    BY <1>1, <1>2, <1>4 DEF Goes, Held, SessionTypeOK
  <2>2. UNCHANGED <<floors, spun, honours, faults, restarts, last>>
    BY <1>1, <1>4 DEF Goes, bmcSide
  <2> QED BY <2>1, <2>2, QuietStep
<1> QED
  BY <1>3, <1>4 DEF Dial, Handshake, OpenShell, bmcVars, sessVars

LEMMA NoopStep ==
  ASSUME SessionInv, BeginNoop
  PROVE  Calls!ConnectCall(Me) \/ Calls!SetCall(Me) \/ Calls!ShowCall(Me)
<1>1. PICK o \in Ops : /\ o.kind = "connect" <=> Me \in sess
                       /\ last' = [kind |-> o.kind, ok |-> o.kind = "connect",
                                   speeds |-> NoSpeeds]
  BY DEF BeginNoop
<1>2. /\ step = "idle" /\ op.kind = "none"
      /\ UNCHANGED <<fanMin, spun, honours, sess, dead, faults, restarts, op, floors>>
  BY ConstantFacts DEF BeginNoop, bmcVars, SessionInv, Phases
<1>3. /\ Held(sess) = sess /\ Held(dead) = dead
      /\ Held(sess)' = sess /\ Held(dead)' = dead
  BY <1>2 DEF Held
<1>4. o.kind \in {"connect", "set", "show"} /\ (o.kind = "set" => o.fan \in Fan /\ o.raw \in Raws)
  BY <1>1, ConstantFacts
<1>5. CASE o.kind = "connect"
  <2>1. Calls!Connect(Me, FALSE, TRUE)
    BY <1>1, <1>2, <1>3, <1>5 DEF Calls!Connect
  <2>2. last' = Calls!Return("connect", TRUE, Calls!NoSpeeds)
    BY <1>1, <1>5, CallNames
  <2> QED BY <1>2, <2>1, <2>2 DEF Calls!ConnectCall
<1>6. CASE o.kind # "connect"
  <2>1. Calls!Run(Me, TRUE, "unsent")
    BY <1>1, <1>2, <1>3, <1>6 DEF Calls!Run, Calls!sessVars
  <2>2. CASE o.kind = "show"
    <3>1. Calls!FanSpeeds(Me, TRUE, Calls!NoSpeeds, "unsent")
      BY <1>2, <2>1 DEF Calls!FanSpeeds
    <3>2. last' = Calls!Return("show", "unsent" = "ok",
                               IF "unsent" = "ok" THEN Calls!NoSpeeds ELSE Calls!NoSpeeds)
      BY <1>1, <2>2, CallNames
    <3> QED BY <3>1, <3>2, Zenon DEF Calls!ShowCall
  <2>3. CASE o.kind = "set"
    <3>1. Calls!SetFanMin(Me, TRUE, o.fan, o.raw, "unsent")
      BY <1>2, <2>1 DEF Calls!SetFanMin
    <3>2. last' = Calls!Return("set", "unsent" = "ok", Calls!NoSpeeds)
      BY <1>1, <2>3, CallNames
    <3> QED BY <1>4, <2>3, <3>1, <3>2, Zenon DEF Calls!SetCall
  <2> QED BY <1>4, <1>6, <2>2, <2>3
<1> QED
  BY <1>5, <1>6

\* What is not a call: a closed session, a reset BMC, a dropped session, an interval.
LEMMA OtherSteps ==
  ASSUME SessionInv, CloseSession \/ Restart \/ Drop \/ Settle
  PROVE  Calls!Next
<1>1. op = NoOp => Held(sess) = sess /\ Held(dead) = dead /\ fanMin = floors
  BY ConstantFacts DEF Held, SessionInv, KnownFloors, Carried
<1>2. CASE CloseSession \/ Drop \/ Settle
  <2>1. op = NoOp /\ op' = NoOp
    BY <1>2 DEF CloseSession, Drop, Settle, SessionInv, Phases
  <2>2. Held(sess)' = sess' /\ Held(dead)' = dead'
    BY <2>1, ConstantFacts DEF Held
  <2>3. CASE CloseSession
    <3>1. Calls!CloseCall(Me)
      BY <1>1, <2>1, <2>2, <2>3 DEF CloseSession, closeLocked, Close, Calls!CloseCall,
                                    Calls!Close, bmcSide
    <3> QED BY <3>1 DEF Calls!Next
  <2>4. CASE Drop
    <3>1. Calls!HangUp(Me) /\ Me \in Held(sess) /\ last' = last
      BY <1>1, <2>1, <2>2, <2>4 DEF Drop, HangUp, Calls!HangUp
    <3> QED BY <3>1 DEF Calls!Next
  <2>5. CASE Settle
    <3>1. Calls!Settle
      BY <1>1, <2>1, <2>2, <2>5 DEF Settle, Calls!Settle, Calls!sessVars, sessVars
    <3> QED BY <3>1 DEF Calls!Next
  <2> QED BY <1>2, <2>3, <2>4, <2>5
<1>3. CASE Restart
  <2>1. /\ BmcRestart(Me.ilo) /\ floors' = fanMin' /\ op' = op /\ last' = last
    BY <1>3 DEF Restart
  <2>2. floors' = [floors EXCEPT ![Me.ilo] = [f \in Fan |-> None]]
    <3>1. fanMin' = [fanMin EXCEPT ![Me.ilo] = [f \in Fan |-> None]]
      BY <2>1 DEF BmcRestart
    <3>2. fanMin = floors \/ fanMin = [floors EXCEPT ![Me.ilo][op.fan] = op.raw]
      BY DEF SessionInv, KnownFloors
    <3> QED BY <2>1, <3>1, <3>2, ConstantFacts DEF SessionInv, SessionTypeOK, CallTypeOK
  <2>3. /\ Held(sess)' = Held(sess)
        /\ Held(dead)' = Held(dead) \cup {c \in Held(sess) : c.ilo = Me.ilo}
    BY <2>1 DEF Held, BmcRestart
  <2>4. Calls!BmcRestart(Me.ilo)
    BY <2>1, <2>2, <2>3 DEF BmcRestart, Calls!BmcRestart
  <2> QED BY <2>1, <2>4, ConstantFacts DEF Calls!Next
<1> QED
  BY <1>2, <1>3

LEMMA StepIsCall == SessionInv /\ [Next]_vars => [Calls!Next]_(Calls!callVars)
<1> SUFFICES ASSUME SessionInv, [Next]_vars PROVE Calls!Next \/ Stutters
  BY DEF Stutters
<1>1. CASE UNCHANGED vars
  BY <1>1, QuietStep DEF vars, bmcVars, Held
<1>2. Calls!ConnectCall(Me) \/ Calls!SetCall(Me) \/ Calls!ShowCall(Me) => Calls!Next
  BY DEF Calls!Next
<1>3. CASE Begin \/ LookAgain \/ Execute \/ Deliver \/ Cancel
  BY <1>3, QuietSteps
<1>4. CASE Dial \/ Handshake \/ OpenShell
  BY <1>2, <1>4, ConnectSteps
<1>5. CASE BeginNoop
  BY <1>2, <1>5, NoopStep
<1>6. CASE CloseSession \/ Restart \/ Drop \/ Settle
  BY <1>6, OtherSteps
<1>7. CASE Write \/ Pause \/ GiveUp
  <2>1. CASE closeLocked /\ Returns(FALSE, NoSpeeds) /\ UNCHANGED bmcSide
    BY <1>2, <1>7, <2>1, CommandFails DEF Write, Pause, GiveUp, Running, Waiting
  <2>2. CASE UNCHANGED <<sessVars, bmcSide>> /\ \E to : Goes(to)
    BY <2>2, QuietStep DEF sessVars, bmcSide, Goes, Held
  <2> QED BY <1>7, <2>1, <2>2 DEF Write, Pause, GiveUp, TearDown
<1>8. CASE Look
  <2>1. CASE HasPrompt
    BY <1>2, <1>8, <2>1, CallSucceeds
  <2>2. CASE ~HasPrompt
    BY <1>8, <2>2, QuietStep DEF Look, Goes, bmcVars, Held
  <2> QED BY <2>1, <2>2
<1> QED
  BY <1>1, <1>3, <1>4, <1>5, <1>6, <1>7, <1>8 DEF Next, Command, Shell

(***************************************************************************)
(* The client implements the calls the controller is built on: whatever    *)
(* the shell, the wire and the BMC do, every call is as if made in one     *)
(* moment.                                                                 *)
(***************************************************************************)
THEOREM ClientImplementsCalls == Spec => ClientCallsAreAtomic
<1>1. Init => Calls!Init
  BY ConstantFacts, CallNames DEF Init, Calls!Init, BmcInit, Calls!BmcInit, Held
<1>2. Spec => []SessionInv
  BY SessionInvInit, SessionInvStep, PTL DEF Spec
<1> QED
  BY <1>1, <1>2, StepIsCall, PTL DEF Spec, ClientCallsAreAtomic, Calls!Spec
=============================================================================
