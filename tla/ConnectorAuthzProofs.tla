------------------------ MODULE ConnectorAuthzProofs ------------------------
(***************************************************************************)
(* Proofs about the authorization contract, for every freshness bound,     *)
(* queue size and number of streams, reports, faults and renewals.         *)
(***************************************************************************)
EXTENDS ConnectorAuthz, TLAPS

-----------------------------------------------------------------------------
(* Type correctness *)

\* A session has a stream and a call in progress has a report.
SessionShape ==
    /\ mode = "session" => stream # NoStream
    /\ opening # NoStream => openSeq # NoSeq

TypeInv == TypeOK /\ SessionShape

\* transition keeps a tracker well typed.
LEMMA TransitionType ==
    ASSUME NEW t \in Tracker, NEW to \in ServingState
    PROVE  transition(t, to) \in Tracker
BY DEF transition, Tracker, Instant, Never

\* expire keeps a tracker well typed.
LEMMA ExpireType ==
    ASSUME NEW t \in Tracker, NEW at \in Nat
    PROVE  expire(t, at) \in Tracker
<1> DEFINE u == [t EXCEPT !.lost_at = t.deadline]
<1>1. u \in Tracker
  BY DEF Tracker
<1>2. transition(u, "Disabled") \in Tracker
  BY <1>1, TransitionType DEF ServingState
<1> QED BY <1>2 DEF expire

\* stream_up keeps a tracker well typed.
LEMMA StreamUpType ==
    ASSUME NEW t \in Tracker, NEW at \in Nat
    PROVE  stream_up(t, at) \in Tracker
<1>1. expire(t, at) \in Tracker
  BY ExpireType
<1>2. transition(expire(t, at), "Recovering") \in Tracker
  BY <1>1, TransitionType DEF ServingState
<1> QED BY <1>1, <1>2 DEF stream_up

\* stream_down keeps a tracker well typed.
LEMMA StreamDownType ==
    ASSUME NEW t \in Tracker, NEW at \in Nat
    PROVE  stream_down(t, at) \in Tracker
<1> DEFINE e == expire(t, at)
<1> DEFINE u == [e EXCEPT !.lost_at = at]
<1>1. e \in Tracker
  BY ExpireType
<1>2. u \in Tracker
  BY <1>1 DEF Tracker, Instant
<1>3. transition(u, "Disabled") \in Tracker /\ transition(e, "ServingDisconnected") \in Tracker
  BY <1>1, <1>2, TransitionType DEF ServingState
<1> QED BY <1>1, <1>3 DEF stream_down

\* next_seq keeps a tracker well typed while the bound on seqs is not reached.
LEMMA NextSeqType ==
    ASSUME NEW t \in Tracker, t.last_assigned < MaxSeq
    PROVE  next_seq(t) \in Tracker
BY ConstantsAssumption DEF next_seq, Tracker

\* record_sent keeps a tracker well typed.
LEMMA RecordSentType ==
    ASSUME NEW t \in Tracker, NEW k \in Seqs, NEW at \in Nat
    PROVE  record_sent(t, k, at) \in Tracker
<1> DEFINE inserted == [t.sent EXCEPT ![k] = IF @ = Never THEN at ELSE @]
<1> DEFINE kept == [j \in Seqs |->
            IF inserted[j] # Never /\ at < inserted[j] + H THEN inserted[j] ELSE Never]
<1>1. inserted \in [Seqs -> Instant]
  BY DEF Tracker, Instant
<1>2. kept \in [Seqs -> Instant]
  BY <1>1 DEF Instant
<1>3. record_sent(t, k, at) = [t EXCEPT !.sent = kept]
  BY DEF record_sent
<1> HIDE DEF kept
<1> QED BY <1>2, <1>3 DEF Tracker

\* on_ack keeps a tracker well typed: an accepted seq is a seq.
LEMMA OnAckType ==
    ASSUME NEW t \in Tracker, NEW k \in 0..MaxSeq, NEW capable \in BOOLEAN, NEW at \in Nat
    PROVE  on_ack(t, k, capable, at) \in Tracker
<1> DEFINE e == expire(t, at)
<1> DEFINE kept == [j \in Seqs |-> IF j > k THEN e.sent[j] ELSE Never]
<1> DEFINE u == [e EXCEPT !.highest_accepted = k, !.sent = kept,
                          !.deadline = DeadlineOf(e, k, at)]
<1>1. e \in Tracker
  BY ExpireType
<1> HIDE DEF e
<1>2. kept \in [Seqs -> Instant]
  BY <1>1 DEF Tracker, Instant
<1>3. ASSUME Accepts(e, k, capable, at) PROVE DeadlineOf(e, k, at) \in Instant
  <2>1. k \in Seqs
    BY <1>1, <1>3, ConstantsAssumption DEF Accepts, Tracker, Seqs
  <2>2. e.sent[k] \in Nat /\ e.deadline \in Instant
    BY <1>1, <1>3, <2>1 DEF Accepts, Tracker, Instant
  <2> QED BY <2>2, ConstantsAssumption DEF DeadlineOf, Instant
<1>4. ASSUME Accepts(e, k, capable, at) PROVE transition(u, "Serving") \in Tracker
  <2> HIDE DEF kept
  <2>1. u \in Tracker
    BY <1>1, <1>2, <1>3, <1>4 DEF Tracker
  <2> QED BY <2>1, TransitionType DEF ServingState
<1>5. on_ack(t, k, capable, at) =
        IF Accepts(e, k, capable, at) THEN transition(u, "Serving") ELSE e
  BY DEF on_ack, e
<1> QED BY <1>1, <1>4, <1>5

\* on_terminal keeps a tracker well typed.
LEMMA OnTerminalType ==
    ASSUME NEW t \in Tracker, NEW sig \in TerminalSignal
    PROVE  on_terminal(t, sig) \in Tracker
<1>1. [t EXCEPT !.terminal = sig] \in Tracker
  BY DEF Tracker
<1>2. transition([t EXCEPT !.terminal = sig], sig) \in Tracker
  BY <1>1, TransitionType DEF ServingState, TerminalSignal
<1> QED BY <1>2 DEF on_terminal

\* What the connector reads keeps its tracker well typed.
LEMMA ObserveType ==
    ASSUME NEW t \in Tracker, NEW m \in Msg, NEW at \in Nat,
           NEW a \in [capable : BOOLEAN, first_seen : BOOLEAN]
    PROVE  /\ observe_status(t, m) \in Tracker
           /\ observe_controller_msg(t, m, a, at) \in Tracker
<1> DEFINE u == IF a.first_seen THEN t ELSE stream_up(t, at)
<1>1. u \in Tracker
  BY StreamUpType
<1>2. on_ack(u, m.seq, a.capable, at) \in Tracker
  BY <1>1, OnAckType DEF Msg
<1>3. on_terminal(u, "Revoked") \in Tracker
  BY <1>1, OnTerminalType DEF TerminalSignal
<1>4. on_terminal(t, "Revoked") \in Tracker /\ on_terminal(t, "UnknownIdentity") \in Tracker
  BY OnTerminalType DEF TerminalSignal
<1> QED BY <1>1, <1>2, <1>3, <1>4 DEF observe_status, observe_controller_msg

\* The messages the controller writes are messages.
LEMMA MessageType ==
    /\ \A k \in 0..MaxSeq : Ack(k) \in Msg
    /\ \A kind \in Kind : Message(kind) \in Msg
    /\ \A state \in {"authorized", "revoked", "absent"} : rejectionFor(state) \in Msg
BY ConstantsAssumption DEF Ack, Message, Msg, Kind, rejectionFor, NoSeq

\* A step that leaves a stream's handler alone leaves its state well typed.
LEMMA CtlUnchangedType ==
    ASSUME TypeOK, UNCHANGED ctlVars
    PROVE  /\ phase' \in [Streams -> HandlerPhase \cup {"unused", "ended"}]
           /\ health' \in [Streams -> 0..MaxSeq]
           /\ activated' \in [Streams -> BOOLEAN] /\ revoked' \in [Streams -> BOOLEAN]
           /\ terminal' \in [Streams -> {"empty", "queued", "sent"}]
           /\ urgent' \in [Streams -> BOOLEAN] /\ outbound' \in [Streams -> Seq(Msg)]
BY DEF TypeOK, ctlVars

\* A step that leaves the history variables alone leaves them well typed.
LEMMA HistUnchangedType ==
    ASSUME TypeOK, UNCHANGED histVars
    PROVE  /\ base' \in 0..MaxStreams /\ first' \in [Seqs -> Instant]
           /\ revokedAt' \in Instant
BY DEF TypeOK, histVars

\* A step that leaves the connector's session alone leaves it well typed.
LEMMA SessUnchangedType ==
    ASSUME TypeInv, UNCHANGED sessVars
    PROVE  /\ mode' \in {"backoff", "connecting", "session", "parked"}
           /\ stream' \in Streams \cup {NoStream} /\ opening' \in Streams \cup {NoStream}
           /\ openSeq' \in 0..MaxSeq /\ pending' \in BOOLEAN
           /\ authz' \in [capable : BOOLEAN, first_seen : BOOLEAN]
           /\ SessionShape'
BY DEF TypeInv, TypeOK, SessionShape, sessVars

\* What a step of a stream's writer leaves alone stays well typed.
LEMMA WriterUnchangedType ==
    ASSUME TypeOK,
           UNCHANGED <<phase, health, activated, revoked, up, mailbox, broken>>,
           UNCHANGED <<now, db, signal, tracker, boundVars>>
    PROVE  /\ now' \in Nat
           /\ db' \in {"authorized", "revoked", "absent"}
           /\ signal' \in {"none", "due", "sent", "lost"}
           /\ up' \in [Streams -> Seq(Seqs)] /\ mailbox' \in [Streams -> Seq(Seqs)]
           /\ broken' \in [Streams -> BOOLEAN] /\ tracker' \in Tracker
           /\ opened' \in 0..MaxStreams
           /\ ticks' \in Nat /\ faults' \in Nat /\ renewals' \in Nat /\ pushes' \in Nat
           /\ phase' \in [Streams -> HandlerPhase \cup {"unused", "ended"}]
           /\ health' \in [Streams -> 0..MaxSeq] /\ activated' \in [Streams -> BOOLEAN]
           /\ revoked' \in [Streams -> BOOLEAN]
BY DEF TypeOK, boundVars

\* A handler that returns leaves its stream's state well typed.
LEMMA HandlerReturnsType ==
    ASSUME TypeOK, NEW s \in Streams, NEW m \in Msg, HandlerReturns(s, m)
    PROVE  /\ phase' \in [Streams -> HandlerPhase \cup {"unused", "ended"}]
           /\ terminal' \in [Streams -> {"empty", "queued", "sent"}]
           /\ outbound' \in [Streams -> Seq(Msg)]
           /\ up' \in [Streams -> Seq(Seqs)]
           /\ down' \in [Streams -> Seq(Msg)]
           /\ UNCHANGED <<health, activated, revoked, urgent, mailbox, broken>>
<1>1. Append(down[s], m) \in Seq(Msg)
  BY DEF TypeOK
<1>2. down' \in [Streams -> Seq(Msg)]
  BY <1>1 DEF TypeOK, HandlerReturns
<1>a. /\ up \in [Streams -> Seq(Seqs)] /\ outbound \in [Streams -> Seq(Msg)]
      /\ up' = [up EXCEPT ![s] = << >>]
      /\ outbound' = [outbound EXCEPT ![s] = << >>]
  BY DEF TypeOK, HandlerReturns
<1>3. up' \in [Streams -> Seq(Seqs)] /\ outbound' \in [Streams -> Seq(Msg)]
  BY <1>a
<1>4. phase' \in [Streams -> HandlerPhase \cup {"unused", "ended"}]
  BY DEF TypeOK, HandlerReturns
<1> QED BY <1>2, <1>3, <1>4 DEF TypeOK, HandlerReturns

\* Enqueueing keeps the mailboxes well typed.
LEMMA EnqueuedType ==
    ASSUME TypeOK, NEW s \in Streams, NEW m \in Msg
    PROVE  Enqueued(s, m) \in [Streams -> Seq(Msg)]
<1>1. Append(outbound[s], m) \in Seq(Msg)
  BY DEF TypeOK
<1> QED BY <1>1 DEF TypeOK, Enqueued

\* The end of an attempt leaves the connector well typed.
LEMMA AttemptEndsType ==
    ASSUME TypeInv, NEW t \in Tracker, AttemptEnds(t)
    PROVE  /\ tracker' \in Tracker
           /\ mode' \in {"backoff", "connecting", "session", "parked"} /\ mode' # "session"
           /\ down' \in [Streams -> Seq(Msg)]
           /\ stream' \in Streams \cup {NoStream}
           /\ opening' = NoStream /\ openSeq' = NoSeq
           /\ pending' \in BOOLEAN
           /\ authz' \in [capable : BOOLEAN, first_seen : BOOLEAN]
<1>1. tracker' \in Tracker
  BY StreamDownType DEF AttemptEnds, TypeInv, TypeOK
<1>2. mode' \in {"backoff", "connecting", "session", "parked"} /\ mode' # "session"
  BY DEF AttemptEnds
<1>3. down' \in [Streams -> Seq(Msg)]
  BY DEF AttemptEnds
<1>4. authz' \in [capable : BOOLEAN, first_seen : BOOLEAN]
  BY DEF AttemptEnds, NewStreamAuthz
<1> QED BY <1>1, <1>2, <1>3, <1>4 DEF AttemptEnds

\* A new tracker is well typed.
LEMMA NewTrackerType == NewTracker \in Tracker
BY ConstantsAssumption DEF NewTracker, Tracker, ServingState, Instant, Never, Seqs

\* The initial state is well typed.
LEMMA TypeInit == Init => TypeInv
<1> SUFFICES ASSUME Init PROVE TypeInv
  OBVIOUS
<1>1. /\ outbound \in [Streams -> Seq(Msg)] /\ down \in [Streams -> Seq(Msg)]
      /\ up \in [Streams -> Seq(Seqs)] /\ mailbox \in [Streams -> Seq(Seqs)]
  BY DEF Init
<1>2. /\ health \in [Streams -> 0..MaxSeq] /\ first \in [Seqs -> Instant]
      /\ revokedAt \in Instant /\ openSeq \in 0..MaxSeq
      /\ opened \in 0..MaxStreams /\ base \in 0..MaxStreams
  BY ConstantsAssumption DEF Init, NoSeq, Instant, Never
<1>3. tracker \in Tracker /\ authz \in [capable : BOOLEAN, first_seen : BOOLEAN]
  BY NewTrackerType DEF Init, NewStreamAuthz
<1>4. SessionShape
  BY DEF Init, SessionShape
<1> QED BY <1>1, <1>2, <1>3, <1>4 DEF Init, TypeInv, TypeOK, HandlerPhase, LivePhase

\* The controller's steps keep the state well typed.
LEMMA HandlerTypeStep ==
    ASSUME TypeInv, NEW s \in Streams, Handler(s) \/ PushOther(s) \/ ControlEnds(s)
    PROVE  TypeInv'
<1> USE ConstantsAssumption DEF TypeInv, SessionShape, LivePhase, HandlerPhase
<1>0. db \in {"authorized", "revoked", "absent"}
  BY DEF TypeOK
<1>1. rejectionFor(db) \in Msg /\ Message("End") \in Msg /\ Message("EndRevoked") \in Msg
      /\ Message("Policy") \in Msg /\ Message("Other") \in Msg
  BY <1>0, MessageType DEF Kind
<1>a. ASSUME NEW m \in Msg, HandlerReturns(s, m),
             UNCHANGED <<now, db, signal, sessVars, tracker, opened, ticks, renewals, pushes, histVars>>,
             faults' \in Nat
      PROVE  TypeInv'
  <2>1. UNCHANGED sessVars /\ UNCHANGED histVars
    BY <1>a
  <2>2. /\ now' \in Nat /\ db' \in {"authorized", "revoked", "absent"}
        /\ signal' \in {"none", "due", "sent", "lost"} /\ tracker' \in Tracker
        /\ opened' \in 0..MaxStreams
        /\ ticks' \in Nat /\ renewals' \in Nat /\ pushes' \in Nat
    BY <1>a DEF TypeOK
  <2>3. /\ phase' \in [Streams -> HandlerPhase \cup {"unused", "ended"}]
        /\ terminal' \in [Streams -> {"empty", "queued", "sent"}]
        /\ outbound' \in [Streams -> Seq(Msg)] /\ up' \in [Streams -> Seq(Seqs)]
        /\ down' \in [Streams -> Seq(Msg)]
        /\ UNCHANGED <<health, activated, revoked, urgent, mailbox, broken>>
    BY <1>a, HandlerReturnsType
  <2>4. /\ health' \in [Streams -> 0..MaxSeq] /\ activated' \in [Streams -> BOOLEAN]
        /\ revoked' \in [Streams -> BOOLEAN] /\ urgent' \in [Streams -> BOOLEAN]
        /\ mailbox' \in [Streams -> Seq(Seqs)] /\ broken' \in [Streams -> BOOLEAN]
    BY <2>3 DEF TypeOK
  <2>5. TypeOK'
    BY <1>a, <2>1, <2>2, <2>3, <2>4, SessUnchangedType, HistUnchangedType DEF TypeOK
  <2> QED BY <2>1, <2>5, SessUnchangedType
<1>f. (NoFault \/ StatementFails) => faults' \in Nat
  <2>1. faults \in Nat
    BY DEF TypeOK
  <2> QED BY <2>1 DEF NoFault, StatementFails
<1>2. CASE ControlLookup(s)
  <2>1. CASE db = "authorized" /\ NoFault /\ phase' = [phase EXCEPT ![s] = "looked"]
             /\ UNCHANGED <<health, activated, revoked, terminal, urgent, outbound, wireVars>>
    BY <1>2, <1>f, <2>1 DEF ControlLookup, TypeOK, wireVars, sessVars, histVars
  <2>2. CASE NoFault /\ HandlerReturns(s, rejectionFor(db))
    BY <1>1, <1>2, <1>a, <1>f, <2>2 DEF ControlLookup
  <2>3. CASE StatementFails /\ HandlerReturns(s, Message("End"))
    BY <1>1, <1>2, <1>a, <1>f, <2>3 DEF ControlLookup
  <2> QED BY <1>2, <2>1, <2>2, <2>3 DEF ControlLookup
<1>3. CASE activateStream(s)
  <2>1. CASE /\ NoFault \/ StatementFails
             /\ phase' = [phase EXCEPT ![s] = "registered"]
             /\ activated' = [activated EXCEPT ![s] = (faults' = faults)]
             /\ UNCHANGED <<health, revoked, terminal, urgent, outbound, wireVars>>
    BY <1>3, <1>f, <2>1 DEF activateStream, TypeOK, wireVars, sessVars, histVars
  <2>2. CASE NoFault /\ HandlerReturns(s, rejectionFor(db))
    BY <1>1, <1>3, <1>a, <1>f, <2>2 DEF activateStream
  <2>3. CASE StatementFails /\ HandlerReturns(s, Message("End"))
    BY <1>1, <1>3, <1>a, <1>f, <2>3 DEF activateStream
  <2> QED BY <1>3, <2>1, <2>2, <2>3 DEF activateStream
<1>4. CASE sendAgentPolicy(s)
  BY <1>1, <1>4, EnqueuedType DEF sendAgentPolicy, TypeOK, wireVars, sessVars, boundVars, histVars
<1>5. CASE HealthUpdate(s)
  <2>0. Head(up[s]) \in Seqs /\ Tail(up[s]) \in Seq(Seqs) /\ Head(up[s]) \in 0..MaxSeq
    <3>1. up[s] \in Seq(Seqs)
      BY DEF TypeOK
    <3>2. up[s] # << >>
      BY <1>5 DEF HealthUpdate
    <3>3. Head(up[s]) \in Seqs /\ Tail(up[s]) \in Seq(Seqs)
      BY <3>1, <3>2
    <3> QED BY <3>3 DEF Seqs
  <2>1. CASE /\ HealthMatches /\ NoFault
             /\ phase' = [phase EXCEPT ![s] = "acking"]
             /\ health' = [health EXCEPT ![s] = Head(up[s])]
             /\ up' = [up EXCEPT ![s] = Tail(@)]
             /\ UNCHANGED <<activated, revoked, terminal, urgent, outbound, down, mailbox, broken>>
    BY <1>5, <1>f, <2>0, <2>1 DEF HealthUpdate, TypeOK, sessVars, histVars
  <2>2. CASE NoFault /\ HandlerReturns(s, rejectionFor(db))
    BY <1>1, <1>5, <1>a, <1>f, <2>2 DEF HealthUpdate
  <2>3. CASE StatementFails /\ HandlerReturns(s, Message("End"))
    BY <1>1, <1>5, <1>a, <1>f, <2>3 DEF HealthUpdate
  <2>4. CASE StatementFails /\ up' = [up EXCEPT ![s] = Tail(@)]
             /\ UNCHANGED <<ctlVars, down, mailbox, broken>>
    BY <1>5, <1>f, <2>0, <2>4 DEF HealthUpdate, TypeOK, ctlVars, sessVars, histVars
  <2> QED BY <1>5, <2>1, <2>2, <2>3, <2>4 DEF HealthUpdate
<1>6. CASE sendAuthorizationAck(s)
  <2>1. Ack(health[s]) \in Msg
    BY MessageType DEF TypeOK
  <2>2. outbound' \in [Streams -> Seq(Msg)]
    BY <1>6, <2>1, EnqueuedType, SMTT(20) DEF sendAuthorizationAck, TypeOK
  <2>3. faults' \in Nat
    BY <1>6, <1>f DEF sendAuthorizationAck
  <2>4. health' \in [Streams -> 0..MaxSeq] /\ phase' \in [Streams -> HandlerPhase \cup {"unused", "ended"}]
    BY <1>6 DEF sendAuthorizationAck, TypeOK, NoSeq
  <2> QED BY <1>6, <2>2, <2>3, <2>4 DEF sendAuthorizationAck, TypeOK, wireVars, sessVars, histVars
<1>7. CASE EndAfterTerminal(s)
  BY <1>1, <1>7, <1>a DEF EndAfterTerminal, boundVars, TypeOK
<1>8. CASE PushOther(s)
  BY <1>1, <1>8, EnqueuedType, SMTT(20) DEF PushOther, TypeOK, wireVars, sessVars, histVars
<1>9. CASE ControlEnds(s)
  <2>1. faults' \in Nat
    BY <1>9, <1>f DEF ControlEnds
  <2> QED BY <1>1, <1>9, <1>a, <2>1 DEF ControlEnds
<1> QED BY <1>2, <1>3, <1>4, <1>5, <1>6, <1>7, <1>8, <1>9 DEF Handler

\* The connector's, the transport's and the environment's steps keep the state
\* well typed.
LEMMA SessionTypeStep ==
    ASSUME TypeInv, Session \/ ScheduleTick \/ RenewalDone \/ OldCertExpires
    PROVE  TypeInv'
<1> USE ConstantsAssumption DEF TypeInv, SessionShape
<1>a. ASSUME NEW t \in Tracker, AttemptEnds(t),
             UNCHANGED <<now, db, signal, ctlVars, up, mailbox, broken,
                         opened, faults, renewals, pushes, histVars>>,
             ticks' \in Nat
      PROVE  TypeInv'
  <2>1. UNCHANGED ctlVars /\ UNCHANGED histVars
    BY <1>a
  <2>2. /\ now' \in Nat /\ db' \in {"authorized", "revoked", "absent"}
        /\ signal' \in {"none", "due", "sent", "lost"}
        /\ up' \in [Streams -> Seq(Seqs)] /\ mailbox' \in [Streams -> Seq(Seqs)]
        /\ broken' \in [Streams -> BOOLEAN] /\ opened' \in 0..MaxStreams
        /\ ticks' \in Nat /\ faults' \in Nat /\ renewals' \in Nat /\ pushes' \in Nat
    BY <1>a DEF TypeOK
  <2>3. /\ down' \in [Streams -> Seq(Msg)] /\ tracker' \in Tracker
        /\ mode' \in {"backoff", "connecting", "session", "parked"}
        /\ stream' \in Streams \cup {NoStream} /\ opening' \in Streams \cup {NoStream}
        /\ openSeq' \in 0..MaxSeq /\ pending' \in BOOLEAN
        /\ authz' \in [capable : BOOLEAN, first_seen : BOOLEAN]
        /\ SessionShape'
    BY <1>a, AttemptEndsType DEF TypeOK, NoSeq
  <2>4. TypeOK'
    BY <2>1, <2>2, <2>3, CtlUnchangedType, HistUnchangedType DEF TypeOK
  <2> QED BY <2>3, <2>4
<1>b. ASSUME NEW k \in Seqs, CallControl(k), tracker' \in Tracker,
             mode' \in {"connecting", "session"}, mode' = "session" => stream # NoStream,
             UNCHANGED <<stream, pending, authz>>,
             UNCHANGED <<now, db, signal, ticks, faults, renewals, pushes, histVars>>
      PROVE  TypeInv'
  <2>1. opened + 1 \in Streams /\ opened + 1 # NoStream
    BY <1>b DEF CallControl, TypeOK, Streams, NoStream
  <2>2. phase' \in [Streams -> HandlerPhase \cup {"unused", "ended"}]
    BY <1>b, <2>1 DEF CallControl, TypeOK, HandlerPhase
  <2>3. openSeq' \in 0..MaxSeq /\ openSeq' # NoSeq
    BY <1>b DEF CallControl, Seqs, NoSeq
  <2>4. opened' \in 0..MaxStreams /\ opening' \in Streams \cup {NoStream}
    BY <1>b, <2>1 DEF CallControl, TypeOK, Streams
  <2> QED BY <1>b, <2>2, <2>3, <2>4 DEF CallControl, TypeOK, wireVars, histVars
<1>1. CASE Connect
  <2>1. next_seq(tracker) \in Tracker
    BY <1>1, NextSeqType DEF Connect, TypeOK
  <2>a. tracker.last_assigned \in Nat
    BY DEF TypeOK, Tracker
  <2>2. tracker.last_assigned + 1 \in Seqs
    BY <1>1, <2>a DEF Connect, Seqs
  <2> QED BY <1>1, <1>b, <2>1, <2>2 DEF Connect
<1>2. CASE OpenSucceeds
  <2>1. opening \in Streams /\ openSeq \in Seqs
    BY <1>2 DEF OpenSucceeds, TypeOK, Seqs, NoSeq
  <2>2. Append(mailbox[opening], openSeq) \in Seq(Seqs)
    BY <2>1 DEF TypeOK
  <2>3. mailbox' \in [Streams -> Seq(Seqs)]
    BY <1>2, <2>1, <2>2 DEF OpenSucceeds, TypeOK
  <2>4. down' \in [Streams -> Seq(Msg)]
    BY <1>2 DEF OpenSucceeds, TypeOK
  <2>5. authz' \in [capable : BOOLEAN, first_seen : BOOLEAN]
    BY <1>2 DEF OpenSucceeds, NewStreamAuthz
  <2>6. openSeq' \in 0..MaxSeq
    BY <1>2 DEF OpenSucceeds, NoSeq
  <2> QED BY <1>2, <2>1, <2>3, <2>4, <2>5, <2>6 DEF OpenSucceeds, TypeOK, ctlVars, boundVars, histVars
<1>3. CASE OpenRefused
  <2> DEFINE t == observe_status(tracker, Head(down[opening]))
  <2>1. opening \in Streams
    BY <1>3 DEF OpenRefused, TypeOK
  <2>2. Head(down[opening]) \in Msg
    BY <1>3, <2>1 DEF OpenRefused, TypeOK
  <2>3. t \in Tracker
    BY <2>2, ObserveType DEF TypeOK
  <2> HIDE DEF t
  <2>4. CASE AttemptEnds(t)
    BY <1>3, <1>a, <2>3, <2>4 DEF OpenRefused, boundVars, TypeOK
  <2>5. CASE /\ opening' = NoStream /\ openSeq' = NoSeq /\ tracker' = t
             /\ down' = [down EXCEPT ![opening] = << >>]
             /\ UNCHANGED <<mode, stream, pending, authz>>
    <3>1. down' \in [Streams -> Seq(Msg)]
      BY <2>1, <2>5 DEF TypeOK
    <3>2. openSeq' \in 0..MaxSeq
      BY <2>5 DEF NoSeq
    <3> QED BY <1>3, <2>3, <2>5, <3>1, <3>2 DEF OpenRefused, TypeOK, ctlVars, boundVars, histVars
  <2> QED BY <1>3, <2>4, <2>5 DEF OpenRefused, t
<1>4. CASE ReadStream
  <2> DEFINE m == Head(down[stream])
  <2> DEFINE t == IF IsEnd(m) THEN observe_status(tracker, m)
                  ELSE observe_controller_msg(tracker, m, authz, now)
  <2>1. stream \in Streams
    BY <1>4 DEF ReadStream, TypeOK
  <2>2. m \in Msg /\ Tail(down[stream]) \in Seq(Msg)
    BY <1>4, <2>1 DEF ReadStream, TypeOK
  <2> HIDE DEF m
  <2>3. t \in Tracker
    BY <2>2, ObserveType DEF TypeOK
  <2> HIDE DEF t
  <2>4. CASE AttemptEnds(t)
    BY <1>4, <1>a, <2>3, <2>4 DEF ReadStream, boundVars, TypeOK
  <2>5. CASE /\ tracker' = t
             /\ authz' = StreamAuthzAfter(authz, m)
             /\ down' = [down EXCEPT ![stream] = Tail(@)]
             /\ UNCHANGED <<mode, stream, opening, openSeq, pending>>
    <3>1. authz' \in [capable : BOOLEAN, first_seen : BOOLEAN]
      BY <2>5 DEF StreamAuthzAfter, TypeOK
    <3>2. down' \in [Streams -> Seq(Msg)]
      BY <2>1, <2>2, <2>5 DEF TypeOK
    <3> QED BY <1>4, <2>3, <2>5, <3>1, <3>2 DEF ReadStream, TypeOK, ctlVars, boundVars, histVars
  <2> QED BY <1>4, <2>4, <2>5 DEF ReadStream, t, m
<1>5. CASE ScheduleTick
  <2>1. next_seq(tracker) \in Tracker
    BY <1>5, NextSeqType DEF ScheduleTick, TypeOK
  <2>2. ticks' \in Nat /\ stream \in Streams
    BY <1>5 DEF ScheduleTick, TypeOK
  <2>3. CASE broken[stream]
    BY <1>5, <1>a, <2>1, <2>2, <2>3 DEF ScheduleTick
  <2>4. CASE ~broken[stream]
    <3>1. tracker.last_assigned + 1 \in Seqs
      BY <1>5, SMTT(20) DEF ScheduleTick, TypeOK, Tracker, Seqs
    <3>2. Append(mailbox[stream], tracker.last_assigned + 1) \in Seq(Seqs)
      BY <2>2, <3>1 DEF TypeOK
    <3>3. mailbox' \in [Streams -> Seq(Seqs)]
      BY <1>5, <2>2, <2>4, <3>2 DEF ScheduleTick, TypeOK
    <3> QED BY <1>5, <2>1, <2>2, <2>4, <3>3 DEF ScheduleTick, TypeOK, ctlVars, sessVars, histVars
  <2> QED BY <2>3, <2>4
<1>6. CASE RenewalDone
  BY <1>6 DEF RenewalDone, TypeOK, ctlVars, wireVars, histVars
<1>7. CASE OpenReplacement
  <2>1. tracker' \in Tracker /\ tracker'.last_assigned \in Seqs
    <3>1. CASE tracker.last_assigned > tracker.highest_accepted
      BY <1>7, <3>1 DEF OpenReplacement, seq_for_replacement, TypeOK, Tracker, Seqs
    <3>2. CASE ~(tracker.last_assigned > tracker.highest_accepted)
      <4>1. tracker.last_assigned < MaxSeq /\ tracker' = next_seq(tracker)
        BY <1>7, <3>2 DEF OpenReplacement, seq_for_replacement
      <4>2. tracker'.last_assigned = tracker.last_assigned + 1
        BY <4>1 DEF next_seq, TypeOK, Tracker
      <4>3. tracker' \in Tracker
        BY <4>1, NextSeqType DEF TypeOK
      <4>4. tracker.last_assigned \in 0..MaxSeq
        BY DEF TypeOK, Tracker
      <4> QED BY <4>1, <4>2, <4>3, <4>4 DEF Seqs
    <3> QED BY <3>1, <3>2
  <2> QED BY <1>7, <1>b, <2>1 DEF OpenReplacement
<1>8. CASE OldCertExpires
  BY <1>8, <1>a DEF OldCertExpires, boundVars, TypeOK
<1> QED BY <1>1, <1>2, <1>3, <1>4, <1>5, <1>6, <1>7, <1>8 DEF Session

\* So do the writers, the transport, the clock, the administrator and faults.
LEMMA OtherTypeStep ==
    ASSUME TypeInv,
           \/ ClockTick \/ ExpiryTimer \/ RevokeCommits \/ SignalRevoked \/ RowLost
           \/ ConnectorRestarts \/ ControllerRestarts
           \/ \E s \in Streams : Writer(s) \/ TransportSends(s) \/ StreamBreaks(s)
    PROVE  TypeInv'
<1> USE ConstantsAssumption DEF TypeInv, SessionShape
<1>1. CASE ClockTick
  BY <1>1 DEF ClockTick, TypeOK, ctlVars, wireVars, sessVars, boundVars, histVars
<1>2. CASE ExpiryTimer
  <2>1. tracker' \in Tracker
    BY <1>2, ExpireType DEF ExpiryTimer, TypeOK
  <2> QED BY <1>2, <2>1 DEF ExpiryTimer, TypeOK, ctlVars, wireVars, sessVars, boundVars, histVars
<1>3. CASE RevokeCommits
  BY <1>3 DEF RevokeCommits, TypeOK, Instant, ctlVars, wireVars, sessVars, boundVars
<1>4. CASE SignalRevoked
  <2>1. revoked' \in [Streams -> BOOLEAN] /\ terminal' \in [Streams -> {"empty", "queued", "sent"}]
    BY <1>4 DEF SignalRevoked, TypeOK
  <2> QED BY <1>4, <2>1 DEF SignalRevoked, TypeOK, wireVars, sessVars, boundVars, histVars
<1>5. CASE RowLost
  BY <1>5 DEF RowLost, TypeOK, Instant, ctlVars, wireVars, sessVars
<1>6. CASE ConnectorRestarts
  <2>1. /\ broken' \in [Streams -> BOOLEAN] /\ mailbox' \in [Streams -> Seq(Seqs)]
        /\ down' \in [Streams -> Seq(Msg)] /\ first' \in [Seqs -> Instant]
    BY <1>6 DEF ConnectorRestarts, TypeOK, Streams, Instant, Never
  <2>2. tracker' \in Tracker /\ authz' \in [capable : BOOLEAN, first_seen : BOOLEAN]
    BY <1>6, NewTrackerType DEF ConnectorRestarts, NewStreamAuthz
  <2>3. openSeq' \in 0..MaxSeq /\ faults' \in Nat
    BY <1>6 DEF ConnectorRestarts, StatementFails, TypeOK, NoSeq
  <2> QED BY <1>6, <2>1, <2>2, <2>3 DEF ConnectorRestarts, TypeOK, ctlVars
<1>7. CASE ControllerRestarts
  <2>1. \A s \in Streams : Append(down[s], Message("End")) \in Seq(Msg)
    BY MessageType DEF TypeOK, Kind
  <2>2. down' \in [Streams -> Seq(Msg)]
    BY <1>7, <2>1 DEF ControllerRestarts, TypeOK
  <2>3. /\ outbound' \in [Streams -> Seq(Msg)] /\ up' \in [Streams -> Seq(Seqs)]
        /\ terminal' \in [Streams -> {"empty", "queued", "sent"}]
    BY <1>7 DEF ControllerRestarts
  <2>4. phase' \in [Streams -> HandlerPhase \cup {"unused", "ended"}]
    BY <1>7 DEF ControllerRestarts, TypeOK
  <2>5. faults' \in Nat /\ signal' \in {"none", "due", "sent", "lost"}
    BY <1>7 DEF ControllerRestarts, StatementFails, TypeOK
  <2> QED BY <1>7, <2>2, <2>3, <2>4, <2>5 DEF ControllerRestarts, TypeOK, sessVars, histVars
<1>8. ASSUME NEW s \in Streams, WriterSends(s) PROVE TypeInv'
  <2>1. /\ Head(outbound[s]) \in Msg /\ Tail(outbound[s]) \in Seq(Msg)
    BY <1>8 DEF WriterSends, TypeOK
  <2>2. Append(down[s], Head(outbound[s])) \in Seq(Msg)
    BY <2>1 DEF TypeOK
  <2>3. outbound' \in [Streams -> Seq(Msg)] /\ down' \in [Streams -> Seq(Msg)]
    BY <1>8, <2>1, <2>2 DEF WriterSends, TypeOK
  <2>4. urgent' \in [Streams -> BOOLEAN]
    BY <1>8 DEF WriterSends, TypeOK
  <2>5. terminal' \in [Streams -> {"empty", "queued", "sent"}]
    BY <1>8 DEF WriterSends, TypeOK
  <2>6. /\ UNCHANGED <<phase, health, activated, revoked, up, mailbox, broken>>
        /\ UNCHANGED <<now, db, signal, tracker, boundVars>>
        /\ UNCHANGED sessVars /\ UNCHANGED histVars
    BY <1>8 DEF WriterSends
  <2>7. TypeOK'
    BY <2>3, <2>4, <2>5, <2>6, WriterUnchangedType, SessUnchangedType, HistUnchangedType
    DEF TypeOK
  <2> QED BY <2>6, <2>7, SessUnchangedType
<1>9. ASSUME NEW s \in Streams, sendTerminal(s) PROVE TypeInv'
  <2>1. Append(down[s], Message("ConnectorRevoked")) \in Seq(Msg)
    BY MessageType DEF TypeOK, Kind
  <2>2. down' \in [Streams -> Seq(Msg)]
    BY <1>9, <2>1 DEF sendTerminal, TypeOK
  <2>4. outbound' \in [Streams -> Seq(Msg)]
    BY <1>9 DEF sendTerminal, TypeOK
  <2>3. terminal' \in [Streams -> {"empty", "queued", "sent"}]
    BY <1>9 DEF sendTerminal, TypeOK
  <2>5. urgent' \in [Streams -> BOOLEAN]
    BY <1>9 DEF sendTerminal, TypeOK
  <2>6. /\ UNCHANGED <<phase, health, activated, revoked, up, mailbox, broken>>
        /\ UNCHANGED <<now, db, signal, tracker, boundVars>>
        /\ UNCHANGED sessVars /\ UNCHANGED histVars
    BY <1>9 DEF sendTerminal
  <2>7. TypeOK'
    BY <2>2, <2>3, <2>4, <2>5, <2>6, WriterUnchangedType, SessUnchangedType, HistUnchangedType
    DEF TypeOK
  <2> QED BY <2>6, <2>7, SessUnchangedType
<1>10. ASSUME NEW s \in Streams, TransportSends(s) PROVE TypeInv'
  <2> DEFINE k == Head(mailbox[s])
  <2>1. k \in Seqs /\ Tail(mailbox[s]) \in Seq(Seqs)
    BY <1>10 DEF TransportSends, TypeOK
  <2>2. Append(up[s], k) \in Seq(Seqs)
    BY <2>1 DEF TypeOK
  <2>3. tracker' \in Tracker
    BY <1>10, <2>1, RecordSentType DEF TransportSends, TypeOK
  <2>4. up' \in [Streams -> Seq(Seqs)] /\ mailbox' \in [Streams -> Seq(Seqs)]
    BY <1>10, <2>1, <2>2 DEF TransportSends, TypeOK
  <2>5. first' \in [Seqs -> Instant]
    BY <1>10, <2>1 DEF TransportSends, TypeOK, Instant
  <2> QED BY <1>10, <2>3, <2>4, <2>5 DEF TransportSends, TypeOK, ctlVars, sessVars, boundVars
<1>11. ASSUME NEW s \in Streams, StreamBreaks(s) PROVE TypeInv'
  <2>1. PICK n \in 0..Len(down[s]) :
          down' = [down EXCEPT ![s] = Append(SubSeq(@, 1, n), Message("End"))]
    BY <1>11 DEF StreamBreaks
  <2>2. SubSeq(down[s], 1, n) \in Seq(Msg) /\ Message("End") \in Msg
    BY MessageType DEF TypeOK, Kind
  <2>a. Append(SubSeq(down[s], 1, n), Message("End")) \in Seq(Msg)
    BY <2>2
  <2>3. down' \in [Streams -> Seq(Msg)]
    BY <2>1, <2>a DEF TypeOK
  <2>4. mailbox' \in [Streams -> Seq(Seqs)] /\ broken' \in [Streams -> BOOLEAN] /\ faults' \in Nat
    BY <1>11 DEF StreamBreaks, StatementFails, TypeOK
  <2>5. UNCHANGED <<now, db, signal, ctlVars, up, sessVars, tracker, opened,
                    ticks, renewals, pushes, histVars>>
    BY <1>11 DEF StreamBreaks
  <2>6. /\ now' \in Nat /\ db' \in {"authorized", "revoked", "absent"}
        /\ signal' \in {"none", "due", "sent", "lost"}
        /\ up' \in [Streams -> Seq(Seqs)] /\ tracker' \in Tracker
        /\ opened' \in 0..MaxStreams
        /\ ticks' \in Nat /\ renewals' \in Nat /\ pushes' \in Nat
    BY <2>5 DEF TypeOK
  <2>7. UNCHANGED ctlVars /\ UNCHANGED sessVars /\ UNCHANGED histVars
    BY <2>5
  <2>8. TypeOK'
    BY <2>3, <2>4, <2>6, <2>7, CtlUnchangedType, SessUnchangedType, HistUnchangedType
    DEF TypeOK
  <2> QED BY <2>7, <2>8, SessUnchangedType
<1> QED BY <1>1, <1>2, <1>3, <1>4, <1>5, <1>6, <1>7, <1>8, <1>9, <1>10, <1>11 DEF Writer

\* Every step keeps the state well typed.
LEMMA TypeStep == TypeInv /\ [Next]_vars => TypeInv'
<1> SUFFICES ASSUME TypeInv, [Next]_vars PROVE TypeInv'
  OBVIOUS
<1>1. CASE UNCHANGED vars
  BY <1>1 DEF TypeInv, TypeOK, SessionShape, vars, ctlVars, wireVars, sessVars, boundVars, histVars
<1>2. CASE Next
  BY <1>2, HandlerTypeStep, SessionTypeStep, OtherTypeStep DEF Next
<1> QED BY <1>1, <1>2

\* Every reachable state of the contract is well typed: a sequence number in a
\* mailbox is one the tracker assigned, an accepted one is one it knows.
THEOREM TypeCorrect == Spec => []TypeOK
<1>1. TypeInv => TypeOK
  BY DEF TypeInv
<1> QED BY <1>1, TypeInit, TypeStep, PTL DEF Spec

-----------------------------------------------------------------------------
(* The truth about the revocation *)

\* What a message may say when the row is in the given state.
TrueMsg(state) ==
    {m \in Msg : /\ m.kind \in {"ConnectorRevoked", "EndRevoked"} => state = "revoked"
                 /\ m.kind = "EndUnknown" => state = "absent"}

\* The mailbox carries neither a status nor a revocation: those go out by the
\* terminal mailbox and by the handler's return.
MailMsg == {m \in Msg : m.kind \in {"Policy", "Ack", "Other"}}

\* Everything that speaks of a revocation is preceded by its commit.
TruthInv ==
    /\ TypeInv
    /\ db # "authorized" => revokedAt \in Nat /\ revokedAt <= now
    /\ signal # "none" => db = "revoked"
    /\ \A s \in Streams : revoked[s] \/ terminal[s] # "empty" => db = "revoked"
    /\ outbound \in [Streams -> Seq(MailMsg)]
    /\ down \in [Streams -> Seq(TrueMsg(db))]
    /\ TerminalIsTruthful
    /\ SignalReachesEveryStream

-----------------------------------------------------------------------------
(* Freshness *)

\* Evidence of authorization cannot be younger than this.
Horizon == IF db = "authorized" THEN now ELSE revokedAt

\* Report k was first sent when the connector was still authorized.
Evident(k, f, hz) == f[k] # Never /\ f[k] <= hz

Backed(f, hz) == {m \in Msg : m.kind = "Ack" => m.seq \in Seqs /\ Evident(m.seq, f, hz)}

Sent(f) == {k \in Seqs : f[k] # Never}

\* A tracker's deadline rests on the first send of a report it accepted, and
\* its send record is the first send or was pruned H after it.
Fresh(t, f, hz, at) ==
    /\ ~Open(t.state) => t.deadline = Never
    /\ Open(t.state) =>
         /\ t.deadline <= hz + H
         /\ \E k \in Seqs : k <= t.highest_accepted /\ f[k] # Never /\ t.deadline <= f[k] + H
    /\ \A k \in Seqs : k > t.highest_accepted =>
         IF t.sent[k] = Never THEN f[k] # Never => f[k] + H <= at
         ELSE t.sent[k] = f[k]

\* The streams of this process are base + 1 .. opened; nothing has happened on
\* the ones after them.
StreamShape ==
    /\ base <= opened
    /\ \A s \in {stream, opening} : s # NoStream => base < s /\ s <= opened
    /\ \A s \in Streams : s > opened =>
          /\ phase[s] = "unused"
          /\ outbound[s] = << >> /\ up[s] = << >> /\ down[s] = << >> /\ mailbox[s] = << >>

FreshInv ==
    /\ TruthInv
    /\ StreamShape
    /\ \A k \in Seqs : first[k] <= now
    /\ \A s \in Streams : s > base =>
          /\ up[s] \in Seq(Sent(first))
          /\ outbound[s] \in Seq(Backed(first, Horizon))
          /\ down[s] \in Seq(Backed(first, Horizon))
          /\ phase[s] = "acking" => health[s] \in Seqs /\ Evident(health[s], first, Horizon)
    /\ Fresh(tracker, first, Horizon, now)

\* A larger set of messages has more sequences of them.
LEMMA SeqMono ==
    ASSUME NEW S, NEW T, S \subseteq T
    PROVE  Seq(S) \subseteq Seq(T)
OBVIOUS

\* Time, streams and reports leave the terminal signal alone.
LEMMA TerminalKept ==
    ASSUME NEW t \in Tracker, NEW at \in Nat
    PROVE  /\ expire(t, at).terminal = t.terminal
           /\ stream_up(t, at).terminal = t.terminal
           /\ stream_down(t, at).terminal = t.terminal
           /\ next_seq(t).terminal = t.terminal
           /\ seq_for_replacement(t).terminal = t.terminal
           /\ \A k \in Seqs : record_sent(t, k, at).terminal = t.terminal
           /\ \A k \in 0..MaxSeq, capable \in BOOLEAN :
                on_ack(t, k, capable, at).terminal = t.terminal
<1>0. ASSUME NEW u \in Tracker, NEW to PROVE transition(u, to).terminal = u.terminal
  BY DEF transition, Tracker
<1>1. expire(t, at).terminal = t.terminal
  <2>1. [t EXCEPT !.lost_at = t.deadline] \in Tracker
    BY DEF Tracker
  <2> QED BY <2>1, <1>0 DEF expire, Tracker
<1>e. expire(t, at) \in Tracker
  BY ExpireType
<1>2. stream_up(t, at).terminal = t.terminal
  BY <1>0, <1>1, <1>e DEF stream_up
<1>3. stream_down(t, at).terminal = t.terminal
  <2>1. [expire(t, at) EXCEPT !.lost_at = at] \in Tracker
    BY <1>e DEF Tracker, Instant
  <2>2. [expire(t, at) EXCEPT !.lost_at = at].terminal = t.terminal
    BY <1>1, <1>e DEF Tracker
  <2> QED BY <2>1, <2>2, <1>0, <1>1, <1>e DEF stream_down
<1>4. next_seq(t).terminal = t.terminal /\ seq_for_replacement(t).terminal = t.terminal
  BY DEF next_seq, seq_for_replacement, Tracker
<1>5. ASSUME NEW k \in Seqs PROVE record_sent(t, k, at).terminal = t.terminal
  BY DEF record_sent, Tracker
<1>6. ASSUME NEW k \in 0..MaxSeq, NEW capable \in BOOLEAN
      PROVE  on_ack(t, k, capable, at).terminal = t.terminal
  BY <1>1, <1>e DEF on_ack, transition, Tracker
<1> QED BY <1>1, <1>2, <1>3, <1>4, <1>5, <1>6

\* What a tracker may hold when the row is in the given state.
Truthful(t, state) ==
    /\ t.terminal = "Revoked" => state = "revoked"
    /\ t.terminal = "UnknownIdentity" => state = "absent"

\* A true message leaves a true tracker.
LEMMA ObserveTruth ==
    ASSUME NEW t \in Tracker, NEW state, NEW m \in TrueMsg(state), NEW at \in Nat,
           NEW a \in [capable : BOOLEAN, first_seen : BOOLEAN], Truthful(t, state)
    PROVE  /\ Truthful(observe_status(t, m), state)
           /\ Truthful(observe_controller_msg(t, m, a, at), state)
<1>0. ASSUME NEW u \in Tracker, Truthful(u, state), NEW sig \in TerminalSignal,
             sig = "Revoked" => state = "revoked", sig = "UnknownIdentity" => state = "absent"
      PROVE  Truthful(on_terminal(u, sig), state)
  BY <1>0 DEF on_terminal, transition, Truthful, Tracker, TerminalSignal
<1>1. m \in Msg
  BY DEF TrueMsg
<1> DEFINE u == IF a.first_seen THEN t ELSE stream_up(t, at)
<1>2. u \in Tracker /\ u.terminal = t.terminal
  BY StreamUpType, TerminalKept
<1>3. Truthful(u, state)
  BY <1>2 DEF Truthful
<1> HIDE DEF u
<1>4. on_ack(u, m.seq, a.capable, at).terminal = u.terminal
  BY <1>1, <1>2, TerminalKept DEF Msg
<1>5. Truthful(on_ack(u, m.seq, a.capable, at), state)
  BY <1>3, <1>4 DEF Truthful
<1>6. m.kind = "ConnectorRevoked" => Truthful(on_terminal(u, "Revoked"), state)
  BY <1>0, <1>2, <1>3 DEF TrueMsg, TerminalSignal
<1>7. Truthful(observe_controller_msg(t, m, a, at), state)
  BY <1>3, <1>5, <1>6 DEF observe_controller_msg, u
<1>8. Truthful(observe_status(t, m), state)
  BY <1>0 DEF observe_status, TrueMsg, TerminalSignal
<1> QED BY <1>7, <1>8

\* The statuses the handlers return with are true.
LEMMA StatusTruth ==
    ASSUME TypeOK
    PROVE  /\ rejectionFor(db) \in TrueMsg(db)
           /\ Message("End") \in TrueMsg(db)
           /\ db = "revoked" => Message("EndRevoked") \in TrueMsg(db)
                                /\ Message("ConnectorRevoked") \in TrueMsg(db)
<1>1. db \in {"authorized", "revoked", "absent"}
  BY DEF TypeOK
<1> QED BY <1>1, ConstantsAssumption DEF rejectionFor, Message, TrueMsg, Msg, Kind, NoSeq

\* The initial state speaks the truth.
LEMMA TruthInit == Init => TruthInv
<1> SUFFICES ASSUME Init PROVE TruthInv
  OBVIOUS
<1>1. TypeInv
  BY TypeInit
<1>2. outbound \in [Streams -> Seq(MailMsg)] /\ down \in [Streams -> Seq(TrueMsg(db))]
  BY DEF Init
<1>3. TerminalIsTruthful
  BY DEF Init, TerminalIsTruthful, NewTracker
<1>4. SignalReachesEveryStream
  BY DEF Init, SignalReachesEveryStream
<1> QED BY <1>1, <1>2, <1>3, <1>4 DEF Init, TruthInv

\* The controller's steps keep the truth.
LEMMA HandlerTruthStep ==
    ASSUME TruthInv, NEW s \in Streams,
           Handler(s) \/ PushOther(s) \/ ControlEnds(s) \/ Writer(s)
    PROVE  TruthInv'
<1>t. TypeInv'
  BY HandlerTypeStep, OtherTypeStep DEF TruthInv
<1>u. UNCHANGED <<now, db, signal, tracker, revokedAt, revoked>>
  BY DEF Handler, PushOther, ControlEnds, Writer, ControlLookup, activateStream, sendAgentPolicy,
         HealthUpdate, sendAuthorizationAck, EndAfterTerminal, WriterSends, sendTerminal,
         HandlerReturns, histVars, wireVars, ctlVars
<1>m. Message("Policy") \in MailMsg /\ Message("Other") \in MailMsg
      /\ \A k \in 0..MaxSeq : Ack(k) \in MailMsg
  BY ConstantsAssumption DEF Message, Ack, MailMsg, Msg, Kind, NoSeq
<1>e. ASSUME NEW m \in MailMsg PROVE Enqueued(s, m) \in [Streams -> Seq(MailMsg)]
  <2>1. Append(outbound[s], m) \in Seq(MailMsg)
    BY DEF TruthInv
  <2> QED BY <2>1 DEF TruthInv, Enqueued
<1>q. ASSUME outbound' \in [Streams -> Seq(MailMsg)], down' \in [Streams -> Seq(TrueMsg(db))],
             \A r \in Streams : terminal'[r] # "empty" => terminal[r] # "empty",
             \A r \in Streams : phase'[r] \in LivePhase /\ activated'[r] =>
                    db = "authorized" \/ (phase[r] \in LivePhase /\ activated[r])
      PROVE  TruthInv'
  <2>1. SignalReachesEveryStream'
    BY <1>q, <1>u DEF TruthInv, SignalReachesEveryStream
  <2>2. TerminalIsTruthful'
    BY <1>u DEF TruthInv, TerminalIsTruthful
  <2> QED BY <1>q, <1>t, <1>u, <2>1, <2>2 DEF TruthInv
<1>r. ASSUME NEW m \in TrueMsg(db), HandlerReturns(s, m) PROVE TruthInv'
  <2>1. Append(down[s], m) \in Seq(TrueMsg(db))
    BY DEF TruthInv
  <2>2. down' \in [Streams -> Seq(TrueMsg(db))]
    BY <1>r, <2>1 DEF HandlerReturns, TruthInv
  <2>3. outbound' \in [Streams -> Seq(MailMsg)]
    BY <1>r DEF HandlerReturns, TruthInv
  <2>4. \A r \in Streams : terminal'[r] # "empty" => terminal[r] # "empty"
    BY <1>r DEF HandlerReturns, TruthInv, TypeInv, TypeOK
  <2>5. \A r \in Streams : phase'[r] \in LivePhase /\ activated'[r] => phase[r] \in LivePhase /\ activated[r]
    BY <1>r DEF HandlerReturns, TruthInv, TypeInv, TypeOK, LivePhase
  <2> QED BY <1>q, <2>2, <2>3, <2>4, <2>5
<1>s. /\ rejectionFor(db) \in TrueMsg(db) /\ Message("End") \in TrueMsg(db)
      /\ db = "revoked" => /\ Message("EndRevoked") \in TrueMsg(db)
                           /\ Message("ConnectorRevoked") \in TrueMsg(db)
  BY StatusTruth DEF TruthInv, TypeInv
<1> USE DEF TypeInv, TypeOK, LivePhase
<1>1. CASE ControlLookup(s)
  <2>1. CASE phase' = [phase EXCEPT ![s] = "looked"]
             /\ UNCHANGED <<health, activated, revoked, terminal, urgent, outbound, wireVars>>
    BY <1>q, <1>1, <2>1 DEF TruthInv, wireVars
  <2> QED BY <1>1, <1>r, <1>s, <2>1 DEF ControlLookup
<1>2. CASE activateStream(s)
  <2>1. CASE /\ (db = "authorized" /\ NoFault) \/ StatementFails
             /\ phase' = [phase EXCEPT ![s] = "registered"]
             /\ activated' = [activated EXCEPT ![s] = (faults' = faults)]
             /\ UNCHANGED <<health, revoked, terminal, urgent, outbound, wireVars>>
    <3>1. StatementFails => faults' # faults
      BY DEF StatementFails, TruthInv
    <3> QED BY <1>q, <2>1, <3>1 DEF TruthInv, wireVars
  <2> QED BY <1>2, <1>r, <1>s, <2>1 DEF activateStream
<1>3. CASE sendAgentPolicy(s)
  BY <1>3, <1>m, <1>e, <1>q DEF sendAgentPolicy, TruthInv, wireVars
<1>4. CASE HealthUpdate(s)
  <2>1. CASE /\ phase' = [phase EXCEPT ![s] = "acking"] /\ phase[s] = "serving"
             /\ UNCHANGED <<activated, revoked, terminal, urgent, outbound, down, mailbox, broken>>
    BY <1>q, <2>1 DEF TruthInv
  <2>2. CASE UNCHANGED <<ctlVars, down, mailbox, broken>>
    BY <1>q, <2>2 DEF TruthInv, ctlVars
  <2> QED BY <1>4, <1>r, <1>s, <2>1, <2>2 DEF HealthUpdate
<1>5. CASE sendAuthorizationAck(s)
  <2>1. Ack(health[s]) \in MailMsg
    BY <1>m DEF TruthInv
  <2>2. outbound' \in [Streams -> Seq(MailMsg)]
    BY <1>5, <1>e, <2>1 DEF sendAuthorizationAck, TruthInv
  <2> QED BY <1>5, <1>q, <2>2 DEF sendAuthorizationAck, TruthInv, wireVars
<1>6. CASE EndAfterTerminal(s)
  BY <1>6, <1>r, <1>s DEF EndAfterTerminal, TruthInv
<1>7. CASE PushOther(s)
  BY <1>7, <1>m, <1>e, <1>q DEF PushOther, TruthInv, wireVars
<1>8. CASE ControlEnds(s)
  BY <1>8, <1>r, <1>s DEF ControlEnds
<1>9. CASE WriterSends(s)
  <2>1. Head(outbound[s]) \in MailMsg /\ Tail(outbound[s]) \in Seq(MailMsg)
    BY <1>9 DEF WriterSends, TruthInv
  <2>2. Head(outbound[s]) \in TrueMsg(db)
    BY <2>1 DEF MailMsg, TrueMsg
  <2>3. Append(down[s], Head(outbound[s])) \in Seq(TrueMsg(db))
    BY <2>2 DEF TruthInv
  <2>4. down' \in [Streams -> Seq(TrueMsg(db))]
    BY <1>9, <2>3 DEF WriterSends, TruthInv
  <2>5. outbound' \in [Streams -> Seq(MailMsg)]
    BY <1>9, <2>1 DEF WriterSends, TruthInv
  <2> QED BY <1>9, <1>q, <2>4, <2>5 DEF WriterSends
<1>10. CASE sendTerminal(s)
  <2>1. Message("ConnectorRevoked") \in TrueMsg(db)
    BY <1>10, <1>s DEF sendTerminal, TruthInv
  <2>2. Append(down[s], Message("ConnectorRevoked")) \in Seq(TrueMsg(db))
    BY <2>1 DEF TruthInv
  <2>3. down' \in [Streams -> Seq(TrueMsg(db))]
    BY <1>10, <2>2 DEF sendTerminal, TruthInv
  <2>4. outbound' \in [Streams -> Seq(MailMsg)]
    BY <1>10 DEF sendTerminal, TruthInv
  <2>5. \A r \in Streams : terminal'[r] # "empty" => terminal[r] # "empty"
    BY <1>10 DEF sendTerminal, TruthInv
  <2> QED BY <1>10, <1>q, <2>3, <2>4, <2>5 DEF sendTerminal
<1> QED BY <1>1, <1>2, <1>3, <1>4, <1>5, <1>6, <1>7, <1>8, <1>9, <1>10 DEF Handler, Writer

\* So do the connector's.
LEMMA SessionTruthStep ==
    ASSUME TruthInv, Session \/ ScheduleTick \/ RenewalDone \/ OldCertExpires
    PROVE  TruthInv'
<1>t. TypeInv'
  BY SessionTypeStep DEF TruthInv
<1>u. /\ UNCHANGED <<now, db, signal, revokedAt, revoked, terminal, outbound, activated>>
      /\ \A r \in Streams : phase'[r] \in LivePhase => phase[r] \in LivePhase
  BY DEF Session, ScheduleTick, RenewalDone, OldCertExpires, Connect, OpenSucceeds, OpenRefused,
         ReadStream, OpenReplacement, CallControl, histVars, wireVars, ctlVars, sessVars,
         TruthInv, TypeInv, TypeOK, LivePhase
<1>q. ASSUME down' \in [Streams -> Seq(TrueMsg(db))], Truthful(tracker', db)
      PROVE  TruthInv'
  <2>1. SignalReachesEveryStream'
    BY <1>u DEF TruthInv, SignalReachesEveryStream
  <2>2. TerminalIsTruthful'
    BY <1>q, <1>u DEF Truthful, TerminalIsTruthful
  <2> QED BY <1>q, <1>t, <1>u, <2>1, <2>2 DEF TruthInv
<1>k. Truthful(tracker, db) /\ tracker \in Tracker /\ now \in Nat
  BY DEF TruthInv, TerminalIsTruthful, Truthful, TypeInv, TypeOK
<1>a. ASSUME NEW t \in Tracker, Truthful(t, db), AttemptEnds(t) PROVE TruthInv'
  <2>1. Truthful(tracker', db)
    BY <1>a, <1>k, TerminalKept DEF AttemptEnds, Truthful
  <2>2. down' \in [Streams -> Seq(TrueMsg(db))]
    BY <1>a DEF AttemptEnds
  <2> QED BY <1>q, <2>1, <2>2
<1>1. CASE Connect \/ OpenReplacement
  <2>1. UNCHANGED down /\ tracker'.terminal = tracker.terminal
    BY <1>1, <1>k, TerminalKept DEF Connect, OpenReplacement, CallControl, wireVars
  <2> QED BY <1>k, <1>q, <2>1 DEF Truthful, TruthInv
<1>2. CASE OpenSucceeds
  <2>1. down' \in [Streams -> Seq(TrueMsg(db))]
    BY <1>2 DEF OpenSucceeds, TruthInv
  <2> QED BY <1>2, <1>k, <1>q, <2>1 DEF OpenSucceeds
<1>3. CASE OpenRefused
  <2> DEFINE t == observe_status(tracker, Head(down[opening]))
  <2>1. opening \in Streams
    BY <1>3 DEF OpenRefused, TruthInv, TypeInv, TypeOK
  <2>2. Head(down[opening]) \in TrueMsg(db)
    BY <1>3, <2>1 DEF OpenRefused, TruthInv
  <2>3. Head(down[opening]) \in Msg
    BY <2>2 DEF TrueMsg
  <2>4. t \in Tracker /\ Truthful(t, db)
    BY <1>k, <2>2, <2>3, ObserveType, ObserveTruth DEF TruthInv, TypeInv, TypeOK
  <2> HIDE DEF t
  <2>5. CASE AttemptEnds(t)
    BY <1>a, <2>4, <2>5
  <2>6. CASE tracker' = t /\ down' = [down EXCEPT ![opening] = << >>]
    <3>1. down' \in [Streams -> Seq(TrueMsg(db))]
      BY <2>1, <2>6 DEF TruthInv
    <3> QED BY <1>q, <2>4, <2>6, <3>1
  <2> QED BY <1>3, <2>5, <2>6 DEF OpenRefused, t
<1>4. CASE ReadStream
  <2> DEFINE m == Head(down[stream])
  <2> DEFINE t == IF IsEnd(m) THEN observe_status(tracker, m)
                  ELSE observe_controller_msg(tracker, m, authz, now)
  <2>1. stream \in Streams /\ authz \in [capable : BOOLEAN, first_seen : BOOLEAN]
    BY <1>4 DEF ReadStream, TruthInv, TypeInv, TypeOK, SessionShape
  <2>2. m \in TrueMsg(db) /\ Tail(down[stream]) \in Seq(TrueMsg(db))
    BY <1>4, <2>1 DEF ReadStream, TruthInv
  <2> HIDE DEF m
  <2>3. m \in Msg
    BY <2>2 DEF TrueMsg
  <2>4. t \in Tracker /\ Truthful(t, db)
    BY <1>k, <2>1, <2>2, <2>3, ObserveType, ObserveTruth
  <2> HIDE DEF t
  <2>5. CASE AttemptEnds(t)
    BY <1>a, <2>4, <2>5
  <2>6. CASE tracker' = t /\ down' = [down EXCEPT ![stream] = Tail(@)]
    <3>1. down' \in [Streams -> Seq(TrueMsg(db))]
      BY <2>2, <2>6 DEF TruthInv
    <3> QED BY <1>q, <2>4, <2>6, <3>1
  <2> QED BY <1>4, <2>5, <2>6 DEF ReadStream, t, m
<1>5. CASE ScheduleTick
  <2>1. next_seq(tracker) \in Tracker /\ Truthful(next_seq(tracker), db)
    BY <1>5, <1>k, NextSeqType, TerminalKept DEF ScheduleTick, Truthful
  <2>2. CASE AttemptEnds(next_seq(tracker))
    BY <1>a, <2>1, <2>2
  <2>3. CASE tracker' = next_seq(tracker) /\ UNCHANGED <<sessVars, down>>
    BY <1>q, <2>1, <2>3 DEF TruthInv
  <2> QED BY <1>5, <2>2, <2>3 DEF ScheduleTick
<1>6. CASE RenewalDone
  BY <1>6, <1>k, <1>q DEF RenewalDone, TruthInv, wireVars
<1>7. CASE OldCertExpires
  BY <1>7, <1>a, <1>k DEF OldCertExpires
<1> QED BY <1>1, <1>2, <1>3, <1>4, <1>5, <1>6, <1>7 DEF Session

\* So do the transport, the clock, the administrator and faults.
LEMMA OtherTruthStep ==
    ASSUME TruthInv,
           \/ ClockTick \/ ExpiryTimer \/ RevokeCommits \/ SignalRevoked \/ RowLost
           \/ ConnectorRestarts \/ ControllerRestarts
           \/ \E s \in Streams : TransportSends(s) \/ StreamBreaks(s)
    PROVE  TruthInv'
<1>t. TypeInv'
  BY OtherTypeStep DEF TruthInv
<1>k. Truthful(tracker, db) /\ tracker \in Tracker /\ now \in Nat
  BY DEF TruthInv, TerminalIsTruthful, Truthful, TypeInv, TypeOK
<1>1. CASE ClockTick
  <2>1. db' # "authorized" => revokedAt' \in Nat /\ revokedAt' <= now'
    BY <1>1, <1>k DEF ClockTick, TruthInv, histVars
  <2> QED BY <1>1, <1>t, <2>1 DEF ClockTick, TruthInv, ctlVars, wireVars, histVars,
             TerminalIsTruthful, SignalReachesEveryStream
<1>2. CASE ExpiryTimer
  <2>1. TerminalIsTruthful'
    BY <1>2, <1>k, TerminalKept DEF ExpiryTimer, TerminalIsTruthful, Truthful
  <2> QED BY <1>2, <1>t, <2>1 DEF ExpiryTimer, TruthInv, ctlVars, wireVars, histVars,
             SignalReachesEveryStream
<1>3. CASE RevokeCommits \/ RowLost
  <2>1. /\ db = "authorized" /\ db' # "authorized" /\ revokedAt' = now /\ now' = now
        /\ UNCHANGED <<ctlVars, wireVars, tracker>>
        /\ signal' # "none" => db' = "revoked"
    BY <1>3 DEF RevokeCommits, RowLost, TruthInv
  <2>2. TrueMsg(db) \subseteq TrueMsg(db')
    BY <2>1 DEF TrueMsg
  <2>3. down' \in [Streams -> Seq(TrueMsg(db'))]
    BY <2>1, <2>2, SeqMono DEF TruthInv, wireVars
  <2>4. TerminalIsTruthful'
    BY <2>1 DEF TruthInv, TerminalIsTruthful
  <2>5. SignalReachesEveryStream'
    BY <1>3, <2>1 DEF RevokeCommits, RowLost, TruthInv, SignalReachesEveryStream
  <2>6. revokedAt' \in Nat /\ revokedAt' <= now'
    BY <1>k, <2>1
  <2> QED BY <1>t, <2>1, <2>3, <2>4, <2>5, <2>6 DEF TruthInv, ctlVars
<1>4. CASE SignalRevoked
  <2>1. db = "revoked"
    BY <1>4 DEF SignalRevoked, TruthInv
  <2>2. SignalReachesEveryStream'
    BY <1>4 DEF SignalRevoked, SignalReachesEveryStream, TruthInv, TypeInv, TypeOK
  <2> QED BY <1>4, <1>t, <2>1, <2>2 DEF SignalRevoked, TruthInv, TerminalIsTruthful, wireVars, histVars
<1>5. CASE ConnectorRestarts
  <2>1. TerminalIsTruthful'
    BY <1>5 DEF ConnectorRestarts, TerminalIsTruthful, NewTracker
  <2>2. down' \in [Streams -> Seq(TrueMsg(db'))]
    BY <1>5 DEF ConnectorRestarts
  <2> QED BY <1>5, <1>t, <2>1, <2>2 DEF ConnectorRestarts, TruthInv, ctlVars, SignalReachesEveryStream
<1>6. CASE ControllerRestarts
  <2>1. \A s \in Streams : Append(down[s], Message("End")) \in Seq(TrueMsg(db))
    BY StatusTruth DEF TruthInv, TypeInv
  <2>2. down' \in [Streams -> Seq(TrueMsg(db'))]
    BY <1>6, <2>1 DEF ControllerRestarts, TruthInv
  <2>3. \A s \in Streams : phase'[s] \in LivePhase => phase[s] \in LivePhase
    BY <1>6 DEF ControllerRestarts, LivePhase
  <2>4. SignalReachesEveryStream'
    BY <1>6, <2>3 DEF ControllerRestarts, TruthInv, SignalReachesEveryStream
  <2>5. outbound' \in [Streams -> Seq(MailMsg)] /\ \A s \in Streams : terminal'[s] = "empty"
    BY <1>6 DEF ControllerRestarts
  <2> QED BY <1>6, <1>t, <2>2, <2>4, <2>5 DEF ControllerRestarts, TruthInv, TerminalIsTruthful, histVars
<1>7. ASSUME NEW s \in Streams, TransportSends(s) PROVE TruthInv'
  <2>1. Head(mailbox[s]) \in Seqs
    BY <1>7 DEF TransportSends, TruthInv, TypeInv, TypeOK
  <2>2. tracker'.terminal = tracker.terminal
    BY <1>7, <1>k, <2>1, TerminalKept DEF TransportSends
  <2> QED BY <1>7, <1>t, <2>2 DEF TransportSends, TruthInv, TerminalIsTruthful, ctlVars,
             SignalReachesEveryStream
<1>8. ASSUME NEW s \in Streams, StreamBreaks(s) PROVE TruthInv'
  <2>1. PICK n \in 0..Len(down[s]) :
          down' = [down EXCEPT ![s] = Append(SubSeq(@, 1, n), Message("End"))]
    BY <1>8 DEF StreamBreaks
  <2>2. SubSeq(down[s], 1, n) \in Seq(TrueMsg(db)) /\ Message("End") \in TrueMsg(db)
    BY StatusTruth DEF TruthInv, TypeInv
  <2>3. Append(SubSeq(down[s], 1, n), Message("End")) \in Seq(TrueMsg(db))
    BY <2>2
  <2>4. down' \in [Streams -> Seq(TrueMsg(db))]
    BY <2>1, <2>3 DEF TruthInv
  <2> QED BY <1>8, <1>t, <2>4 DEF StreamBreaks, TruthInv, TerminalIsTruthful, ctlVars, histVars,
             SignalReachesEveryStream
<1> QED BY <1>1, <1>2, <1>3, <1>4, <1>5, <1>6, <1>7, <1>8

\* Every step keeps the truth.
LEMMA TruthStep == TruthInv /\ [Next]_vars => TruthInv'
<1> SUFFICES ASSUME TruthInv, [Next]_vars PROVE TruthInv'
  OBVIOUS
<1>1. CASE UNCHANGED vars
  <2>1. TypeInv'
    BY <1>1, TypeStep DEF TruthInv
  <2> QED BY <1>1, <2>1 DEF TruthInv, TerminalIsTruthful, SignalReachesEveryStream,
             vars, ctlVars, wireVars, histVars
<1>2. CASE Next
  BY <1>2, HandlerTruthStep, SessionTruthStep, OtherTruthStep DEF Next
<1> QED BY <1>1, <1>2

\* A connector takes itself for revoked or unknown only if the database says
\* so: failed lookups, broken streams and restarts never park it.
THEOREM TerminalTruth == Spec => []TerminalIsTruthful
<1>1. TruthInv => TerminalIsTruthful
  BY DEF TruthInv
<1> QED BY <1>1, TruthInit, TruthStep, PTL DEF Spec

\* SignalRevoked reaches every activated stream, whatever the order of
\* activation, commit and signal.
THEOREM SignalReaches == Spec => []SignalReachesEveryStream
<1>1. TruthInv => SignalReachesEveryStream
  BY DEF TruthInv
<1> QED BY <1>1, TruthInit, TruthStep, PTL DEF Spec

-----------------------------------------------------------------------------
(* What the tracker's methods do to freshness *)

\* From t to u nothing is gained: same send record, no later deadline.
Calm(t, u) ==
    /\ u.sent = t.sent
    /\ u.highest_accepted = t.highest_accepted
    /\ Open(u.state) => Open(t.state) /\ u.deadline = t.deadline
    /\ ~Open(u.state) /\ Open(t.state) => u.deadline = Never
    /\ ~Open(u.state) /\ ~Open(t.state) => u.deadline \in {Never, t.deadline}

\* Only an ack gains authorization.
LEMMA CalmSteps ==
    ASSUME NEW t \in Tracker, NEW at \in Nat
    PROVE  /\ Calm(t, expire(t, at))
           /\ Calm(t, stream_up(t, at))
           /\ Calm(t, stream_down(t, at))
           /\ Calm(t, next_seq(t))
           /\ Calm(t, seq_for_replacement(t))
           /\ \A sig \in TerminalSignal : Calm(t, on_terminal(t, sig))
<1> USE DEF Calm, Open, transition, Tracker, ServingState, TerminalSignal
<1>1. Calm(t, expire(t, at))
  BY DEF expire
<1>2. expire(t, at) \in Tracker
  BY ExpireType
<1>3. Calm(t, stream_up(t, at))
  BY <1>1, <1>2 DEF stream_up
<1>4. Calm(t, stream_down(t, at))
  BY <1>1, <1>2 DEF stream_down
<1>5. Calm(t, next_seq(t)) /\ Calm(t, seq_for_replacement(t))
  BY DEF next_seq, seq_for_replacement
<1>6. ASSUME NEW sig \in TerminalSignal PROVE Calm(t, on_terminal(t, sig))
  BY DEF on_terminal
<1> QED BY <1>1, <1>3, <1>4, <1>5, <1>6

\* What gains nothing stays fresh.
LEMMA CalmFresh ==
    ASSUME NEW t \in Tracker, NEW u \in Tracker, NEW f \in [Seqs -> Instant],
           NEW hz \in Nat, NEW at \in Nat, Fresh(t, f, hz, at), Calm(t, u)
    PROVE  Fresh(u, f, hz, at)
BY DEF Fresh, Calm

\* Time only makes evidence older.
LEMMA TimeFresh ==
    ASSUME NEW t \in Tracker, NEW f \in [Seqs -> Instant],
           NEW hz \in Nat, NEW at \in Nat, NEW hz2 \in Nat, NEW at2 \in Nat,
           Fresh(t, f, hz, at), hz <= hz2, at <= at2
    PROVE  Fresh(t, f, hz2, at2)
<1>1. Open(t.state) => t.deadline <= hz2 + H
  BY ConstantsAssumption DEF Fresh, Tracker, Instant, Never
<1>2. \A k \in Seqs : f[k] # Never /\ f[k] + H <= at => f[k] + H <= at2
  BY ConstantsAssumption DEF Instant
<1> QED BY <1>1, <1>2 DEF Fresh

\* An ack of a report that was first sent under authorization keeps the
\* deadline within H of that send.
LEMMA AckFresh ==
    ASSUME NEW t \in Tracker, NEW f \in [Seqs -> Instant], NEW hz \in Nat, NEW at \in Nat,
           NEW k \in 0..MaxSeq, NEW capable \in BOOLEAN, Fresh(t, f, hz, at),
           k \in Seqs => Evident(k, f, hz)
    PROVE  Fresh(on_ack(t, k, capable, at), f, hz, at)
<1> DEFINE e == expire(t, at)
<1> DEFINE r == on_ack(t, k, capable, at)
<1>1. e \in Tracker /\ Fresh(e, f, hz, at)
  BY ExpireType, CalmSteps, CalmFresh
<1>2. r \in Tracker
  BY OnAckType
<1>3. CASE ~Accepts(e, k, capable, at)
  BY <1>1, <1>3 DEF on_ack
<1>4. CASE Accepts(e, k, capable, at)
  <2> DEFINE kept == [j \in Seqs |-> IF j > k THEN e.sent[j] ELSE Never]
  <2> DEFINE d == DeadlineOf(e, k, at)
  <2>1. k \in Seqs /\ k > e.highest_accepted /\ e.sent[k] # Never
    BY <1>1, <1>4, ConstantsAssumption DEF Accepts, Tracker, Seqs
  <2>2. e.sent[k] = f[k] /\ f[k] \in Nat /\ f[k] <= hz
    BY <1>1, <2>1 DEF Fresh, Evident, Instant
  <2>3. r = transition([e EXCEPT !.highest_accepted = k, !.sent = kept, !.deadline = d], "Serving")
    BY <1>4 DEF on_ack
  <2>4. r.state = "Serving" /\ r.highest_accepted = k /\ r.sent = kept /\ r.deadline = d
    <3> HIDE DEF e, d, kept
    <3> QED BY <1>1, <2>3 DEF transition, Tracker, Open
  <2>5. d = IF e.deadline > f[k] + H THEN e.deadline ELSE f[k] + H
    BY <2>2 DEF DeadlineOf
  <2> HIDE DEF e, d, r
  <2>6. e.deadline \in Instant /\ e.highest_accepted \in 0..MaxSeq
    BY <1>1 DEF Tracker
  <2>7. CASE Open(e.state) /\ e.deadline > f[k] + H
    <3>1. d = e.deadline /\ d <= hz + H
      BY <1>1, <2>5, <2>7 DEF Fresh
    <3>2. PICK j \in Seqs : j <= e.highest_accepted /\ f[j] # Never /\ e.deadline <= f[j] + H
      BY <1>1, <2>7 DEF Fresh
    <3>3. j <= k /\ f[j] # Never /\ d <= f[j] + H
      BY <2>1, <2>6, <3>1, <3>2, ConstantsAssumption DEF Seqs
    <3>4. \A i \in Seqs : i > k =>
             IF kept[i] = Never THEN f[i] # Never => f[i] + H <= at ELSE kept[i] = f[i]
      BY <1>1, <2>1, <2>6 DEF Fresh, Seqs
    <3> HIDE DEF kept
    <3> QED BY <2>4, <3>1, <3>3, <3>4 DEF Fresh, r, Open
  <2>8. CASE ~(Open(e.state) /\ e.deadline > f[k] + H)
    <3>1. d = f[k] + H
      BY <1>1, <2>2, <2>5, <2>8, ConstantsAssumption DEF Fresh, Never
    <3>2. d <= hz + H /\ d <= f[k] + H /\ k <= k
      BY <2>1, <2>2, <3>1, ConstantsAssumption DEF Seqs
    <3>3. \A i \in Seqs : i > k =>
             IF kept[i] = Never THEN f[i] # Never => f[i] + H <= at ELSE kept[i] = f[i]
      BY <1>1, <2>1, <2>6 DEF Fresh, Seqs
    <3>4. f[k] # Never
      BY <2>2 DEF Never
    <3> HIDE DEF kept
    <3> QED BY <2>1, <2>4, <3>2, <3>3, <3>4 DEF Fresh, r, Open
  <2> QED BY <2>7, <2>8
<1> QED BY <1>3, <1>4

\* When report k is sent, f[k] becomes its first send.
FirstSent(f, k, at) == [f EXCEPT ![k] = IF @ = Never THEN at ELSE @]

\* Sending a report promptly, for the first time or again, records its first
\* send.  Here the pruning matters: a pruned report is H old.
LEMMA SendFresh ==
    ASSUME NEW t \in Tracker, NEW f \in [Seqs -> Instant], NEW hz \in Nat, NEW at \in Nat,
           NEW k \in Seqs, Fresh(t, f, hz, at), f[k] = Never \/ at < f[k] + H
    PROVE  Fresh(record_sent(t, k, at), FirstSent(f, k, at), hz, at)
<1> DEFINE g == FirstSent(f, k, at)
<1> DEFINE inserted == [t.sent EXCEPT ![k] = IF @ = Never THEN at ELSE @]
<1> DEFINE kept == [j \in Seqs |->
            IF inserted[j] # Never /\ at < inserted[j] + H THEN inserted[j] ELSE Never]
<1> DEFINE r == record_sent(t, k, at)
<1>1. /\ r.state = t.state /\ r.deadline = t.deadline
      /\ r.highest_accepted = t.highest_accepted /\ r.sent = kept
  BY DEF record_sent, Tracker
<1>2. g \in [Seqs -> Instant] /\ \A j \in Seqs : f[j] # Never => g[j] = f[j]
  BY DEF FirstSent, Instant
<1>3. t.sent \in [Seqs -> Instant]
  BY DEF Tracker
<1>4. ASSUME NEW j \in Seqs, j > t.highest_accepted
      PROVE  IF kept[j] = Never THEN g[j] # Never => g[j] + H <= at ELSE kept[j] = g[j]
  <2>1. IF t.sent[j] = Never THEN f[j] # Never => f[j] + H <= at ELSE t.sent[j] = f[j]
    BY <1>4 DEF Fresh
  <2>2. CASE j = k /\ t.sent[k] = Never
    <3>1. f[k] = Never
      BY <2>1, <2>2, ConstantsAssumption DEF Instant
    <3>2. g[j] = at /\ inserted[j] = at /\ at < at + H /\ at # Never
      BY <1>3, <2>2, <3>1, ConstantsAssumption DEF FirstSent, Never
    <3> QED BY <3>2
  <2>3. CASE ~(j = k /\ t.sent[k] = Never)
    <3>1. inserted[j] = t.sent[j]
      BY <1>3, <2>3
    <3>2. g[j] = f[j]
      BY <1>2, <2>1, <2>3 DEF FirstSent
    <3>3. t.sent[j] \in Instant
      BY <1>3
    <3> QED BY <2>1, <3>1, <3>2, <3>3, ConstantsAssumption DEF Instant, Never
  <2> QED BY <2>2, <2>3
<1> HIDE DEF kept, g, r
<1>5. ASSUME Open(t.state)
      PROVE  \E j \in Seqs : j <= t.highest_accepted /\ g[j] # Never /\ t.deadline <= g[j] + H
  BY <1>2, <1>5 DEF Fresh
<1>6. Fresh(r, g, hz, at)
  BY <1>1, <1>4, <1>5 DEF Fresh
<1> QED BY <1>6 DEF r, g

\* Reading a message that is backed keeps the tracker fresh.
LEMMA ObserveFresh ==
    ASSUME NEW t \in Tracker, NEW f \in [Seqs -> Instant], NEW hz \in Nat, NEW at \in Nat,
           NEW a \in [capable : BOOLEAN, first_seen : BOOLEAN],
           NEW m \in Backed(f, hz), Fresh(t, f, hz, at)
    PROVE  /\ Fresh(observe_status(t, m), f, hz, at)
           /\ Fresh(observe_controller_msg(t, m, a, at), f, hz, at)
<1>1. m \in Msg /\ m.seq \in 0..MaxSeq
  BY DEF Backed, Msg
<1> DEFINE u == IF a.first_seen THEN t ELSE stream_up(t, at)
<1>2. u \in Tracker /\ Fresh(u, f, hz, at)
  BY StreamUpType, CalmSteps, CalmFresh
<1>0. ASSUME NEW x \in Tracker, Fresh(x, f, hz, at), NEW sig \in TerminalSignal
      PROVE  Fresh(on_terminal(x, sig), f, hz, at)
  BY <1>0, OnTerminalType, CalmSteps, CalmFresh
<1> HIDE DEF u
<1>3. m.kind = "Ack" => Fresh(on_ack(u, m.seq, a.capable, at), f, hz, at)
  BY <1>1, <1>2, AckFresh DEF Backed
<1>4. Fresh(on_terminal(u, "Revoked"), f, hz, at)
  BY <1>0, <1>2 DEF TerminalSignal
<1>5. Fresh(observe_controller_msg(t, m, a, at), f, hz, at)
  BY <1>2, <1>3, <1>4 DEF observe_controller_msg, u
<1>6. Fresh(observe_status(t, m), f, hz, at)
  BY <1>0 DEF observe_status, TerminalSignal
<1> QED BY <1>5, <1>6

-----------------------------------------------------------------------------
(* The freshness invariant is inductive *)

\* The horizon is an instant that has passed.
LEMMA HorizonType == TruthInv => Horizon \in Nat /\ Horizon <= now
BY DEF TruthInv, TypeInv, TypeOK, Horizon

\* Evidence is kept when the record of first sends grows and time passes.
LEMMA BackedMono ==
    ASSUME NEW f \in [Seqs -> Instant], NEW g \in [Seqs -> Instant],
           NEW hz \in Nat, NEW hz2 \in Nat, hz <= hz2,
           \A k \in Seqs : f[k] # Never => g[k] = f[k]
    PROVE  /\ Seq(Backed(f, hz)) \subseteq Seq(Backed(g, hz2))
           /\ Seq(Sent(f)) \subseteq Seq(Sent(g))
           /\ \A k \in Seqs : Evident(k, f, hz) => Evident(k, g, hz2)
<1>1. \A k \in Seqs : Evident(k, f, hz) => Evident(k, g, hz2)
  BY DEF Evident, Instant, Never
<1>2. Backed(f, hz) \subseteq Backed(g, hz2)
  BY <1>1 DEF Backed
<1>3. Sent(f) \subseteq Sent(g)
  BY DEF Sent
<1> QED BY <1>1, <1>2, <1>3, SeqMono

\* Messages other than acks need no evidence.
LEMMA PlainBacked ==
    ASSUME NEW kind \in Kind \ {"Ack"}, NEW f, NEW hz
    PROVE  Message(kind) \in Backed(f, hz)
BY MessageType DEF Message, Backed

\* Initially nothing has been sent.
LEMMA FreshInit == Init => FreshInv
<1> SUFFICES ASSUME Init PROVE FreshInv
  OBVIOUS
<1>1. TruthInv
  BY TruthInit
<1>2. StreamShape
  BY ConstantsAssumption DEF Init, StreamShape
<1>3. Fresh(tracker, first, Horizon, now)
  BY DEF Init, Fresh, NewTracker, Open
<1>4. \A k \in Seqs : first[k] <= now
  BY DEF Init, Never
<1> QED BY <1>1, <1>2, <1>3, <1>4 DEF Init, FreshInv

\* Evidence on stream s.
StreamFresh(s) ==
    s > base =>
        /\ up[s] \in Seq(Sent(first))
        /\ outbound[s] \in Seq(Backed(first, Horizon))
        /\ down[s] \in Seq(Backed(first, Horizon))
        /\ phase[s] = "acking" => health[s] \in Seqs /\ Evident(health[s], first, Horizon)

\* The controller acknowledges only what was sent before the revocation.
LEMMA HandlerFreshStep ==
    ASSUME FreshInv, NEW s \in Streams,
           Handler(s) \/ PushOther(s) \/ ControlEnds(s) \/ Writer(s)
    PROVE  FreshInv'
<1>t. TruthInv'
  BY HandlerTruthStep DEF FreshInv
<1>u. /\ UNCHANGED <<now, db, tracker, revokedAt, first, base, opened, stream, opening>>
      /\ phase[s] # "unused"
  BY DEF Handler, PushOther, ControlEnds, Writer, ControlLookup, activateStream, sendAgentPolicy,
         HealthUpdate, sendAuthorizationAck, EndAfterTerminal, WriterSends, sendTerminal,
         HandlerReturns, sessVars, histVars, boundVars, LivePhase, HandlerPhase
<1>o. \A r \in Streams \ {s} :
         /\ phase'[r] = phase[r] /\ health'[r] = health[r]
         /\ outbound'[r] = outbound[r] /\ up'[r] = up[r] /\ down'[r] = down[r]
         /\ mailbox'[r] = mailbox[r]
  <2> SUFFICES ASSUME NEW r \in Streams \ {s}
               PROVE  /\ phase'[r] = phase[r] /\ health'[r] = health[r]
                      /\ outbound'[r] = outbound[r] /\ up'[r] = up[r] /\ down'[r] = down[r]
                      /\ mailbox'[r] = mailbox[r]
    OBVIOUS
  <2> USE DEF FreshInv, TruthInv, TypeInv, TypeOK
  <2>1. \A m : Enqueued(s, m)[r] = outbound[r]
    BY DEF Enqueued
  <2>2. CASE \E m : HandlerReturns(s, m)
    BY <2>2 DEF HandlerReturns
  <2>3. CASE ControlLookup(s) \/ activateStream(s) \/ EndAfterTerminal(s) \/ ControlEnds(s)
    BY <2>2, <2>3 DEF ControlLookup, activateStream, EndAfterTerminal, ControlEnds, wireVars
  <2>4. CASE HealthUpdate(s)
    BY <2>2, <2>4 DEF HealthUpdate, ctlVars
  <2>5. CASE sendAgentPolicy(s) \/ PushOther(s)
    <3>2. \/ outbound' = Enqueued(s, Message("Policy"))
          \/ outbound' = Enqueued(s, Message("Other"))
      BY <2>5 DEF sendAgentPolicy, PushOther
    <3>1. outbound'[r] = outbound[r]
      BY <2>1, <3>2, SMTT(20)
    <3> QED BY <2>5, <3>1 DEF sendAgentPolicy, PushOther, wireVars
  <2>7. CASE sendAuthorizationAck(s)
    <3>1. outbound'[r] = outbound[r]
      BY <2>1, <2>7 DEF sendAuthorizationAck
    <3> QED BY <2>7, <3>1 DEF sendAuthorizationAck, wireVars
  <2>6. CASE Writer(s)
    BY <2>6 DEF Writer, WriterSends, sendTerminal
  <2> QED BY <2>3, <2>4, <2>5, <2>6, <2>7 DEF Handler
<1>h. Horizon' = Horizon
  BY <1>u DEF Horizon
<1>q. ASSUME StreamFresh(s)' PROVE FreshInv'
  <2>1. \A r \in Streams : StreamFresh(r)'
    BY <1>q, <1>o, <1>u, <1>h DEF FreshInv, StreamFresh
  <2>2. StreamShape'
    BY <1>o, <1>u DEF FreshInv, StreamShape
  <2>3. Fresh(tracker, first, Horizon, now)'
    BY <1>u, <1>h DEF FreshInv
  <2> QED BY <1>t, <1>u, <2>1, <2>2, <2>3 DEF FreshInv, StreamFresh
<1> SUFFICES ASSUME s > base PROVE StreamFresh(s)'
  BY <1>q, <1>u DEF StreamFresh
<1> DEFINE B == Backed(first, Horizon)
<1>k. /\ up[s] \in Seq(Sent(first)) /\ outbound[s] \in Seq(B) /\ down[s] \in Seq(B)
      /\ phase[s] = "acking" => health[s] \in Seqs /\ Evident(health[s], first, Horizon)
  BY DEF FreshInv
<1>g. ASSUME up'[s] \in Seq(Sent(first)), outbound'[s] \in Seq(B), down'[s] \in Seq(B),
             phase'[s] = "acking" => health'[s] \in Seqs /\ Evident(health'[s], first, Horizon)
      PROVE  StreamFresh(s)'
  BY <1>g, <1>u, <1>h DEF StreamFresh
<1>m. \A kind \in Kind \ {"Ack"} : Message(kind) \in B
  BY PlainBacked
<1>j. rejectionFor(db) \in B
  BY <1>m DEF rejectionFor, Kind
<1>c. phase \in [Streams -> HandlerPhase \cup {"unused", "ended"}]
      /\ health \in [Streams -> 0..MaxSeq] /\ up \in [Streams -> Seq(Seqs)]
      /\ outbound \in [Streams -> Seq(Msg)] /\ down \in [Streams -> Seq(Msg)]
  BY DEF FreshInv, TruthInv, TypeInv, TypeOK
<1> HIDE DEF B
<1>r. ASSUME NEW m \in B, HandlerReturns(s, m) PROVE StreamFresh(s)'
  <2>1. Append(down[s], m) \in Seq(B)
    BY <1>k
  <2>2. down'[s] \in Seq(B)
    BY <1>r, <1>k, <1>c, <2>1 DEF HandlerReturns
  <2>3. up'[s] = << >> /\ outbound'[s] = << >> /\ phase'[s] = "ended"
    BY <1>r, <1>c DEF HandlerReturns
  <2> QED BY <1>g, <2>2, <2>3
<1>e. ASSUME NEW m \in B PROVE Enqueued(s, m)[s] \in Seq(B)
  <2>1. Append(outbound[s], m) \in Seq(B)
    BY <1>k
  <2> QED BY <1>k, <1>c, <2>1 DEF Enqueued
<1>1. CASE ControlLookup(s)
  <2>1. CASE phase' = [phase EXCEPT ![s] = "looked"]
             /\ UNCHANGED <<health, activated, revoked, terminal, urgent, outbound, wireVars>>
    BY <1>c, <1>k, <1>g, <2>1 DEF wireVars
  <2> QED BY <1>1, <1>r, <1>m, <1>j, <2>1 DEF ControlLookup, Kind
<1>2. CASE activateStream(s)
  <2>1. CASE phase' = [phase EXCEPT ![s] = "registered"]
             /\ UNCHANGED <<health, revoked, terminal, urgent, outbound, wireVars>>
    BY <1>c, <1>k, <1>g, <2>1 DEF wireVars
  <2> QED BY <1>2, <1>r, <1>m, <1>j, <2>1 DEF activateStream, Kind
<1>3. CASE sendAgentPolicy(s)
  BY <1>3, <1>c, <1>e, <1>g, <1>k, <1>m DEF sendAgentPolicy, wireVars, Kind
<1>4. CASE HealthUpdate(s)
  <2>0. Head(up[s]) \in Sent(first) /\ Tail(up[s]) \in Seq(Sent(first))
    BY <1>4, <1>k DEF HealthUpdate
  <2>1. CASE /\ HealthMatches
             /\ phase' = [phase EXCEPT ![s] = "acking"]
             /\ health' = [health EXCEPT ![s] = Head(up[s])]
             /\ up' = [up EXCEPT ![s] = Tail(@)]
             /\ UNCHANGED <<activated, revoked, terminal, urgent, outbound, down, mailbox, broken>>
    <3>1. Head(up[s]) \in Seqs /\ Evident(Head(up[s]), first, Horizon)
      BY <2>0, <2>1 DEF Sent, Evident, Horizon, HealthMatches, FreshInv
    <3> QED BY <1>c, <1>g, <1>k, <2>0, <2>1, <3>1
  <2>2. CASE up' = [up EXCEPT ![s] = Tail(@)] /\ UNCHANGED <<ctlVars, down, mailbox, broken>>
    BY <1>c, <1>g, <1>k, <2>0, <2>2 DEF ctlVars
  <2> QED BY <1>4, <1>r, <1>m, <1>j, <2>1, <2>2 DEF HealthUpdate, Kind
<1>5. CASE sendAuthorizationAck(s)
  <2>1. health[s] \in Seqs /\ Evident(health[s], first, Horizon)
    BY <1>5, <1>k DEF sendAuthorizationAck
  <2>2. Ack(health[s]) \in B
    BY <1>c, <2>1, MessageType DEF Ack, Backed, B
  <2>3. outbound'[s] \in Seq(B)
    BY <1>5, <1>e, <1>k, <2>2 DEF sendAuthorizationAck
  <2>4. phase'[s] = "serving" /\ up' = up /\ down' = down
    BY <1>5, <1>c DEF sendAuthorizationAck, wireVars
  <2> QED BY <1>g, <1>k, <2>3, <2>4
<1>6. CASE EndAfterTerminal(s)
  BY <1>6, <1>r, <1>m DEF EndAfterTerminal, Kind
<1>7. CASE PushOther(s)
  BY <1>7, <1>c, <1>e, <1>g, <1>k, <1>m DEF PushOther, wireVars, Kind
<1>8. CASE ControlEnds(s)
  BY <1>8, <1>r, <1>m DEF ControlEnds, Kind
<1>9. CASE WriterSends(s)
  <2>1. Head(outbound[s]) \in B /\ Tail(outbound[s]) \in Seq(B)
    BY <1>9, <1>k DEF WriterSends
  <2>2. Append(down[s], Head(outbound[s])) \in Seq(B)
    BY <1>k, <2>1
  <2>3. down'[s] \in Seq(B) /\ outbound'[s] \in Seq(B)
    BY <1>9, <1>c, <1>k, <2>1, <2>2 DEF WriterSends
  <2> QED BY <1>9, <1>g, <1>k, <2>3 DEF WriterSends
<1>10. CASE sendTerminal(s)
  <2>1. Append(down[s], Message("ConnectorRevoked")) \in Seq(B)
    BY <1>k, <1>m DEF Kind
  <2>2. down'[s] \in Seq(B) /\ outbound'[s] = << >>
    BY <1>10, <1>c, <1>k, <2>1 DEF sendTerminal
  <2> QED BY <1>10, <1>g, <1>k, <2>2 DEF sendTerminal
<1> QED BY <1>1, <1>2, <1>3, <1>4, <1>5, <1>6, <1>7, <1>8, <1>9, <1>10 DEF Handler, Writer

\* The connector reads only evidence of its own streams.
LEMMA SessionFreshStep ==
    ASSUME FreshInv, Session \/ ScheduleTick \/ RenewalDone \/ OldCertExpires
    PROVE  FreshInv'
<1>t. TruthInv'
  BY SessionTruthStep DEF FreshInv
<1>u. UNCHANGED <<now, db, revokedAt, first, base, outbound, up, health>>
  BY DEF Session, ScheduleTick, RenewalDone, OldCertExpires, Connect, OpenSucceeds, OpenRefused,
         ReadStream, OpenReplacement, CallControl, histVars, wireVars, ctlVars
<1>h. Horizon' = Horizon
  BY <1>u DEF Horizon
<1> DEFINE B == Backed(first, Horizon)
<1>y. /\ tracker \in Tracker /\ first \in [Seqs -> Instant] /\ now \in Nat /\ Horizon \in Nat
      /\ phase \in [Streams -> HandlerPhase \cup {"unused", "ended"}]
      /\ down \in [Streams -> Seq(Msg)] /\ opened \in 0..MaxStreams /\ base \in 0..MaxStreams
      /\ authz \in [capable : BOOLEAN, first_seen : BOOLEAN]
      /\ stream \in Streams \cup {NoStream} /\ opening \in Streams \cup {NoStream}
      /\ mode = "session" => stream # NoStream
      /\ mailbox \in [Streams -> Seq(Seqs)] /\ << >> \in Seq(B)
  <2>1. TypeOK /\ SessionShape
    BY DEF FreshInv, TruthInv, TypeInv
  <2>2. /\ tracker \in Tracker /\ first \in [Seqs -> Instant] /\ now \in Nat
        /\ phase \in [Streams -> HandlerPhase \cup {"unused", "ended"}]
        /\ down \in [Streams -> Seq(Msg)] /\ opened \in 0..MaxStreams /\ base \in 0..MaxStreams
        /\ authz \in [capable : BOOLEAN, first_seen : BOOLEAN]
        /\ stream \in Streams \cup {NoStream} /\ opening \in Streams \cup {NoStream}
        /\ mailbox \in [Streams -> Seq(Seqs)]
    BY <2>1 DEF TypeOK
  <2>3. mode = "session" => stream # NoStream
    BY <2>1 DEF SessionShape
  <2>4. Horizon \in Nat
    BY <2>1, HorizonType DEF FreshInv, TruthInv, TypeInv
  <2>5. << >> \in Seq(B)
    OBVIOUS
  <2> QED BY <2>2, <2>3, <2>4, <2>5
<1>f. Fresh(tracker, first, Horizon, now)
  BY DEF FreshInv
<1>q. ASSUME StreamShape', Fresh(tracker', first, Horizon, now),
             \A s \in Streams : down'[s] \in Seq(B) \/ down'[s] = down[s],
             \A s \in Streams : phase'[s] = "acking" => phase[s] = "acking"
      PROVE  FreshInv'
  BY <1>q, <1>t, <1>u, <1>h DEF FreshInv
<1>s. \A s \in {stream, opening} : s \in Streams => base < s /\ s <= opened
  BY DEF FreshInv, StreamShape, Streams, NoStream
<1>c. ASSUME NEW x \in Tracker, Calm(tracker, x) PROVE Fresh(x, first, Horizon, now)
  BY <1>c, <1>f, <1>y, CalmFresh
<1>a. ASSUME NEW t \in Tracker, Fresh(t, first, Horizon, now), AttemptEnds(t),
             UNCHANGED <<opened, phase, mailbox>>
      PROVE  FreshInv'
  <2>1. Fresh(tracker', first, Horizon, now)
    BY <1>a, <1>y, StreamDownType, CalmSteps, CalmFresh DEF AttemptEnds
  <2>2. \A s \in Streams : down'[s] = << >>
    BY <1>a DEF AttemptEnds
  <2>3. StreamShape'
    BY <1>a, <1>u, <2>2 DEF AttemptEnds, FreshInv, StreamShape
  <2> QED BY <1>q, <1>a, <1>y, <2>1, <2>2, <2>3
<1>b. ASSUME NEW k, CallControl(k), UNCHANGED stream PROVE StreamShape' /\ UNCHANGED down
             /\ \A s \in Streams : phase'[s] = "acking" => phase[s] = "acking"
  <2>1. opened' = opened + 1 /\ opening' = opened + 1 /\ UNCHANGED <<down, mailbox>>
    BY <1>b DEF CallControl, wireVars
  <2>2. \A s \in Streams : s > opened' => s > opened /\ phase'[s] = phase[s]
    BY <1>b, <1>y, <2>1 DEF CallControl, Streams
  <2>3. base <= opened' /\ \A s \in {stream', opening'} : s # NoStream => base < s /\ s <= opened'
    BY <1>b, <1>y, <2>1 DEF FreshInv, StreamShape, Streams, NoStream
  <2>4. StreamShape'
    BY <1>u, <2>1, <2>2, <2>3 DEF FreshInv, StreamShape
  <2> QED BY <1>b, <1>y, <2>1, <2>4 DEF CallControl
<1>1. CASE Connect \/ OpenReplacement
  <2>0. tracker' \in Tracker
    BY <1>t DEF TruthInv, TypeInv, TypeOK
  <2>1. Calm(tracker, tracker')
    BY <1>1, <1>y, CalmSteps DEF Connect, OpenReplacement
  <2>2. (\E k : CallControl(k)) /\ UNCHANGED stream
    BY <1>1 DEF Connect, OpenReplacement
  <2> QED BY <1>b, <1>c, <1>q, <2>0, <2>1, <2>2
<1>2. CASE OpenSucceeds
  <2>1. /\ UNCHANGED <<tracker, phase, opened>> /\ stream' = opening /\ opening' = NoStream
        /\ \A s \in Streams : down'[s] = << >> \/ down'[s] = down[s]
    BY <1>2 DEF OpenSucceeds, ctlVars, boundVars
  <2>2. \A s \in Streams : s > opened => mailbox'[s] = mailbox[s]
    BY <1>2, <1>s, <1>y DEF OpenSucceeds, Streams
  <2>3. StreamShape'
    BY <1>u, <2>1, <2>2 DEF FreshInv, StreamShape
  <2> QED BY <1>f, <1>q, <1>y, <2>1, <2>3
<1>3. CASE OpenRefused
  <2> DEFINE t == observe_status(tracker, Head(down[opening]))
  <2>1. opening \in Streams /\ opening > base /\ opening # NoStream
    BY <1>3, <1>y DEF OpenRefused, FreshInv, StreamShape
  <2>2. Head(down[opening]) \in B
    BY <1>3, <2>1 DEF OpenRefused, FreshInv
  <2>3. t \in Tracker /\ Fresh(t, first, Horizon, now)
    <3>1. Head(down[opening]) \in Msg
      BY <2>2 DEF Backed
    <3> QED BY <1>f, <1>y, <2>2, <3>1, ObserveType, ObserveFresh
  <2>4. UNCHANGED <<opened, phase, mailbox>>
    BY <1>3 DEF OpenRefused, ctlVars, boundVars
  <2> HIDE DEF t
  <2>5. CASE AttemptEnds(t)
    BY <1>a, <2>3, <2>4, <2>5
  <2>6. CASE tracker' = t /\ down' = [down EXCEPT ![opening] = << >>] /\ opening' = NoStream
             /\ UNCHANGED stream
    <3>1. \A s \in Streams : down'[s] = << >> \/ down'[s] = down[s]
      BY <1>y, <2>6
    <3>2. StreamShape'
      BY <1>u, <2>4, <2>6, <3>1 DEF FreshInv, StreamShape
    <3> QED BY <1>q, <1>y, <2>3, <2>4, <2>6, <3>1, <3>2
  <2> QED BY <1>3, <2>5, <2>6 DEF OpenRefused, t
<1>4. CASE ReadStream
  <2> DEFINE m == Head(down[stream])
  <2> DEFINE t == IF IsEnd(m) THEN observe_status(tracker, m)
                  ELSE observe_controller_msg(tracker, m, authz, now)
  <2>1. stream \in Streams /\ stream > base /\ stream <= opened
    BY <1>4, <1>y DEF ReadStream, FreshInv, StreamShape
  <2>2. m \in B /\ Tail(down[stream]) \in Seq(B)
    BY <1>4, <2>1 DEF ReadStream, FreshInv
  <2> HIDE DEF m
  <2>3. t \in Tracker /\ Fresh(t, first, Horizon, now)
    <3>1. m \in Msg
      BY <2>2 DEF Backed
    <3> QED BY <1>f, <1>y, <2>2, <3>1, ObserveType, ObserveFresh
  <2>4. UNCHANGED <<opened, phase, mailbox>>
    BY <1>4 DEF ReadStream, ctlVars, boundVars
  <2> HIDE DEF t, B
  <2>5. CASE AttemptEnds(t)
    BY <1>a, <2>3, <2>4, <2>5
  <2>6. CASE tracker' = t /\ down' = [down EXCEPT ![stream] = Tail(@)]
             /\ UNCHANGED <<stream, opening>>
    <3>1. \A s \in Streams : down'[s] \in Seq(B) \/ down'[s] = down[s]
      BY <1>y, <2>2, <2>6
    <3>2. \A s \in Streams : s > opened => down'[s] = down[s]
      BY <1>y, <2>1, <2>6 DEF Streams
    <3>3. StreamShape'
      BY <1>u, <2>4, <2>6, <3>2 DEF FreshInv, StreamShape
    <3> QED BY <1>q, <2>3, <2>4, <2>6, <3>1, <3>3
  <2> QED BY <1>4, <2>5, <2>6 DEF ReadStream, t, m
<1>5. CASE ScheduleTick
  <2>1. next_seq(tracker) \in Tracker /\ Fresh(next_seq(tracker), first, Horizon, now)
    BY <1>5, <1>c, <1>y, NextSeqType, CalmSteps DEF ScheduleTick
  <2>2. UNCHANGED <<opened, phase>>
    BY <1>5 DEF ScheduleTick, ctlVars
  <2>3. CASE AttemptEnds(next_seq(tracker)) /\ UNCHANGED mailbox
    BY <1>a, <2>1, <2>2, <2>3
  <2>4. CASE tracker' = next_seq(tracker) /\ UNCHANGED <<sessVars, down>>
             /\ mailbox' = [mailbox EXCEPT ![stream] = Append(@, tracker.last_assigned + 1)]
    <3>0. stream \in Streams
      BY <1>5, <1>y DEF ScheduleTick
    <3>2. \A s \in Streams : s > opened => mailbox'[s] = mailbox[s]
      BY <1>s, <1>y, <2>4, <3>0 DEF Streams
    <3>1. StreamShape'
      BY <1>u, <2>2, <2>4, <3>2 DEF FreshInv, StreamShape, sessVars
    <3> QED BY <1>q, <2>1, <2>2, <2>4, <3>1
  <2> QED BY <1>5, <2>3, <2>4 DEF ScheduleTick
<1>6. CASE RenewalDone
  <2>1. UNCHANGED <<opened, phase, down, mailbox, stream, opening, tracker>>
    BY <1>6 DEF RenewalDone, ctlVars, wireVars
  <2>2. StreamShape'
    BY <1>u, <2>1 DEF FreshInv, StreamShape
  <2> QED BY <1>f, <1>q, <2>1, <2>2
<1>7. CASE OldCertExpires
  BY <1>7, <1>a, <1>f, <1>y DEF OldCertExpires, ctlVars, boundVars
<1> QED BY <1>1, <1>2, <1>3, <1>4, <1>5, <1>6, <1>7 DEF Session

\* Reports are sent promptly, time and faults add no evidence, and at the
\* revocation the horizon stops.
LEMMA OtherFreshStep ==
    ASSUME FreshInv, PromptResends,
           \/ ClockTick \/ ExpiryTimer \/ RevokeCommits \/ SignalRevoked \/ RowLost
           \/ ConnectorRestarts \/ ControllerRestarts
           \/ \E s \in Streams : TransportSends(s) \/ StreamBreaks(s)
    PROVE  FreshInv'
<1>t. TruthInv'
  BY OtherTruthStep DEF FreshInv
<1>y. /\ tracker \in Tracker /\ first \in [Seqs -> Instant] /\ now \in Nat /\ Horizon \in Nat
      /\ Horizon <= now
      /\ down \in [Streams -> Seq(Msg)] /\ up \in [Streams -> Seq(Seqs)]
      /\ opened \in 0..MaxStreams /\ base \in 0..MaxStreams
      /\ stream \in Streams \cup {NoStream} /\ opening \in Streams \cup {NoStream}
      /\ mailbox \in [Streams -> Seq(Seqs)]
  BY HorizonType DEF FreshInv, TruthInv, TypeInv, TypeOK
<1>f. Fresh(tracker, first, Horizon, now)
  BY DEF FreshInv
<1> DEFINE B == Backed(first, Horizon)
<1>n. \A S : << >> \in Seq(S)
  OBVIOUS
<1>1. CASE ClockTick
  <2>1. now' = now + 1 /\ UNCHANGED <<db, ctlVars, wireVars, sessVars, tracker, boundVars, histVars>>
    BY <1>1 DEF ClockTick
  <2>2. Horizon' \in Nat /\ Horizon <= Horizon' /\ now' \in Nat /\ now <= now'
    BY <1>y, <2>1 DEF Horizon, histVars
  <2>3. Fresh(tracker, first, Horizon', now')
    BY <1>f, <1>y, <2>2, TimeFresh
  <2>4. \A s \in Streams : StreamFresh(s)'
    BY <1>y, <2>1, <2>2, BackedMono DEF FreshInv, StreamFresh, ctlVars, wireVars, histVars
  <2>5. StreamShape'
    BY <2>1 DEF FreshInv, StreamShape, ctlVars, wireVars, sessVars, boundVars, histVars
  <2>6. \A k \in Seqs : first'[k] <= now'
    <3>1. \A k \in Seqs : first[k] <= now /\ first[k] \in Instant
      BY <1>y DEF FreshInv
    <3>2. ASSUME NEW k \in Seqs PROVE first[k] <= now + 1
      <4>1. first[k] \in Int /\ now \in Int /\ first[k] <= now
        BY <1>y, <3>1 DEF Instant, Never
      <4> QED BY <4>1
    <3> QED BY <2>1, <3>2 DEF histVars
  <2> QED BY <1>t, <2>1, <2>3, <2>4, <2>5, <2>6 DEF FreshInv, StreamFresh, histVars
<1>2. CASE ExpiryTimer \/ RevokeCommits \/ SignalRevoked \/ RowLost
  <2>1. UNCHANGED <<now, phase, health, outbound, wireVars, sessVars, opened, base, first>>
    BY <1>2 DEF ExpiryTimer, RevokeCommits, SignalRevoked, RowLost, ctlVars, boundVars, histVars
  <2>2. Horizon' = Horizon
    BY <1>2 DEF ExpiryTimer, RevokeCommits, SignalRevoked, RowLost, Horizon, histVars
  <2>3. Fresh(tracker', first, Horizon, now)
    <3>1. CASE ExpiryTimer
      BY <1>f, <1>y, <3>1, ExpireType, CalmSteps, CalmFresh DEF ExpiryTimer
    <3>2. CASE UNCHANGED tracker
      BY <1>f, <3>2
    <3> QED BY <1>2, <3>1, <3>2 DEF RevokeCommits, SignalRevoked, RowLost
  <2>4. StreamShape'
    BY <2>1 DEF FreshInv, StreamShape, wireVars, sessVars
  <2> QED BY <1>t, <2>1, <2>2, <2>3, <2>4 DEF FreshInv, wireVars
<1>3. CASE ConnectorRestarts
  <2>1. /\ base' = opened /\ stream' = NoStream /\ opening' = NoStream
        /\ \A s \in Streams : down'[s] = << >> /\ mailbox'[s] = << >>
        /\ UNCHANGED <<phase, outbound, up, opened, now, db, revokedAt>>
    BY <1>3 DEF ConnectorRestarts, ctlVars
  <2>2. StreamShape'
    BY <1>y, <2>1 DEF FreshInv, StreamShape
  <2>3. \A s \in Streams : s > base' =>
           phase'[s] = "unused" /\ outbound'[s] = << >> /\ up'[s] = << >> /\ down'[s] = << >>
    BY <2>1 DEF FreshInv, StreamShape
  <2>4. Fresh(tracker, first, Horizon, now)'
    BY <1>3 DEF ConnectorRestarts, Fresh, NewTracker, Open
  <2>5. \A k \in Seqs : first'[k] <= now'
    BY <1>3, <1>y, <2>1 DEF ConnectorRestarts, Never
  <2>6. \A s \in Streams : StreamFresh(s)'
    BY <1>n, <2>3 DEF StreamFresh
  <2> QED BY <1>t, <2>2, <2>4, <2>5, <2>6 DEF FreshInv, StreamFresh
<1>4. CASE ControllerRestarts
  <2>1. /\ UNCHANGED <<now, db, revokedAt, tracker, first, base, opened, stream, opening, health, mailbox>>
        /\ \A s \in Streams : outbound'[s] = << >> /\ up'[s] = << >>
    BY <1>4 DEF ControllerRestarts, sessVars, histVars
  <2>2. Horizon' = Horizon
    BY <2>1 DEF Horizon
  <2>3. \A s \in Streams : phase'[s] \in {phase[s], "ended"}
    BY <1>4 DEF ControllerRestarts
  <2>4. Message("End") \in B
    BY PlainBacked DEF Kind
  <2>5. \A s \in Streams : down[s] \in Seq(B) => down'[s] \in Seq(B)
    <3> HIDE DEF B
    <3>1. \A s \in Streams : down[s] \in Seq(B) => Append(down[s], Message("End")) \in Seq(B)
      BY <2>4
    <3> QED BY <1>4, <3>1 DEF ControllerRestarts
  <2>6. \A s \in Streams : s > opened => phase'[s] = "unused" /\ down'[s] = << >>
    BY <1>4 DEF ControllerRestarts, FreshInv, StreamShape, HandlerPhase, LivePhase
  <2>7. StreamShape'
    BY <2>1, <2>6 DEF FreshInv, StreamShape
  <2>8. \A s \in Streams : StreamFresh(s)'
    <3>1. \A s \in Streams : s > base' =>
             up'[s] \in Seq(Sent(first')) /\ outbound'[s] \in Seq(Backed(first', Horizon'))
      BY <1>n, <2>1
    <3>2. \A s \in Streams : s > base' => down'[s] \in Seq(Backed(first', Horizon'))
      BY <2>1, <2>2, <2>5 DEF FreshInv
    <3>3. \A s \in Streams : s > base' /\ phase'[s] = "acking" =>
             health'[s] \in Seqs /\ Evident(health'[s], first', Horizon')
      BY <2>1, <2>2, <2>3 DEF FreshInv
    <3> QED BY <3>1, <3>2, <3>3 DEF StreamFresh
  <2> QED BY <1>f, <1>t, <2>1, <2>2, <2>7, <2>8 DEF FreshInv, StreamFresh
<1>5. ASSUME NEW s \in Streams, TransportSends(s) PROVE FreshInv'
  <2> DEFINE k == Head(mailbox[s])
  <2>1. k \in Seqs
    BY <1>5 DEF TransportSends, FreshInv, TruthInv, TypeInv, TypeOK
  <2> HIDE DEF k
  <2>2. /\ first[k] = Never \/ now < first[k] + H
        /\ tracker' = record_sent(tracker, k, now) /\ first' = FirstSent(first, k, now)
        /\ up' = [up EXCEPT ![s] = Append(@, k)]
        /\ mailbox[s] # << >> /\ mailbox' = [mailbox EXCEPT ![s] = Tail(@)]
        /\ UNCHANGED <<now, db, revokedAt, ctlVars, down, sessVars, boundVars, base>>
    BY <1>5 DEF TransportSends, FirstSent, k
  <2>3. Fresh(tracker', first', Horizon, now)
    BY <1>f, <1>y, <2>1, <2>2, SendFresh
  <2>4. /\ first' \in [Seqs -> Instant] /\ \A j \in Seqs : first[j] # Never => first'[j] = first[j]
        /\ first'[k] # Never /\ \A j \in Seqs : first'[j] <= now
    <3>1. /\ first \in [Seqs -> Instant] /\ now \in Nat
          /\ \A j \in Seqs : first[j] <= now
      BY <1>y, <1>f DEF FreshInv, Fresh
    <3>2. first' = [first EXCEPT ![k] = IF @ = Never THEN now ELSE @]
      BY <2>2 DEF FirstSent
    <3>3. first'[k] = IF first[k] = Never THEN now ELSE first[k]
      BY <2>1, <3>1, <3>2
    <3>4. \A j \in Seqs : j # k => first'[j] = first[j]
      BY <3>1, <3>2
    <3> QED BY <2>1, <3>1, <3>2, <3>3, <3>4 DEF Instant, Never
  <2>5. Horizon' = Horizon
    BY <2>2 DEF Horizon
  <2>6. /\ Seq(Backed(first, Horizon)) \subseteq Seq(Backed(first', Horizon))
        /\ Seq(Sent(first)) \subseteq Seq(Sent(first'))
        /\ \A j \in Seqs : Evident(j, first, Horizon) => Evident(j, first', Horizon)
    <3>1. Horizon <= Horizon
      BY <1>y
    <3> QED BY <1>y, <2>4, <3>1, BackedMono
  <2>7. \A r \in Streams : r > base => up'[r] \in Seq(Sent(first'))
    <3>1. k \in Sent(first')
      BY <2>1, <2>4 DEF Sent
    <3>2. \A r \in Streams : r > base => up[r] \in Seq(Sent(first'))
      BY <2>6 DEF FreshInv
    <3>3. s > base => Append(up[s], k) \in Seq(Sent(first'))
      BY <3>1, <3>2
    <3> QED BY <1>y, <2>2, <3>2, <3>3
  <2>8. s <= opened
    BY <1>y, <2>2 DEF FreshInv, StreamShape, Streams
  <2>10. \A r \in Streams : r > opened => up'[r] = up[r] /\ mailbox'[r] = mailbox[r]
    BY <1>y, <2>2, <2>8 DEF Streams
  <2>9. StreamShape'
    BY <2>2, <2>10 DEF FreshInv, StreamShape, ctlVars, sessVars, boundVars, Streams
  <2> QED BY <1>t, <2>2, <2>3, <2>4, <2>5, <2>6, <2>7, <2>9 DEF FreshInv, ctlVars
<1>6. ASSUME NEW s \in Streams, StreamBreaks(s) PROVE FreshInv'
  <2>1. PICK n \in 0..Len(down[s]) :
          down' = [down EXCEPT ![s] = Append(SubSeq(@, 1, n), Message("End"))]
    BY <1>6 DEF StreamBreaks
  <2>2. /\ UNCHANGED <<now, db, revokedAt, tracker, first, base, opened, stream, opening,
                       phase, health, outbound, up>>
        /\ s > base /\ s <= opened
    BY <1>6, <1>y DEF StreamBreaks, FreshInv, StreamShape, ctlVars, sessVars, histVars
  <2>3. Horizon' = Horizon
    BY <2>2 DEF Horizon
  <2>4. down'[s] \in Seq(B)
    <3>1. down[s] \in Seq(B) /\ Message("End") \in B
      BY <2>2, PlainBacked DEF FreshInv, Kind
    <3> HIDE DEF B
    <3>2. SubSeq(down[s], 1, n) \in Seq(B)
      BY <3>1
    <3>3. Append(SubSeq(down[s], 1, n), Message("End")) \in Seq(B)
      BY <3>1, <3>2
    <3> QED BY <1>y, <2>1, <3>3
  <2>5. \A r \in Streams \ {s} : down'[r] = down[r]
    BY <1>y, <2>1
  <2>7. mailbox' = [mailbox EXCEPT ![s] = << >>]
    BY <1>6 DEF StreamBreaks
  <2>8. \A r \in Streams : r > opened => r # s /\ mailbox'[r] = mailbox[r]
    BY <1>y, <2>2, <2>7 DEF Streams
  <2>6. StreamShape'
    BY <2>2, <2>5, <2>8 DEF FreshInv, StreamShape
  <2> QED BY <1>t, <2>2, <2>3, <2>4, <2>5, <2>6 DEF FreshInv
<1> QED BY <1>1, <1>2, <1>3, <1>4, <1>5, <1>6

\* Every step keeps the freshness invariant.
LEMMA FreshStep ==
    ASSUME PromptResends
    PROVE  FreshInv /\ [Next]_vars => FreshInv'
<1> SUFFICES ASSUME FreshInv, [Next]_vars PROVE FreshInv'
  OBVIOUS
<1>1. CASE UNCHANGED vars
  <2>1. TruthInv'
    BY <1>1, TruthStep DEF FreshInv
  <2>2. Horizon' = Horizon
    BY <1>1 DEF Horizon, vars, histVars
  <2>3. StreamShape'
    BY <1>1 DEF FreshInv, StreamShape, vars, ctlVars, wireVars, sessVars, boundVars, histVars
  <2> QED BY <1>1, <2>1, <2>2, <2>3 DEF FreshInv, vars, ctlVars, wireVars, histVars
<1>2. CASE Next
  BY <1>2, HandlerFreshStep, SessionFreshStep, OtherFreshStep DEF Next
<1> QED BY <1>1, <1>2

\* The freshness invariant holds whenever re-sent reports leave within H of
\* their first copy.
LEMMA FreshInvariant ==
    ASSUME PromptResends
    PROVE  Spec => []FreshInv
BY FreshInit, FreshStep, PTL DEF Spec

\* No traffic is admitted H or more after the revocation was committed, for
\* every freshness bound and any number of streams, reports, renewals, failed
\* statements and restarts of either side.
THEOREM RevocationBounded ==
    ASSUME PromptResends
    PROVE  Spec => []RevocationBound
<1>1. FreshInv => RevocationBound
  <2> SUFFICES ASSUME FreshInv, Admits, db # "authorized" PROVE now < revokedAt + H
    BY DEF RevocationBound
  <2>1. Open(tracker.state) /\ now < tracker.deadline /\ tracker.deadline <= revokedAt + H
    BY DEF Admits, admits, FreshInv, Fresh, Horizon
  <2>2. now \in Nat /\ revokedAt \in Nat /\ tracker.deadline \in Instant /\ H \in Nat
    BY ConstantsAssumption DEF FreshInv, TruthInv, TypeInv, TypeOK, Tracker
  <2> QED BY <2>1, <2>2 DEF Instant, Never
<1> QED BY <1>1, FreshInvariant, PTL

\* Traffic is admitted only within H of the first send of an accepted report.
THEOREM FreshnessBounded ==
    ASSUME PromptResends
    PROVE  Spec => []FreshnessBound
<1>1. FreshInv => FreshnessBound
  <2> SUFFICES ASSUME FreshInv, Admits
               PROVE  /\ tracker.highest_accepted # NoSeq
                      /\ \E k \in 1..tracker.highest_accepted :
                            first[k] # Never /\ now < first[k] + H
    BY DEF FreshnessBound
  <2>1. Open(tracker.state) /\ now < tracker.deadline
    BY DEF Admits, admits
  <2>2. PICK k \in Seqs : /\ k <= tracker.highest_accepted /\ first[k] # Never
                          /\ tracker.deadline <= first[k] + H
    BY <2>1 DEF FreshInv, Fresh
  <2>3. /\ now \in Nat /\ first[k] \in Nat /\ tracker.deadline \in Instant /\ H \in Nat
        /\ tracker.highest_accepted \in 0..MaxSeq
    BY <2>2, ConstantsAssumption DEF FreshInv, TruthInv, TypeInv, TypeOK, Tracker, Instant
  <2>4. now < first[k] + H
    BY <2>1, <2>2, <2>3 DEF Instant, Never
  <2>5. k \in 1..tracker.highest_accepted /\ tracker.highest_accepted # NoSeq
    BY <2>2, <2>3 DEF Seqs, NoSeq
  <2> QED BY <2>2, <2>4, <2>5
<1> QED BY <1>1, FreshInvariant, PTL

\* With prompt re-sends the comment on record_sent is true: the send time an
\* ack is judged by is the first one.
THEOREM FirstSendKept ==
    ASSUME PromptResends
    PROVE  Spec => []FirstSendWins
<1>1. FreshInv => FirstSendWins
  BY DEF FreshInv, Fresh, FirstSendWins
<1> QED BY <1>1, FreshInvariant, PTL

-----------------------------------------------------------------------------
(* What the data plane sees *)

\* A tracker says the same thing in each of its fields: it has a deadline
\* exactly when it is open, and a terminal signal exactly in a terminal state.
Consistent(t) ==
    /\ (t.terminal # "none") <=> (t.state \in TerminalSignal)
    /\ (t.deadline # Never) <=> Open(t.state)

\* The tracker is open past its deadline.
Lapsed(t, at) == Open(t.state) /\ t.deadline # Never /\ at >= t.deadline

ExpiredState(t, at) == IF Lapsed(t, at) THEN "Disabled" ELSE t.state

UpState(t, at) ==
    IF ExpiredState(t, at) = "Disabled" THEN "Recovering" ELSE ExpiredState(t, at)

DownState(t, at) ==
    CASE ExpiredState(t, at) = "Serving"    -> "ServingDisconnected"
      [] ExpiredState(t, at) = "Recovering" -> "Disabled"
      [] OTHER                              -> ExpiredState(t, at)

\* From t to u the gate stands still or takes one of its events.
GateStep(t, u, at) ==
    \/ u.state = t.state /\ u.deadline = t.deadline
    \/ /\ ~Lapsed(u, at)
       /\ \/ u.state \in {ExpiredState(t, at), UpState(t, at), DownState(t, at), "Starting"}
          \/ u.state \in TerminalSignal \cup {"Serving"} /\ t.state \notin TerminalSignal

\* Everything that happens to the tracker in one step.
Moves(t, u, a, at) ==
    \/ u \in {t, NewTracker, expire(t, at), stream_down(t, at)}
    \/ /\ t.last_assigned < MaxSeq
       /\ u \in {next_seq(t), stream_down(next_seq(t), at)}
    \/ u = seq_for_replacement(t)
    \/ \E k \in Seqs : u = record_sent(t, k, at)
    \/ \E m \in Msg : u \in {observe_status(t, m), stream_down(observe_status(t, m), at)}
    \/ \E m \in Msg :
         LET o == observe_controller_msg(t, m, a, at)
         IN  IF o.terminal = "none" THEN u = o ELSE u = stream_down(o, at)

\* Deadlines and expiry.
LEMMA ExpireGate ==
    ASSUME NEW t \in Tracker, NEW at \in Nat, Consistent(t)
    PROVE  /\ Consistent(expire(t, at))
           /\ ~Lapsed(expire(t, at), at)
           /\ expire(t, at).state = ExpiredState(t, at)
<1>1. CASE Lapsed(t, at)
  <2>1. expire(t, at) = transition([t EXCEPT !.lost_at = t.deadline], "Disabled")
    BY <1>1 DEF expire, Lapsed
  <2> QED BY <1>1, <2>1 DEF transition, Consistent, Lapsed, ExpiredState, Open, Tracker,
                           TerminalSignal
<1>2. CASE ~Lapsed(t, at)
  <2>1. expire(t, at) = t
    BY <1>2 DEF expire, Lapsed
  <2> QED BY <1>2, <2>1 DEF ExpiredState
<1> QED BY <1>1, <1>2

\* What is not lapsed is not expired again.
LEMMA ExpireOnce ==
    ASSUME NEW t, NEW at, ~Lapsed(t, at)
    PROVE  expire(t, at) = t /\ ExpiredState(t, at) = t.state
BY DEF expire, Lapsed, ExpiredState

\* The start of a stream.
LEMMA StreamUpGate ==
    ASSUME NEW t \in Tracker, NEW at \in Nat, Consistent(t)
    PROVE  /\ Consistent(stream_up(t, at))
           /\ ~Lapsed(stream_up(t, at), at)
           /\ stream_up(t, at).state = UpState(t, at)
<1> DEFINE e == expire(t, at)
<1>1. /\ e \in Tracker /\ Consistent(e) /\ ~Lapsed(e, at)
      /\ e.state = ExpiredState(t, at)
  BY ExpireType, ExpireGate
<1>2. stream_up(t, at) = IF e.state = "Disabled" THEN transition(e, "Recovering") ELSE e
  BY DEF stream_up
<1> HIDE DEF e
<1>3. CASE e.state = "Disabled"
  BY <1>1, <1>2, <1>3 DEF transition, Consistent, Lapsed, UpState, Open, Tracker, TerminalSignal
<1>4. CASE e.state # "Disabled"
  BY <1>1, <1>2, <1>4 DEF UpState
<1> QED BY <1>3, <1>4

\* The end of a stream.
LEMMA StreamDownGate ==
    ASSUME NEW t \in Tracker, NEW at \in Nat, Consistent(t)
    PROVE  /\ Consistent(stream_down(t, at))
           /\ ~Lapsed(stream_down(t, at), at)
           /\ stream_down(t, at).state = DownState(t, at)
<1> DEFINE e == expire(t, at)
<1>1. /\ e \in Tracker /\ Consistent(e) /\ ~Lapsed(e, at)
      /\ e.state = ExpiredState(t, at)
  BY ExpireType, ExpireGate
<1>2. stream_down(t, at) =
        CASE e.state = "Serving"    -> transition(e, "ServingDisconnected")
          [] e.state = "Recovering" -> transition([e EXCEPT !.lost_at = at], "Disabled")
          [] OTHER                  -> e
  BY DEF stream_down
<1> HIDE DEF e
<1>3. CASE e.state = "Serving"
  BY <1>1, <1>2, <1>3 DEF transition, Consistent, Lapsed, DownState, Open, Tracker, TerminalSignal
<1>4. CASE e.state = "Recovering"
  BY <1>1, <1>2, <1>4 DEF transition, Consistent, Lapsed, DownState, Open, Tracker, TerminalSignal
<1>5. CASE e.state \notin {"Serving", "Recovering"}
  BY <1>1, <1>2, <1>5 DEF DownState
<1> QED BY <1>3, <1>4, <1>5

\* An acknowledgement opens the gate for some time to come, or is an expiry.
LEMMA OnAckGate ==
    ASSUME NEW t \in Tracker, NEW at \in Nat, Consistent(t),
           NEW k \in 0..MaxSeq, NEW capable \in BOOLEAN
    PROVE  LET r == on_ack(t, k, capable, at)
           IN  /\ Consistent(r)
               /\ ~Lapsed(r, at)
               /\ \/ r = expire(t, at)
                  \/ /\ r.state = "Serving" /\ t.terminal = "none"
                     /\ k \in Seqs /\ r.highest_accepted = k
                     /\ Accepts(expire(t, at), k, capable, at)
<1> DEFINE e == expire(t, at)
<1> DEFINE r == on_ack(t, k, capable, at)
<1>1. e \in Tracker /\ Consistent(e) /\ ~Lapsed(e, at) /\ e.terminal = t.terminal
  BY ExpireType, ExpireGate, TerminalKept
<1>2. CASE ~Accepts(e, k, capable, at)
  BY <1>1, <1>2 DEF on_ack
<1>3. CASE Accepts(e, k, capable, at)
  <2> DEFINE kept == [j \in Seqs |-> IF j > k THEN e.sent[j] ELSE Never]
  <2> DEFINE d == DeadlineOf(e, k, at)
  <2>1. r = transition([e EXCEPT !.highest_accepted = k, !.sent = kept, !.deadline = d], "Serving")
    BY <1>3 DEF on_ack
  <2>2. k \in Seqs /\ e.terminal = "none"
    BY <1>1, <1>3, ConstantsAssumption DEF Accepts, Tracker, Seqs
  <2>3. e.sent[k] \in Nat /\ at < e.sent[k] + H /\ e.deadline \in Instant
    BY <1>1, <1>3, <2>2, ConstantsAssumption DEF Accepts, Tracker, Instant
  <2>4. d \in Nat /\ at < d
    BY <2>3, ConstantsAssumption DEF DeadlineOf, Instant, Never
  <2> HIDE DEF e, d, kept, r
  <2>5. /\ r.state = "Serving" /\ r.highest_accepted = k
        /\ r.deadline = d /\ r.terminal = e.terminal
    BY <1>1, <2>1 DEF transition, Tracker, Open
  <2>6. Consistent(r) /\ ~Lapsed(r, at)
    BY <2>2, <2>4, <2>5 DEF Consistent, Lapsed, Open, Never, TerminalSignal
  <2> QED BY <1>1, <1>3, <2>2, <2>5, <2>6 DEF e, r
<1> QED BY <1>2, <1>3

\* A terminal signal closes the gate; the first one wins.
LEMMA OnTerminalGate ==
    ASSUME NEW t \in Tracker, NEW at \in Nat, Consistent(t), NEW sig \in TerminalSignal
    PROVE  LET r == on_terminal(t, sig)
           IN  /\ Consistent(r)
               /\ r.terminal # "none"
               /\ IF t.terminal = "none" THEN r.state = sig ELSE r = t
<1>1. CASE t.terminal # "none"
  BY <1>1 DEF on_terminal
<1>2. CASE t.terminal = "none"
  BY <1>2 DEF on_terminal, transition, Consistent, Open, Tracker, TerminalSignal
<1> QED BY <1>1, <1>2

\* A tracker that is terminal stays as it is, apart from what it has sent.
LEMMA TerminalStill ==
    ASSUME NEW t \in Tracker, NEW at \in Nat, Consistent(t), t.terminal # "none"
    PROVE  /\ t.state \in TerminalSignal /\ ~Lapsed(t, at)
           /\ expire(t, at) = t /\ stream_up(t, at) = t /\ stream_down(t, at) = t
<1>1. t.state \in TerminalSignal /\ ~Lapsed(t, at)
  BY DEF Consistent, Lapsed, Open, TerminalSignal
<1>2. expire(t, at) = t
  BY <1>1, ExpireOnce
<1> QED BY <1>1, <1>2 DEF stream_up, stream_down, TerminalSignal

\* A status is no gate event or a terminal signal; the stream ends after it.
LEMMA StatusGate ==
    ASSUME NEW t \in Tracker, NEW at \in Nat, Consistent(t), NEW m \in Msg
    PROVE  LET o == observe_status(t, m)
           IN  /\ Consistent(o) /\ GateStep(t, o, at)
               /\ Consistent(stream_down(o, at)) /\ GateStep(t, stream_down(o, at), at)
<1> DEFINE o == observe_status(t, m)
<1>0. o \in Tracker
  <2>1. NewStreamAuthz \in [capable : BOOLEAN, first_seen : BOOLEAN]
    BY DEF NewStreamAuthz
  <2> QED BY <2>1, ObserveType
<1>1. CASE o = t
  <2>1. GateStep(t, o, at)
    BY <1>1 DEF GateStep
  <2>2. GateStep(t, stream_down(t, at), at)
    BY StreamDownGate DEF GateStep
  <2> QED BY <1>1, <2>1, <2>2, StreamDownGate
<1>2. CASE o # t
  <2>1. PICK sig \in TerminalSignal : o = on_terminal(t, sig)
    BY <1>2 DEF observe_status, TerminalSignal
  <2>2. t.terminal = "none" /\ Consistent(o) /\ o.state = sig /\ o.terminal # "none"
    BY <1>2, <2>1, OnTerminalGate
  <2> HIDE DEF o
  <2>3. stream_down(o, at) = o /\ ~Lapsed(o, at)
    BY <1>0, <2>2, TerminalStill
  <2>4. GateStep(t, o, at)
    BY <2>2, <2>3 DEF GateStep, Consistent
  <2> QED BY <2>2, <2>3, <2>4 DEF o
<1> QED BY <1>1, <1>2

\* A message is one gate event, although it may start the stream, carry an
\* acknowledgement and end the attempt.
LEMMA MessageGate ==
    ASSUME NEW t \in Tracker, NEW at \in Nat, Consistent(t), NEW m \in Msg,
           NEW a \in [capable : BOOLEAN, first_seen : BOOLEAN]
    PROVE  LET o == observe_controller_msg(t, m, a, at)
           IN  /\ o \in Tracker /\ Consistent(o)
               /\ o.terminal = "none" => GateStep(t, o, at)
               /\ o.terminal # "none" => o.state \in TerminalSignal /\ stream_down(o, at) = o
                                         /\ GateStep(t, o, at)
<1> DEFINE o == observe_controller_msg(t, m, a, at)
<1> DEFINE u == IF a.first_seen THEN t ELSE stream_up(t, at)
<1>0. o \in Tracker /\ m.seq \in 0..MaxSeq /\ a.capable \in BOOLEAN
  BY ObserveType DEF Msg
<1>1. u \in Tracker /\ Consistent(u) /\ u.terminal = t.terminal
  BY StreamUpType, StreamUpGate, TerminalKept
<1>2. o = CASE m.kind = "Ack" -> on_ack(u, m.seq, a.capable, at)
            [] m.kind = "ConnectorRevoked" -> on_terminal(u, "Revoked")
            [] OTHER -> u
  BY DEF observe_controller_msg
<1>3. GateStep(t, u, at)
  BY StreamUpGate DEF GateStep
<1>4. GateStep(t, expire(u, at), at)
  <2>1. CASE a.first_seen
    BY <2>1, ExpireGate DEF GateStep
  <2>2. CASE ~a.first_seen
    BY <1>3, <2>2, StreamUpGate, ExpireOnce
  <2> QED BY <2>1, <2>2
<1> HIDE DEF o, u
<1>5. Consistent(expire(u, at))
  BY <1>1, ExpireGate
<1>6. Consistent(o) /\ GateStep(t, o, at)
  <2>1. CASE m.kind = "Ack"
    <3> DEFINE r == on_ack(u, m.seq, a.capable, at)
    <3>1. /\ Consistent(r) /\ ~Lapsed(r, at)
          /\ r = expire(u, at) \/ (r.state = "Serving" /\ u.terminal = "none")
      BY <1>0, <1>1, OnAckGate
    <3> HIDE DEF r
    <3>2. GateStep(t, r, at)
      BY <1>1, <1>4, <3>1 DEF GateStep, Consistent
    <3> QED BY <1>2, <2>1, <3>1, <3>2 DEF r
  <2>2. CASE m.kind = "ConnectorRevoked"
    <3> DEFINE r == on_terminal(u, "Revoked")
    <3>1. /\ Consistent(r) /\ r.terminal # "none" /\ r \in Tracker
          /\ IF u.terminal = "none" THEN r.state = "Revoked" ELSE r = u
      BY <1>1, OnTerminalGate, OnTerminalType DEF TerminalSignal
    <3> HIDE DEF r
    <3>2. ~Lapsed(r, at)
      BY <3>1, TerminalStill
    <3>3. GateStep(t, r, at)
      BY <1>1, <1>3, <3>1, <3>2 DEF GateStep, Consistent, TerminalSignal
    <3> QED BY <1>2, <2>2, <3>1, <3>3 DEF r
  <2>3. CASE m.kind \notin {"Ack", "ConnectorRevoked"}
    BY <1>1, <1>2, <1>3, <2>3
  <2> QED BY <2>1, <2>2, <2>3
<1>7. ASSUME o.terminal # "none" PROVE o.state \in TerminalSignal /\ stream_down(o, at) = o
  BY <1>0, <1>6, <1>7, TerminalStill
<1> QED BY <1>0, <1>6, <1>7 DEF o

\* Every move of the tracker is a step of the gate.
LEMMA MovesGate ==
    ASSUME NEW t \in Tracker, NEW u, NEW at \in Nat, Consistent(t),
           NEW a \in [capable : BOOLEAN, first_seen : BOOLEAN], Moves(t, u, a, at)
    PROVE  Consistent(u) /\ GateStep(t, u, at)
<1>1. CASE u = t
  BY <1>1 DEF GateStep
<1>2. CASE u = NewTracker
  BY <1>2 DEF NewTracker, GateStep, Consistent, Lapsed, Open, TerminalSignal
<1>3. CASE u \in {expire(t, at), stream_down(t, at)}
  BY <1>3, ExpireGate, StreamDownGate DEF GateStep
<1>4. CASE t.last_assigned < MaxSeq /\ u \in {next_seq(t), stream_down(next_seq(t), at)}
  <2> DEFINE n == next_seq(t)
  <2>1. /\ n \in Tracker /\ n.state = t.state /\ n.deadline = t.deadline
        /\ n.terminal = t.terminal
    BY <1>4, NextSeqType DEF next_seq, Tracker
  <2> HIDE DEF n
  <2>2. Consistent(n) /\ GateStep(t, n, at) /\ DownState(n, at) = DownState(t, at)
    BY <2>1 DEF Consistent, GateStep, DownState, ExpiredState, Lapsed
  <2>3. Consistent(stream_down(n, at)) /\ GateStep(t, stream_down(n, at), at)
    BY <2>1, <2>2, StreamDownGate DEF GateStep
  <2> QED BY <1>4, <2>2, <2>3 DEF n
<1>5. CASE u = seq_for_replacement(t)
  BY <1>5 DEF seq_for_replacement, next_seq, GateStep, Consistent, Tracker
<1>6. CASE \E k \in Seqs : u = record_sent(t, k, at)
  BY <1>6 DEF record_sent, GateStep, Consistent, Tracker
<1>7. CASE \E m \in Msg : u \in {observe_status(t, m), stream_down(observe_status(t, m), at)}
  BY <1>7, StatusGate
<1>8. CASE \E m \in Msg :
             LET o == observe_controller_msg(t, m, a, at)
             IN  IF o.terminal = "none" THEN u = o ELSE u = stream_down(o, at)
  BY <1>8, MessageGate
<1> QED BY <1>1, <1>2, <1>3, <1>4, <1>5, <1>6, <1>7, <1>8 DEF Moves

\* A step moves the tracker by one of AckTracker's methods, or time passes.
LEMMA NextMoves ==
    ASSUME TypeInv, Next
    PROVE  /\ Moves(tracker, tracker', authz, now)
           /\ now' = now \/ (tracker' = tracker /\ now' = now + 1)
<1> DEFINE Goal == /\ Moves(tracker, tracker', authz, now)
                   /\ now' = now \/ (tracker' = tracker /\ now' = now + 1)
<1>y. TypeOK /\ SessionShape
  BY DEF TypeInv
<1>0. ASSUME tracker' = tracker, now' = now PROVE Goal
  BY <1>0 DEF Moves
<1>1. CASE ClockTick
  BY <1>1 DEF ClockTick, Moves
<1>2. CASE ExpiryTimer
  BY <1>2 DEF ExpiryTimer, Moves
<1>3. CASE RevokeCommits \/ SignalRevoked \/ RowLost \/ RenewalDone \/ ControllerRestarts \/ OpenSucceeds
  BY <1>0, <1>3 DEF RevokeCommits, SignalRevoked, RowLost, RenewalDone, ControllerRestarts, OpenSucceeds
<1>4. CASE Connect
  BY <1>4 DEF Connect, Moves
<1>5. CASE OpenReplacement
  BY <1>5 DEF OpenReplacement, Moves
<1>6. CASE OpenRefused
  <2>1. opening \in Streams /\ down[opening] \in Seq(Msg) /\ down[opening] # << >>
    BY <1>6, <1>y DEF OpenRefused, TypeOK
  <2> DEFINE m == Head(down[opening])
  <2>2. m \in Msg
    BY <2>1
  <2>3. tracker' \in {observe_status(tracker, m), stream_down(observe_status(tracker, m), now)}
    BY <1>6 DEF OpenRefused, AttemptEnds
  <2> HIDE DEF m
  <2> QED BY <1>6, <2>2, <2>3 DEF Moves, OpenRefused
<1>7. CASE ReadStream
  <2>1. stream \in Streams /\ down[stream] \in Seq(Msg) /\ down[stream] # << >>
    BY <1>7, <1>y DEF ReadStream, TypeOK, SessionShape
  <2> DEFINE m == Head(down[stream])
  <2>2. m \in Msg
    BY <2>1
  <2> DEFINE o == observe_controller_msg(tracker, m, authz, now)
  <2>3. CASE IsEnd(m)
    <3>1. tracker' = stream_down(observe_status(tracker, m), now)
      BY <1>7, <2>3 DEF ReadStream, AttemptEnds
    <3> HIDE DEF m
    <3> QED BY <1>7, <2>2, <3>1 DEF Moves, ReadStream
  <2>4. CASE ~IsEnd(m)
    <3>1. IF o.terminal = "none" THEN tracker' = o ELSE tracker' = stream_down(o, now)
      BY <1>7, <2>4 DEF ReadStream, AttemptEnds
    <3> HIDE DEF m
    <3> QED BY <1>7, <2>2, <3>1 DEF Moves, ReadStream
  <2> QED BY <2>3, <2>4
<1>8. CASE ScheduleTick
  BY <1>8 DEF ScheduleTick, AttemptEnds, Moves
<1>9. CASE OldCertExpires
  BY <1>9 DEF OldCertExpires, AttemptEnds, Moves
<1>10. CASE ConnectorRestarts
  BY <1>10 DEF ConnectorRestarts, Moves
<1>11. ASSUME NEW s \in Streams, Handler(s) \/ Writer(s) \/ PushOther(s) \/ ControlEnds(s) \/ StreamBreaks(s)
       PROVE  Goal
  BY <1>0, <1>11 DEF Handler, ControlLookup, activateStream, sendAgentPolicy, HealthUpdate,
       sendAuthorizationAck, EndAfterTerminal, Writer, WriterSends, sendTerminal, PushOther,
       ControlEnds, StreamBreaks
<1>12. ASSUME NEW s \in Streams, TransportSends(s) PROVE Goal
  <2>1. Head(mailbox[s]) \in Seqs
    BY <1>12, <1>y DEF TransportSends, TypeOK
  <2> QED BY <1>12, <2>1 DEF TransportSends, Moves
<1> QED BY <1>1, <1>2, <1>3, <1>4, <1>5, <1>6, <1>7, <1>8, <1>9, <1>10, <1>11, <1>12 DEF Next, Session

GateInv == TypeInv /\ Consistent(tracker)

\* The tracker is consistent from the start ...
LEMMA GateStart == Init => GateInv
BY TypeInit DEF GateInv, Init, NewTracker, Consistent, Open, TerminalSignal

\* ... and stays so.
LEMMA GateKept == GateInv /\ [Next]_vars => GateInv'
<1> SUFFICES ASSUME GateInv, [Next]_vars PROVE GateInv'
  OBVIOUS
<1>1. TypeInv'
  BY TypeStep DEF GateInv
<1>2. CASE UNCHANGED vars
  BY <1>1, <1>2 DEF GateInv, vars
<1>3. CASE Next
  <2>1. Moves(tracker, tracker', authz, now)
    BY <1>3, NextMoves DEF GateInv
  <2>2. /\ tracker \in Tracker /\ now \in Nat
        /\ authz \in [capable : BOOLEAN, first_seen : BOOLEAN]
    BY DEF GateInv, TypeInv, TypeOK
  <2> QED BY <1>1, <2>1, <2>2, MovesGate DEF GateInv
<1> QED BY <1>2, <1>3

\* A step of the contract is a step of the gate or leaves it alone.
LEMMA GateSimulates == GateInv /\ [Next]_vars => [Gate!GateNext]_(Gate!gateVars)
<1> SUFFICES ASSUME GateInv, [Next]_vars PROVE [Gate!GateNext]_(Gate!gateVars)
  OBVIOUS
<1> USE DEF Gate!gateVars
<1>y. /\ tracker \in Tracker /\ now \in Nat /\ Consistent(tracker)
      /\ authz \in [capable : BOOLEAN, first_seen : BOOLEAN]
  BY DEF GateInv, TypeInv, TypeOK
<1>1. CASE UNCHANGED vars
  BY <1>1 DEF vars
<1>2. CASE Next
  <2>0. /\ Moves(tracker, tracker', authz, now)
        /\ now' = now \/ (tracker' = tracker /\ now' = now + 1)
    BY <1>2, NextMoves DEF GateInv
  <2>1. GateStep(tracker, tracker', now)
    BY <1>y, <2>0, MovesGate
  <2>2. CASE tracker' = tracker /\ now' = now + 1
    <3>1. tracker.deadline \in Instant
      BY <1>y DEF Tracker
    <3> QED BY <1>y, <2>2, <3>1 DEF Gate!GateNext, Gate!Lapse, Gate!Admits, Gate!Open, Open, Instant, Never
  <2>3. CASE now' = now
    <3>1. CASE tracker'.state = tracker.state /\ tracker'.deadline = tracker.deadline
      BY <2>3, <3>1
    <3> USE DEF Gate!GateNext, Gate!GateEvent, Gate!Event, Gate!Expired, Gate!Terminal, Lapsed, ExpiredState
    <3>2. CASE ~Lapsed(tracker', now) /\ tracker'.state = ExpiredState(tracker, now)
      BY <2>3, <3>2 DEF Gate!Expire
    <3>3. CASE ~Lapsed(tracker', now) /\ tracker'.state = UpState(tracker, now)
      BY <2>3, <3>3 DEF Gate!StreamUp, UpState
    <3>4. CASE ~Lapsed(tracker', now) /\ tracker'.state = DownState(tracker, now)
      BY <2>3, <3>4 DEF Gate!StreamDown, DownState
    <3>5. CASE ~Lapsed(tracker', now) /\ tracker'.state = "Starting"
      BY <2>3, <3>5 DEF Gate!Exit
    <3>6. CASE /\ ~Lapsed(tracker', now) /\ tracker.state \notin TerminalSignal
               /\ tracker'.state \in TerminalSignal \cup {"Serving"}
      BY <2>3, <3>6 DEF Gate!Acknowledge, Gate!Terminate, TerminalSignal
    <3> QED BY <2>1, <3>1, <3>2, <3>3, <3>4, <3>5, <3>6 DEF GateStep
  <2> QED BY <2>0, <2>2, <2>3
<1> QED BY <1>1, <1>2

\* Every behaviour of the contract is, for the data plane, one of the seven-state
\* gate, for every freshness bound and however late a re-sent report leaves.
\* AckTracker's methods run one at a time under its lock, each expires first, and
\* one message is one event even when it starts a stream, acknowledges a report
\* and ends the attempt.
THEOREM ImplementsServingGate == Spec => ImplementsGate
<1>1. Init => Gate!GateInit
  BY DEF Init, NewTracker, Gate!GateInit, Open
<1> QED BY <1>1, GateStart, GateKept, GateSimulates, PTL DEF Spec, ImplementsGate, Gate!GateSpec

\* An acknowledgement that opens a closed tracker is of a report it has on
\* record as sent at or after the loss.
LEMMA MovesReopen ==
    ASSUME NEW t \in Tracker, NEW u, NEW at \in Nat, Consistent(t),
           NEW a \in [capable : BOOLEAN, first_seen : BOOLEAN], Moves(t, u, a, at),
           ~Open(t.state), Open(u.state)
    PROVE  /\ u.highest_accepted \in Seqs /\ u.highest_accepted > t.highest_accepted
           /\ t.sent[u.highest_accepted] # Never
           /\ t.sent[u.highest_accepted] >= t.lost_at
<1>e. expire(t, at) = t /\ ExpiredState(t, at) = t.state
  BY ExpireOnce DEF Lapsed
<1>d. ASSUME NEW x \in Tracker, ~Open(x.state) PROVE ~Open(stream_down(x, at).state)
  BY <1>d, CalmSteps DEF Calm
<1>1. u # t /\ u # NewTracker /\ u # expire(t, at) /\ u # stream_down(t, at)
  BY <1>e, <1>d DEF NewTracker, Open
<1>2. ~(t.last_assigned < MaxSeq /\ u \in {next_seq(t), stream_down(next_seq(t), at)})
  <2> SUFFICES ASSUME t.last_assigned < MaxSeq PROVE u \notin {next_seq(t), stream_down(next_seq(t), at)}
    OBVIOUS
  <2>1. next_seq(t) \in Tracker /\ ~Open(next_seq(t).state)
    BY NextSeqType DEF next_seq, Tracker
  <2> QED BY <2>1, <1>d
<1>3. u # seq_for_replacement(t)
  BY CalmSteps DEF Calm
<1>4. ~\E k \in Seqs : u = record_sent(t, k, at)
  BY DEF record_sent, Tracker
<1>5. ~\E m \in Msg : u \in {observe_status(t, m), stream_down(observe_status(t, m), at)}
  <2> SUFFICES ASSUME NEW m \in Msg
               PROVE  u \notin {observe_status(t, m), stream_down(observe_status(t, m), at)}
    OBVIOUS
  <2>1. observe_status(t, m) \in Tracker
    BY ObserveType
  <2>2. ~Open(observe_status(t, m).state)
    BY CalmSteps DEF observe_status, Calm, TerminalSignal
  <2> QED BY <2>1, <2>2, <1>d
<1>6. PICK m \in Msg :
        LET o == observe_controller_msg(t, m, a, at)
        IN  IF o.terminal = "none" THEN u = o ELSE u = stream_down(o, at)
  BY <1>1, <1>2, <1>3, <1>4, <1>5 DEF Moves
<1> DEFINE o == observe_controller_msg(t, m, a, at)
<1> DEFINE v == IF a.first_seen THEN t ELSE stream_up(t, at)
<1>7. u = o
  <2>1. /\ o \in Tracker
        /\ o.terminal # "none" => o.state \in TerminalSignal /\ stream_down(o, at) = o
    BY MessageGate
  <2> HIDE DEF o
  <2> QED BY <1>6, <2>1 DEF o
<1>8. /\ v \in Tracker /\ Consistent(v) /\ ~Open(v.state)
      /\ v.sent = t.sent /\ v.highest_accepted = t.highest_accepted /\ v.lost_at = t.lost_at
  <2>1. stream_up(t, at).lost_at = t.lost_at
    BY <1>e DEF stream_up, transition, Tracker
  <2> QED BY <2>1, StreamUpType, StreamUpGate, CalmSteps DEF Calm
<1>9. u = CASE m.kind = "Ack" -> on_ack(v, m.seq, a.capable, at)
            [] m.kind = "ConnectorRevoked" -> on_terminal(v, "Revoked")
            [] OTHER -> v
  BY <1>7 DEF observe_controller_msg
<1> HIDE DEF v, o
<1>10. expire(v, at) = v
  BY <1>8, ExpireOnce DEF Lapsed
<1>11. ~Open(on_terminal(v, "Revoked").state)
  BY <1>8, CalmSteps DEF Calm, TerminalSignal
<1>12. m.kind = "Ack" /\ u = on_ack(v, m.seq, a.capable, at)
  BY <1>8, <1>9, <1>11
<1>13. m.seq \in 0..MaxSeq /\ a.capable \in BOOLEAN
  BY DEF Msg
<1>14. /\ m.seq \in Seqs /\ u.highest_accepted = m.seq
       /\ Accepts(v, m.seq, a.capable, at)
  BY <1>8, <1>10, <1>12, <1>13, OnAckGate
<1> QED BY <1>8, <1>14 DEF Accepts

\* With prompt re-sends, only a report first sent at or after the loss of
\* authorization reopens the data plane: on_ack judges an ack by the recorded
\* send, and the freshness invariant says that it is the first one.
THEOREM ReopenedByNew ==
    ASSUME PromptResends
    PROVE  Spec => ReopenedByNewRequest
<1>1. FreshInv /\ GateInv /\ [Next]_vars =>
        [~Open(tracker.state) /\ Open(tracker'.state) =>
            first[tracker'.highest_accepted] >= tracker.lost_at]_vars
  <2> SUFFICES ASSUME FreshInv, GateInv, Next, ~Open(tracker.state), Open(tracker'.state)
               PROVE  first[tracker'.highest_accepted] >= tracker.lost_at
    OBVIOUS
  <2>1. /\ tracker \in Tracker /\ now \in Nat /\ Consistent(tracker)
        /\ authz \in [capable : BOOLEAN, first_seen : BOOLEAN]
    BY DEF GateInv, TypeInv, TypeOK
  <2>2. Moves(tracker, tracker', authz, now)
    BY NextMoves DEF GateInv
  <2>3. /\ tracker'.highest_accepted \in Seqs
        /\ tracker'.highest_accepted > tracker.highest_accepted
        /\ tracker.sent[tracker'.highest_accepted] # Never
        /\ tracker.sent[tracker'.highest_accepted] >= tracker.lost_at
    BY <2>1, <2>2, MovesReopen
  <2>4. tracker.sent[tracker'.highest_accepted] = first[tracker'.highest_accepted]
    BY <2>3 DEF FreshInv, Fresh
  <2> QED BY <2>3, <2>4
<1> QED BY <1>1, FreshInvariant, GateStart, GateKept, PTL DEF Spec, ReopenedByNewRequest
=============================================================================
