--------------------------- MODULE ConnectorAuthz ---------------------------
(***************************************************************************)
(* How a connector stays authorized, and how it stops being so.            *)
(*                                                                         *)
(* One connector process (connector/src/authorization.rs, control_stream.rs)*)
(* talks to one controller process (controller/internal/connector) over    *)
(* Control streams.  Every health report carries a sequence number; the    *)
(* controller acknowledges it after a revocation-guarded UPDATE of the     *)
(* connector's row, and the connector admits traffic until H after it sent *)
(* the acknowledged report.  A revocation is committed in the database,    *)
(* then signalled on the live streams; an open or a report refused with a  *)
(* marker says the same.  A certificate renewal opens a second stream      *)
(* before it drops the first.                                              *)
(*                                                                         *)
(* AckTracker's methods are functions on a tracker record.  The controller *)
(* handler of a stream, the stream's writer, the two wires and the         *)
(* connector's session loop are separate actors.  A stream breaks, either  *)
(* process restarts and a statement fails at any time.                     *)
(***************************************************************************)
EXTENDS Integers, Sequences

CONSTANTS
    H,              \* AUTHORIZATION_FRESHNESS
    QueueSize,      \* connectorSendQueueSize
    PromptResends,  \* TRUE: a re-sent report leaves within H of its first copy
    MaxSeq,         \* bound: sequence numbers
    MaxStreams,     \* bound: Control calls
    MaxTicks,       \* bound: scheduled reports
    MaxNow,         \* bound: the clock
    MaxFaults,      \* bound: breaks, restarts, failed statements
    MaxRenewals,    \* bound: certificate renewals
    MaxPushes       \* bound: other messages pushed to a stream

ASSUME ConstantsAssumption ==
    /\ H \in Nat \ {0} /\ QueueSize \in Nat \ {0}
    /\ PromptResends \in BOOLEAN
    /\ MaxSeq \in Nat /\ MaxStreams \in Nat /\ MaxTicks \in Nat /\ MaxNow \in Nat
    /\ MaxFaults \in Nat /\ MaxRenewals \in Nat /\ MaxPushes \in Nat

VARIABLES
    now,        \* the clock both processes' monotonic clocks follow
    db,         \* what lookupConnector finds
    signal,     \* RevokeConnector's call of SignalRevoked
    \* per stream, at the controller
    phase,      \* where the Control handler is
    health,     \* seq whose UPDATE has matched and whose ack is not yet sent
    activated,  \* the activation UPDATE matched
    revoked,    \* connectorStreamClient.revoked
    terminal,   \* the one-slot terminal mailbox
    urgent,     \* the writer has found the terminal mailbox full
    outbound,   \* the outbound mailbox
    \* per stream, between the two
    down,       \* controller to connector
    up,         \* connector to controller
    mailbox,    \* the connector's outbound mailbox, not yet sent
    broken,     \* the connector's side is gone
    \* the connector
    mode,       \* where reconnect_loop is
    stream,     \* the session's stream
    opening,    \* the Control call in progress
    openSeq,    \* the seq of its initial report
    pending,    \* a renewed certificate waits for its stream
    authz,      \* StreamAuthz of the session's stream
    tracker,    \* AckTracker
    \* bounds
    opened, ticks, faults, renewals, pushes,
    \* The variables below only record history.
    base,       \* streams opened by earlier connector processes
    first,      \* first[k]: when seq k was first sent by this process
    revokedAt   \* when db stopped being "authorized"

ctlVars == <<phase, health, activated, revoked, terminal, urgent, outbound>>
wireVars == <<down, up, mailbox, broken>>
sessVars == <<mode, stream, opening, openSeq, pending, authz>>
boundVars == <<opened, ticks, faults, renewals, pushes>>
histVars == <<base, first, revokedAt>>
vars == <<now, db, signal, ctlVars, wireVars, sessVars, tracker, boundVars, histVars>>

-----------------------------------------------------------------------------
(* Types *)

Streams == 1..MaxStreams
NoStream == 0
Seqs == 1..MaxSeq
NoSeq == 0
Never == -1
Instant == Nat \cup {Never}

ServingState == {"Starting", "Serving", "ServingDisconnected", "Disabled",
                 "Recovering", "Revoked", "UnknownIdentity"}
TerminalSignal == {"Revoked", "UnknownIdentity"}

Tracker == [state : ServingState,
            deadline : Instant,
            lost_at : Instant,
            sent : [Seqs -> Instant],
            last_assigned : 0..MaxSeq,
            highest_accepted : 0..MaxSeq,
            terminal : TerminalSignal \cup {"none"}]

\* Controller messages; the "End" ones are the statuses a stream ends with:
\* with the revoked marker, with the unknown marker, without a marker.
Kind == {"Policy", "Ack", "ConnectorRevoked", "Other",
         "EndRevoked", "EndUnknown", "End"}
Msg == [kind : Kind, seq : 0..MaxSeq]
Message(kind) == [kind |-> kind, seq |-> NoSeq]
Ack(k) == [kind |-> "Ack", seq |-> k]
IsEnd(m) == m.kind \in {"EndRevoked", "EndUnknown", "End"}

\* The Control handler has registered the stream and not yet retired it.
LivePhase == {"registered", "serving", "acking"}
HandlerPhase == LivePhase \cup {"calling", "looked"}

TypeOK ==
    /\ now \in Nat
    /\ db \in {"authorized", "revoked", "absent"}
    /\ signal \in {"none", "due", "sent", "lost"}
    /\ phase \in [Streams -> HandlerPhase \cup {"unused", "ended"}]
    /\ health \in [Streams -> 0..MaxSeq]
    /\ activated \in [Streams -> BOOLEAN]
    /\ revoked \in [Streams -> BOOLEAN]
    /\ terminal \in [Streams -> {"empty", "queued", "sent"}]
    /\ urgent \in [Streams -> BOOLEAN]
    /\ outbound \in [Streams -> Seq(Msg)]
    /\ down \in [Streams -> Seq(Msg)]
    /\ up \in [Streams -> Seq(Seqs)]
    /\ mailbox \in [Streams -> Seq(Seqs)]
    /\ broken \in [Streams -> BOOLEAN]
    /\ mode \in {"backoff", "connecting", "session", "parked"}
    /\ stream \in Streams \cup {NoStream}
    /\ opening \in Streams \cup {NoStream}
    /\ openSeq \in 0..MaxSeq
    /\ pending \in BOOLEAN
    /\ authz \in [capable : BOOLEAN, first_seen : BOOLEAN]
    /\ tracker \in Tracker
    /\ opened \in 0..MaxStreams
    /\ ticks \in Nat /\ faults \in Nat /\ renewals \in Nat /\ pushes \in Nat
    /\ base \in 0..MaxStreams
    /\ first \in [Seqs -> Instant]
    /\ revokedAt \in Instant

-----------------------------------------------------------------------------
(* AckTracker *)

NewTracker ==
    [state |-> "Starting", deadline |-> Never, lost_at |-> Never,
     sent |-> [k \in Seqs |-> Never], last_assigned |-> 0,
     highest_accepted |-> 0, terminal |-> "none"]

Open(s) == s \in {"Serving", "ServingDisconnected"}

admits(t, at) == Open(t.state) /\ t.deadline # Never /\ at < t.deadline

transition(t, to) ==
    [t EXCEPT !.state = to, !.deadline = IF Open(to) THEN @ ELSE Never]

expire(t, at) ==
    IF Open(t.state) /\ t.deadline # Never /\ at >= t.deadline
    THEN transition([t EXCEPT !.lost_at = t.deadline], "Disabled")
    ELSE t

stream_up(t, at) ==
    LET e == expire(t, at)
    IN  IF e.state = "Disabled" THEN transition(e, "Recovering") ELSE e

\* Fault: the deadline is not looked at first.
stream_downUnexpired(t, at) ==
    IF t.state = "Serving" THEN transition(t, "ServingDisconnected") ELSE t

stream_down(t, at) ==
    LET e == expire(t, at)
    IN  CASE e.state = "Serving"    -> transition(e, "ServingDisconnected")
          [] e.state = "Recovering" ->
                transition([e EXCEPT !.lost_at = at], "Disabled")
          [] OTHER                  -> e

next_seq(t) == [t EXCEPT !.last_assigned = @ + 1]

\* The outstanding seq is sent again; a new one only if nothing is outstanding.
seq_for_replacement(t) ==
    IF t.last_assigned > t.highest_accepted THEN t ELSE next_seq(t)

\* Fault: the last send wins.
record_sentLast(t, k, at) ==
    [t EXCEPT !.sent = [@ EXCEPT ![k] = at]]

\* The first send wins; then requests that are H old are pruned.
record_sent(t, k, at) ==
    LET inserted == [t.sent EXCEPT ![k] = IF @ = Never THEN at ELSE @]
    IN  [t EXCEPT !.sent = [j \in Seqs |->
            IF inserted[j] # Never /\ at < inserted[j] + H THEN inserted[j] ELSE Never]]

\* Fault: an ack of a request from before the loss is accepted.
AcceptsLate(t, k, capable, at) ==
    /\ t.terminal = "none" /\ capable
    /\ k > t.highest_accepted /\ t.sent[k] # Never /\ at - t.sent[k] < H

\* The rows of on_ack that let an ack through.
Accepts(t, k, capable, at) ==
    /\ t.terminal = "none"
    /\ capable
    /\ k > t.highest_accepted
    /\ t.sent[k] # Never
    /\ at - t.sent[k] < H
    /\ t.sent[k] >= t.lost_at

DeadlineOf(t, k, at) ==
    LET d == t.sent[k] + H IN IF t.deadline > d THEN t.deadline ELSE d

on_ack(t, k, capable, at) ==
    LET e == expire(t, at)
    IN  IF Accepts(e, k, capable, at)
        THEN transition([e EXCEPT !.highest_accepted = k,
                                  !.sent = [j \in Seqs |-> IF j > k THEN @[j] ELSE Never],
                                  !.deadline = DeadlineOf(e, k, at)],
                        "Serving")
        ELSE e

\* The first terminal signal wins.
on_terminal(t, sig) ==
    IF t.terminal # "none" THEN t
    ELSE transition([t EXCEPT !.terminal = sig], sig)

\* Only the marker of a status counts.
observe_status(t, m) ==
    CASE m.kind = "EndRevoked" -> on_terminal(t, "Revoked")
      [] m.kind = "EndUnknown" -> on_terminal(t, "UnknownIdentity")
      [] OTHER -> t

\* A controller message on a stream whose first message may be this one.
observe_controller_msg(t, m, a, at) ==
    LET u == IF a.first_seen THEN t ELSE stream_up(t, at)
    IN  CASE m.kind = "Ack" -> on_ack(u, m.seq, a.capable, at)
          [] m.kind = "ConnectorRevoked" -> on_terminal(u, "Revoked")
          [] OTHER -> u

NewStreamAuthz == [capable |-> FALSE, first_seen |-> FALSE]

StreamAuthzAfter(a, m) ==
    [capable |-> a.capable \/ m.kind = "Policy", first_seen |-> TRUE]

-----------------------------------------------------------------------------
(* Initial state and time *)

Init ==
    /\ now = 0 /\ db = "authorized" /\ signal = "none"
    /\ phase = [s \in Streams |-> "unused"]
    /\ health = [s \in Streams |-> NoSeq]
    /\ activated = [s \in Streams |-> FALSE]
    /\ revoked = [s \in Streams |-> FALSE]
    /\ terminal = [s \in Streams |-> "empty"]
    /\ urgent = [s \in Streams |-> FALSE]
    /\ outbound = [s \in Streams |-> << >>]
    /\ down = [s \in Streams |-> << >>]
    /\ up = [s \in Streams |-> << >>]
    /\ mailbox = [s \in Streams |-> << >>]
    /\ broken = [s \in Streams |-> FALSE]
    /\ mode = "backoff" /\ stream = NoStream /\ opening = NoStream
    /\ openSeq = NoSeq /\ pending = FALSE /\ authz = NewStreamAuthz
    /\ tracker = NewTracker
    /\ opened = 0 /\ ticks = 0 /\ faults = 0 /\ renewals = 0 /\ pushes = 0
    /\ base = 0 /\ first = [k \in Seqs |-> Never]
    /\ revokedAt = Never

ClockTick ==
    /\ now < MaxNow
    /\ now' = now + 1
    /\ UNCHANGED <<db, signal, ctlVars, wireVars, sessVars, tracker, boundVars, histVars>>

\* spawn_expiry's timer, whenever it gets to run.
ExpiryTimer ==
    /\ expire(tracker, now) # tracker
    /\ tracker' = expire(tracker, now)
    /\ UNCHANGED <<now, db, signal, ctlVars, wireVars, sessVars, boundVars, histVars>>

-----------------------------------------------------------------------------
(* The administrator *)

\* The guarded UPDATE of RevokeConnector commits ...
RevokeCommits ==
    /\ db = "authorized"
    /\ db' = "revoked" /\ signal' = "due" /\ revokedAt' = now
    /\ UNCHANGED <<now, ctlVars, wireVars, sessVars, tracker, boundVars,
                   base, first>>

\* ... and then SignalRevoked marks every live stream, under lifecycleMu.
SignalRevoked ==
    /\ signal = "due"
    /\ signal' = "sent"
    /\ LET reached == {s \in Streams : phase[s] \in LivePhase /\ ~revoked[s]}
       IN  /\ revoked' = [s \in Streams |-> revoked[s] \/ s \in reached]
           /\ terminal' = [s \in Streams |-> IF s \in reached THEN "queued" ELSE terminal[s]]
    /\ UNCHANGED <<now, db, phase, health, activated, urgent, outbound,
                   wireVars, sessVars, tracker, boundVars, histVars>>

\* The row and its tombstone are gone (a restored or emptied database).
RowLost ==
    /\ db = "authorized" /\ faults < MaxFaults
    /\ db' = "absent" /\ revokedAt' = now /\ faults' = faults + 1
    /\ UNCHANGED <<now, signal, ctlVars, wireVars, sessVars, tracker,
                   opened, ticks, renewals, pushes, base, first>>

-----------------------------------------------------------------------------
(* The controller's Control handler of stream s *)

\* Fault: a lookup that found nothing authorized is reported as revoked.
rejectionForRevoked(state) == Message("EndRevoked")

\* Fault: no marker is set, as before the contract.
rejectionForUnmarked(state) == Message("End")

\* Fault: the row's state is passed on as the marker.
rejectionForVerbatim(state) == Message(state)

rejectionFor(state) ==
    CASE state = "revoked" -> Message("EndRevoked")
      [] state = "absent"  -> Message("EndUnknown")
      [] OTHER             -> Message("End")

\* What the controller writes reaches a stream the connector still holds.
Reaches(s) == ~broken[s] /\ s \in {stream, opening}

\* The handler returns: the stream is retired and leaves the live set, what is
\* still in the mailboxes is dropped, the status follows what was written.
HandlerReturns(s, m) ==
    /\ phase' = [phase EXCEPT ![s] = "ended"]
    /\ outbound' = [outbound EXCEPT ![s] = << >>]
    /\ terminal' = [terminal EXCEPT ![s] = "empty"]
    /\ up' = [up EXCEPT ![s] = << >>]
    /\ down' = IF Reaches(s) THEN [down EXCEPT ![s] = Append(@, m)] ELSE down
    /\ UNCHANGED <<health, activated, revoked, urgent, mailbox, broken>>

\* A statement of this handler fails.
StatementFails == faults < MaxFaults /\ faults' = faults + 1

NoFault == UNCHANGED faults

\* send: a full mailbox refuses the message.
Enqueued(s, m) ==
    IF Len(outbound[s]) < QueueSize
    THEN [outbound EXCEPT ![s] = Append(@, m)] ELSE outbound

ControlLookup(s) ==
    /\ phase[s] = "calling"
    /\ \/ /\ db = "authorized" /\ NoFault
          /\ phase' = [phase EXCEPT ![s] = "looked"]
          /\ UNCHANGED <<health, activated, revoked, terminal, urgent, outbound, wireVars>>
       \/ db # "authorized" /\ NoFault /\ HandlerReturns(s, rejectionFor(db))
       \/ StatementFails /\ HandlerReturns(s, Message("End"))
    /\ UNCHANGED <<now, db, signal, sessVars, tracker, opened, ticks, renewals, pushes, histVars>>

\* Fault: activation does not look at the revocation.
activateStreamUnguarded(s) ==
    /\ phase[s] = "looked"
    /\ phase' = [phase EXCEPT ![s] = "registered"]
    /\ activated' = [activated EXCEPT ![s] = TRUE]
    /\ UNCHANGED <<health, revoked, terminal, urgent, outbound, wireVars>>
    /\ UNCHANGED <<now, db, signal, sessVars, tracker, boundVars, histVars>>

\* Guarded UPDATE and registration, under lifecycleMu.  No row matched: a
\* second lookup decides the marker, and may fail.  The UPDATE itself failed:
\* the stream is registered all the same.
activateStream(s) ==
    /\ phase[s] = "looked"
    /\ \/ /\ \/ db = "authorized" /\ NoFault
             \/ StatementFails
          /\ phase' = [phase EXCEPT ![s] = "registered"]
          /\ activated' = [activated EXCEPT ![s] = (faults' = faults)]
          /\ UNCHANGED <<health, revoked, terminal, urgent, outbound, wireVars>>
       \/ db # "authorized" /\ NoFault /\ HandlerReturns(s, rejectionFor(db))
       \/ db # "authorized" /\ StatementFails /\ HandlerReturns(s, Message("End"))
    /\ UNCHANGED <<now, db, signal, sessVars, tracker, opened, ticks, renewals, pushes, histVars>>

sendAgentPolicy(s) ==
    /\ phase[s] = "registered"
    /\ phase' = [phase EXCEPT ![s] = "serving"]
    /\ outbound' = Enqueued(s, Message("Policy"))
    /\ UNCHANGED <<health, activated, revoked, terminal, urgent, wireVars>>
    /\ UNCHANGED <<now, db, signal, sessVars, tracker, boundVars, histVars>>

\* ACL snapshots, relay lists and the like, from other goroutines.
PushOther(s) ==
    /\ phase[s] \in LivePhase /\ terminal[s] # "sent"
    /\ pushes < MaxPushes /\ pushes' = pushes + 1
    /\ outbound' = Enqueued(s, Message("Other"))
    /\ UNCHANGED <<phase, health, activated, revoked, terminal, urgent, wireVars>>
    /\ UNCHANGED <<now, db, signal, sessVars, tracker, opened, ticks, faults, renewals, histVars>>

\* Fault: the health UPDATE carries no revocation guard.
HealthMatchesAny == db # "absent"

\* WHERE clause of the health UPDATE.
HealthMatches == db = "authorized"

\* handleConnectorHealth up to its UPDATE.
HealthUpdate(s) ==
    /\ phase[s] = "serving" /\ up[s] # << >>
    /\ \/ /\ HealthMatches /\ NoFault
          /\ phase' = [phase EXCEPT ![s] = "acking"]
          /\ health' = [health EXCEPT ![s] = Head(up[s])]
          /\ up' = [up EXCEPT ![s] = Tail(@)]
          /\ UNCHANGED <<activated, revoked, terminal, urgent, outbound, down, mailbox, broken>>
       \/ ~HealthMatches /\ NoFault /\ HandlerReturns(s, rejectionFor(db))
       \/ ~HealthMatches /\ StatementFails /\ HandlerReturns(s, Message("End"))
       \/ /\ StatementFails
          /\ up' = [up EXCEPT ![s] = Tail(@)]
          /\ UNCHANGED <<ctlVars, down, mailbox, broken>>
    /\ UNCHANGED <<now, db, signal, sessVars, tracker, opened, ticks, renewals, pushes, histVars>>

\* ... and from the ACL push to the ack, which a failed push withholds and
\* which shares authMu with markRevoked.
sendAuthorizationAck(s) ==
    /\ phase[s] = "acking"
    /\ phase' = [phase EXCEPT ![s] = "serving"]
    /\ health' = [health EXCEPT ![s] = NoSeq]
    /\ \/ NoFault /\ outbound' = IF revoked[s] THEN outbound ELSE Enqueued(s, Ack(health[s]))
       \/ StatementFails /\ outbound' = outbound
    /\ UNCHANGED <<activated, revoked, terminal, urgent, wireVars>>
    /\ UNCHANGED <<now, db, signal, sessVars, tracker, opened, ticks, renewals, pushes, histVars>>

\* The handler sees terminalSent closed.
EndAfterTerminal(s) ==
    /\ phase[s] = "serving" /\ terminal[s] = "sent"
    /\ HandlerReturns(s, Message("EndRevoked"))
    /\ UNCHANGED <<now, db, signal, sessVars, tracker, boundVars, histVars>>

\* EOF, a cancelled context or an unavailable shield revocation list: free when
\* the connector has left the stream, a fault otherwise.
ControlEnds(s) ==
    /\ phase[s] \in HandlerPhase
    /\ IF broken[s] \/ s \notin {stream, opening} THEN NoFault ELSE StatementFails
    /\ HandlerReturns(s, Message("End"))
    /\ UNCHANGED <<now, db, signal, sessVars, tracker, opened, ticks, renewals, pushes, histVars>>

-----------------------------------------------------------------------------
(* The writer of stream s *)

\* One round: a message of the mailbox, then the look at the terminal mailbox
\* that opens the next round.
WriterSends(s) ==
    /\ phase[s] \in LivePhase /\ outbound[s] # << >> /\ ~urgent[s]
    /\ terminal[s] # "sent"
    /\ outbound' = [outbound EXCEPT ![s] = Tail(@)]
    /\ down' = IF Reaches(s) THEN [down EXCEPT ![s] = Append(@, Head(outbound[s]))]
               ELSE down
    /\ urgent' = [urgent EXCEPT ![s] = (terminal[s] = "queued")]
    /\ UNCHANGED <<phase, health, activated, revoked, terminal, up, mailbox, broken>>
    /\ UNCHANGED <<now, db, signal, sessVars, tracker, boundVars, histVars>>

\* ConnectorRevoked is the last message: the writer stops.
sendTerminal(s) ==
    /\ phase[s] \in LivePhase /\ terminal[s] = "queued"
    /\ terminal' = [terminal EXCEPT ![s] = "sent"]
    /\ outbound' = [outbound EXCEPT ![s] = << >>]
    /\ down' = IF Reaches(s) THEN [down EXCEPT ![s] = Append(@, Message("ConnectorRevoked"))]
               ELSE down
    /\ UNCHANGED <<phase, health, activated, revoked, urgent, up, mailbox, broken>>
    /\ UNCHANGED <<now, db, signal, sessVars, tracker, boundVars, histVars>>

-----------------------------------------------------------------------------
(* The connector *)

\* A new Control call, whose initial report will carry seq k.
CallControl(k) ==
    /\ opened < MaxStreams
    /\ opened' = opened + 1
    /\ opening' = opened + 1
    /\ openSeq' = k
    /\ phase' = [phase EXCEPT ![opened + 1] = "calling"]
    /\ UNCHANGED <<health, activated, revoked, terminal, urgent, outbound, wireVars>>

\* run_once: a new stream, a new seq.
Connect ==
    /\ mode = "backoff" /\ tracker.last_assigned < MaxSeq
    /\ tracker' = next_seq(tracker)
    /\ CallControl(tracker.last_assigned + 1)
    /\ mode' = "connecting"
    /\ UNCHANGED <<stream, pending, authz>>
    /\ UNCHANGED <<now, db, signal, ticks, faults, renewals, pushes, histVars>>

\* The attempt ends with tracker t and its streams are dropped: reconnect_loop
\* records the end of the stream and parks for good if t is terminal.
AttemptEnds(t) ==
    /\ down' = [s \in Streams |-> << >>]
    /\ tracker' = stream_down(t, now)
    /\ mode' = IF t.terminal # "none" THEN "parked" ELSE "backoff"
    /\ stream' = NoStream /\ opening' = NoStream /\ openSeq' = NoSeq
    /\ pending' = FALSE /\ authz' = NewStreamAuthz

\* The Control call returns: with the response headers, which the first
\* message carries, or with a status.  A replacement becomes the session's
\* stream, and the old one is dropped unread.
OpenSucceeds ==
    /\ opening # NoStream /\ down[opening] # << >> /\ ~IsEnd(Head(down[opening]))
    /\ mailbox' = [mailbox EXCEPT ![opening] = IF broken[opening] THEN @ ELSE Append(@, openSeq)]
    /\ mode' = "session" /\ stream' = opening /\ authz' = NewStreamAuthz
    /\ opening' = NoStream /\ openSeq' = NoSeq /\ pending' = FALSE
    /\ down' = [s \in Streams |-> IF s = opening THEN down[s] ELSE << >>]
    /\ UNCHANGED <<now, db, signal, ctlVars, up, broken, tracker, boundVars, histVars>>

OpenRefused ==
    /\ opening # NoStream /\ down[opening] # << >> /\ IsEnd(Head(down[opening]))
    /\ LET t == observe_status(tracker, Head(down[opening]))
       IN  IF mode = "connecting" \/ t.terminal # "none"
           THEN AttemptEnds(t)
           ELSE /\ opening' = NoStream /\ openSeq' = NoSeq /\ tracker' = t
                /\ down' = [down EXCEPT ![opening] = << >>]
                /\ UNCHANGED <<mode, stream, pending, authz>>
    /\ UNCHANGED <<now, db, signal, ctlVars, up, mailbox, broken, boundVars, histVars>>

\* One message of the session's stream, or its end.
ReadStream ==
    /\ mode = "session" /\ down[stream] # << >>
    /\ LET m == Head(down[stream])
           t == IF IsEnd(m) THEN observe_status(tracker, m)
                ELSE observe_controller_msg(tracker, m, authz, now)
       IN  IF IsEnd(m) \/ t.terminal # "none"
           THEN AttemptEnds(t)
           ELSE /\ tracker' = t
                /\ authz' = StreamAuthzAfter(authz, m)
                /\ down' = [down EXCEPT ![stream] = Tail(@)]
                /\ UNCHANGED <<mode, stream, opening, openSeq, pending>>
    /\ UNCHANGED <<now, db, signal, ctlVars, up, mailbox, broken, boundVars, histVars>>

\* The request schedule fires; on a broken stream the send ends the session.
ScheduleTick ==
    /\ mode = "session" /\ tracker.last_assigned < MaxSeq
    /\ ticks < MaxTicks /\ ticks' = ticks + 1
    /\ IF broken[stream]
       THEN AttemptEnds(next_seq(tracker)) /\ UNCHANGED mailbox
       ELSE /\ tracker' = next_seq(tracker)
            /\ mailbox' = [mailbox EXCEPT ![stream] = Append(@, tracker.last_assigned + 1)]
            /\ UNCHANGED <<sessVars, down>>
    /\ UNCHANGED <<now, db, signal, ctlVars, up, broken,
                   opened, faults, renewals, pushes, histVars>>

\* ReEnroll was answered by a new certificate.
RenewalDone ==
    /\ mode = "session" /\ ~pending
    /\ renewals < MaxRenewals /\ renewals' = renewals + 1
    /\ pending' = TRUE
    /\ UNCHANGED <<mode, stream, opening, openSeq, authz>>
    /\ UNCHANGED <<now, db, signal, ctlVars, wireVars, tracker, opened, ticks, faults, pushes, histVars>>

\* The replacement stream re-sends the outstanding seq.
OpenReplacement ==
    /\ mode = "session" /\ pending /\ opening = NoStream
    /\ tracker.last_assigned < MaxSeq \/ tracker.last_assigned > tracker.highest_accepted
    /\ tracker' = seq_for_replacement(tracker)
    /\ CallControl(tracker'.last_assigned)
    /\ UNCHANGED <<mode, stream, pending, authz>>
    /\ UNCHANGED <<now, db, signal, ticks, faults, renewals, pushes, histVars>>

\* The old certificate's not_after passes before the replacement is there.
OldCertExpires ==
    /\ mode = "session" /\ pending
    /\ AttemptEnds(tracker)
    /\ UNCHANGED <<now, db, signal, ctlVars, up, mailbox, broken, boundVars, histVars>>

-----------------------------------------------------------------------------
(* The transport *)

\* stamp_sends: the transport takes the next report of a mailbox.  The mailbox
\* of a dropped stream is drained too.
TransportSends(s) ==
    /\ mailbox[s] # << >> /\ ~broken[s] /\ phase[s] # "ended"
    /\ LET k == Head(mailbox[s])
       IN  /\ PromptResends => first[k] = Never \/ now < first[k] + H
           /\ tracker' = record_sent(tracker, k, now)
           /\ first' = [first EXCEPT ![k] = IF @ = Never THEN now ELSE @]
           /\ up' = [up EXCEPT ![s] = Append(@, k)]
    /\ mailbox' = [mailbox EXCEPT ![s] = Tail(@)]
    /\ UNCHANGED <<now, db, signal, ctlVars, down, broken, sessVars, boundVars,
                   base, revokedAt>>

\* The connection of a stream breaks: the connector reads what had arrived,
\* then an error; the controller notices later (ControlEnds).
StreamBreaks(s) ==
    /\ s \in {stream, opening} \ {NoStream} /\ ~broken[s] /\ phase[s] # "ended"
    /\ StatementFails
    /\ broken' = [broken EXCEPT ![s] = TRUE]
    /\ mailbox' = [mailbox EXCEPT ![s] = << >>]
    /\ \E n \in 0..Len(down[s]) :
         down' = [down EXCEPT ![s] = Append(SubSeq(@, 1, n), Message("End"))]
    /\ UNCHANGED <<now, db, signal, ctlVars, up, sessVars, tracker,
                   opened, ticks, renewals, pushes, histVars>>

\* The connector process restarts: nothing is persisted.
ConnectorRestarts ==
    /\ StatementFails
    /\ tracker' = NewTracker
    /\ mode' = "backoff" /\ stream' = NoStream /\ opening' = NoStream
    /\ openSeq' = NoSeq /\ pending' = FALSE /\ authz' = NewStreamAuthz
    /\ broken' = [s \in Streams |-> s <= opened]
    /\ mailbox' = [s \in Streams |-> << >>]
    /\ down' = [s \in Streams |-> << >>]
    /\ base' = opened /\ first' = [k \in Seqs |-> Never]
    /\ UNCHANGED <<now, db, signal, ctlVars, up, opened, ticks, renewals, pushes, revokedAt>>

\* The controller process restarts: its handlers and their mailboxes are gone,
\* and so is a signal that was still to be sent.
ControllerRestarts ==
    /\ StatementFails
    /\ phase' = [s \in Streams |-> IF phase[s] \in HandlerPhase THEN "ended" ELSE phase[s]]
    /\ outbound' = [s \in Streams |-> << >>]
    /\ terminal' = [s \in Streams |-> "empty"]
    /\ up' = [s \in Streams |-> << >>]
    /\ down' = [s \in Streams |->
                  IF phase[s] \in HandlerPhase /\ Reaches(s)
                  THEN Append(down[s], Message("End")) ELSE down[s]]
    /\ signal' = IF signal = "due" THEN "lost" ELSE signal
    /\ UNCHANGED <<now, db, health, activated, revoked, urgent, mailbox, broken,
                   sessVars, tracker, opened, ticks, renewals, pushes, histVars>>

-----------------------------------------------------------------------------
(* Specification *)

Handler(s) ==
    \/ ControlLookup(s) \/ activateStream(s) \/ sendAgentPolicy(s)
    \/ HealthUpdate(s) \/ sendAuthorizationAck(s) \/ EndAfterTerminal(s)

Writer(s) == WriterSends(s) \/ sendTerminal(s)

Session ==
    \/ Connect \/ OpenSucceeds \/ OpenRefused \/ ReadStream
    \/ OpenReplacement

Next ==
    \/ ClockTick \/ ExpiryTimer
    \/ RevokeCommits \/ SignalRevoked \/ RowLost
    \/ Session \/ ScheduleTick \/ RenewalDone \/ OldCertExpires
    \/ ConnectorRestarts \/ ControllerRestarts
    \/ \E s \in Streams :
         \/ Handler(s) \/ Writer(s) \/ PushOther(s) \/ ControlEnds(s)
         \/ TransportSends(s) \/ StreamBreaks(s)

Spec == Init /\ [][Next]_vars

\* Handlers and writers run, the transport moves, reconnect_loop and the session
\* loop go on, RevokeConnector reaches its next line.  Nothing makes a renewal,
\* a revocation, a push or a fault happen, and the clock is not needed.
Fairness ==
    /\ WF_vars(Session) /\ WF_vars(ScheduleTick) /\ WF_vars(SignalRevoked)
    /\ \A s \in Streams :
         WF_vars(Handler(s)) /\ WF_vars(Writer(s)) /\ WF_vars(TransportSends(s))

FairSpec == Spec /\ Fairness

-----------------------------------------------------------------------------
(* Properties *)

Admits == admits(tracker, now)

\* The point of the contract: no traffic is admitted H or more after the
\* revocation was committed (or the row was lost), whatever acks were in
\* flight, whichever stream they came on and whatever restarted.
RevocationBound ==
    Admits /\ db # "authorized" => now < revokedAt + H

\* Design 6.3: "No outdated request can refresh authorization beyond its own
\* sent + H", also when the request was sent again on a replacement stream.
FreshnessBound ==
    Admits => /\ tracker.highest_accepted # NoSeq
              /\ \E k \in 1..tracker.highest_accepted :
                    first[k] # Never /\ now < first[k] + H

\* The comment on record_sent: "The FIRST send wins: a re-send (renewal
\* replacement) never moves it later", for every request an ack could still
\* be accepted for.
FirstSendWins ==
    \A k \in Seqs :
        k > tracker.highest_accepted /\ tracker.sent[k] # Never => tracker.sent[k] = first[k]

\* After a loss of authorization only a request first sent at or after the
\* loss reopens the data plane: a late ack of an older one does not.
ReopenedByNewRequest ==
    [][~Open(tracker.state) /\ Open(tracker'.state) =>
          first[tracker'.highest_accepted] >= tracker.lost_at]_vars

\* A terminal state is what the database said, never the reading of a failed
\* statement, a broken stream or a restart.
TerminalIsTruthful ==
    /\ tracker.terminal = "Revoked" => db = "revoked"
    /\ tracker.terminal = "UnknownIdentity" => db = "absent"

\* SignalRevoked and activation exclude each other: once the signal went out,
\* no stream whose activation UPDATE matched lives on without it.
SignalReachesEveryStream ==
    signal = "sent" =>
        \A s \in Streams : phase[s] \in LivePhase /\ activated[s] => revoked[s]

\* A revocation is learned: by the signal, by a refused report or by a refused
\* open, and no break, restart or failed statement on the way prevents it,
\* the controller restart that loses the signal included.
RevokedIsLearned == db = "revoked" ~> tracker.terminal # "none"

-----------------------------------------------------------------------------
(* What the data plane sees of all this *)

Gate == INSTANCE ServingGate
        WITH state <- tracker.state,
             lapsed <- /\ Open(tracker.state)
                       /\ tracker.deadline # Never
                       /\ now >= tracker.deadline

\* Every step of the contract is, for the connector's data plane, a step of the
\* seven-state gate of ServingGate: whatever arrives late or on a stale stream,
\* a lapsed gate stays shut until an event moves it, no event leaves it open
\* past its deadline, a closed gate opens only into Serving, and a terminal
\* state is left only by a new process, which starts closed.
ImplementsGate == Gate!GateSpec
=============================================================================
