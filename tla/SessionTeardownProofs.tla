----------------------- MODULE SessionTeardownProofs ------------------------
(* Proofs about SessionTeardown.  Two things make its properties inductive:   *)
(* a tunnel past registration is in the registry under its key, so whoever    *)
(* visits that key cancels it; and once the enforcer is past its terminal     *)
(* scan no tunnel that serves is left uncancelled and none can start, since   *)
(* a terminal gate never opens again.                                         *)
EXTENDS SessionTeardown, TLAPS

\* The deadline lapses only while the gate is open, and a chosen terminal
\* branch means a terminal state.
GateShape ==
    /\ lapsed => Open(state)
    /\ enforcer.terminal # "no" => Terminal(state)

\* A tunnel past registration is registered under its key.
Registered ==
    \A s \in Sessions :
        session[s].pc \in {"registered", "allowed", "opening", "relaying"} =>
            s \in registry[session[s].key]

\* The mark of a loss is only on tunnels that serve.
LostServes == \A s \in Sessions : session[s].lost => Serving(s)

\* The terminal scan leaves no tunnel uncancelled behind it.
TerminalCancels ==
    /\ enforcer.terminal = "running" =>
         \A s \in Sessions : Serving(s) =>
             session[s].cancelled \/ session[s].key \in enforcer.scan
    /\ enforcer.terminal = "done" =>
         \A s \in Sessions : Serving(s) => session[s].cancelled

\* A tunnel past its second ACL check is of an allowed pair, or is cancelled,
\* or its pair is about to be; or it has yet to meet a gate that is shut for
\* good.
CheckedIsAllowed ==
    \A s \in Sessions :
        /\ session[s].pc \in {"allowed", "opening", "relaying"}
        /\ ~session[s].cancelled
        => \/ is_allowed(acl, session[s].key)
           \/ session[s].key \in revoked
           \/ session[s].pc = "allowed" /\ enforcer.terminal = "done"

TeardownInv ==
    /\ TypeOK /\ GateShape /\ Registered /\ LostServes /\ TerminalCancels
    /\ CheckedIsAllowed /\ LossReachesEveryTunnel /\ TerminalClosesStreams

-----------------------------------------------------------------------------
(* Types *)

\* An AclEntry of any snapshot, loaded or not, names clients only.
LEMMA AllowedClients ==
    ASSUME NEW a \in Snapshots \cup {NoAcl}, NEW r \in Resources
    PROVE  a[r].allowed \subseteq Clients
BY SnapshotsAssumption DEF NoAcl, Absent, Entry

\* Cancelling tunnels keeps them well typed and changes nothing else.
LEMMA CancelType ==
    ASSUME TypeOK, NEW S, Cancel(S)
    PROVE  /\ session' \in [Sessions -> Session]
           /\ \A s \in Sessions :
                /\ session'[s].pc = session[s].pc /\ session'[s].key = session[s].key
                /\ session'[s].tuple = session[s].tuple
                /\ session'[s].lost = session[s].lost
                /\ session'[s].cancelled = (session[s].cancelled \/ s \in S)
<1> DEFINE flag(s) == session[s].cancelled \/ s \in S
<1>1. \A s \in Sessions : session'[s] = [session[s] EXCEPT !.cancelled = flag(s)]
  BY DEF Cancel
<1>2. \A s \in Sessions : session[s] \in Session /\ flag(s) \in BOOLEAN
  BY DEF TypeOK
<1> HIDE DEF flag
<1>3. \A s \in Sessions : [session[s] EXCEPT !.cancelled = flag(s)] \in Session
  BY <1>2 DEF Session
<1>4. \A s \in Sessions : /\ session'[s].pc = session[s].pc /\ session'[s].key = session[s].key
                          /\ session'[s].tuple = session[s].tuple
                          /\ session'[s].lost = session[s].lost
                          /\ session'[s].cancelled = flag(s)
  BY <1>1, <1>2 DEF Session
<1>5. session' \in [Sessions -> Session]
  BY <1>1, <1>3 DEF Cancel
<1> QED BY <1>4, <1>5 DEF flag

\* A call that returns leaves an idle slot, and leaves the others alone.
LEMMA ReturnType ==
    ASSUME TypeOK, NEW s \in Sessions, Return(s)
    PROVE  /\ session' \in [Sessions -> Session]
           /\ session'[s] = Idle
           /\ \A r \in Sessions \ {s} : session'[r] = session[r]
           /\ registry' \in [Keys -> SUBSET Sessions]
           /\ \A k \in Keys : registry'[k] = registry[k] \ {s}
<1>1. Idle \in Session
  BY DEF Idle, Session
<1> QED BY <1>1 DEF Return, RegistryGuardDrop, TypeOK

\* The gate's events keep it well typed; a terminal state is final and closed.
LEMMA GateEventType ==
    ASSUME GateTypeOK, GateEvent
    PROVE  GateTypeOK' /\ lapsed' = FALSE /\ (Terminal(state) /\ ~lapsed => state' = state)
BY DEF GateTypeOK, GateEvent, Expire, Acknowledge, StreamUp, StreamDown, Terminate, Event,
       Expired, Terminal

\* Marking the tunnels that a loss has reached keeps them well typed.
LEMMA AuthorizeType ==
    ASSUME TypeOK, Authorize
    PROVE  /\ session' \in [Sessions -> Session]
           /\ \A s \in Sessions :
                /\ session'[s].pc = session[s].pc /\ session'[s].key = session[s].key
                /\ session'[s].tuple = session[s].tuple
                /\ session'[s].cancelled = session[s].cancelled
                /\ session'[s].lost = (session[s].lost \/ (Closes /\ Serving(s)))
<1> DEFINE flag(s) == session[s].lost \/ (Closes /\ Serving(s))
<1>1. session' = [s \in Sessions |-> [session[s] EXCEPT !.lost = flag(s)]]
  BY DEF Authorize
<1>2. \A s \in Sessions : session[s] \in Session /\ flag(s) \in BOOLEAN
  BY DEF TypeOK
<1> HIDE DEF flag
<1>3. \A s \in Sessions : [session[s] EXCEPT !.lost = flag(s)] \in Session
  BY <1>2 DEF Session
<1>4. \A s \in Sessions : /\ session'[s].pc = session[s].pc /\ session'[s].key = session[s].key
                          /\ session'[s].tuple = session[s].tuple
                          /\ session'[s].cancelled = session[s].cancelled
                          /\ session'[s].lost = flag(s)
  BY <1>1, <1>2 DEF Session
<1>5. session' \in [Sessions -> Session]
  BY <1>1, <1>3
<1> QED BY <1>4, <1>5 DEF flag

\* The steps of a tunnel keep the state well typed.
LEMMA TunnelTypeStep ==
    ASSUME TypeOK, NEW s \in Sessions, Accept(s) \/ Tunnel(s) \/ Finish(s)
    PROVE  TypeOK'
<1>0. session[s] \in Session
  BY DEF TypeOK
<1>r. ASSUME session' \in [Sessions -> Session],
             \A r \in Sessions \ {s} : session'[r] = session[r],
             session'[s].pc \notin {"idle", "reading"} =>
                 session'[s].key \in Keys /\ session'[s].tuple \in Tuples,
             registry' \in [Keys -> SUBSET Sessions],
             UNCHANGED restVars
      PROVE  TypeOK'
  <2>1. \A r \in Sessions : session'[r].pc \notin {"idle", "reading"} =>
                              session'[r].key \in Keys /\ session'[r].tuple \in Tuples
    BY <1>r DEF TypeOK
  <2> QED BY <1>r, <2>1 DEF TypeOK, restVars, gateVars, GateTypeOK
<1>s. ASSUME NEW upd \in Session,
             NEW pc \in {"reading", "resolved", "registered", "allowed", "opening", "relaying"},
             Step(s, pc, upd),
             pc # "reading" => upd.key \in Keys /\ upd.tuple \in Tuples,
             registry' \in [Keys -> SUBSET Sessions],
             UNCHANGED restVars
      PROVE  TypeOK'
  <2>1. /\ session' \in [Sessions -> Session] /\ session'[s] = [upd EXCEPT !.pc = pc]
        /\ \A q \in Sessions \ {s} : session'[q] = session[q]
    <3>1. [upd EXCEPT !.pc = pc] \in Session
      BY <1>s DEF Session
    <3> QED BY <1>s, <3>1 DEF Step, TypeOK
  <2>2. session'[s].pc = pc /\ session'[s].key = upd.key /\ session'[s].tuple = upd.tuple
    BY <1>s, <2>1 DEF Session
  <2> QED BY <1>s, <1>r, <2>1, <2>2
<1>g. registry \in [Keys -> SUBSET Sessions]
  BY DEF TypeOK
<1>k. session[s].pc \notin {"idle", "reading"} =>
         session[s].key \in Keys /\ session[s].tuple \in Tuples
  BY DEF TypeOK
<1>1. CASE Accept(s)
  <2>1. PICK c \in Clients : Step(s, "reading", [Idle EXCEPT !.key = <<c>>])
    BY <1>1 DEF Accept
  <2>2. [Idle EXCEPT !.key = <<c>>] \in Session
    BY DEF Idle, Session
  <2>3. UNCHANGED <<restVars, registry>>
    BY <1>1 DEF Accept
  <2> QED BY <1>g, <1>s, <2>1, <2>2, <2>3
<1>2. CASE Resolve(s)
  <2>1. PICK t \in Tuples, r \in Resources :
          /\ is_allowed(acl, <<session[s].key[1], r>>)
          /\ Step(s, "resolved", [session[s] EXCEPT !.key = <<session[s].key[1], r>>, !.tuple = t])
    BY <1>2 DEF Resolve
  <2> DEFINE key == <<session[s].key[1], r>>
             upd == [session[s] EXCEPT !.key = key, !.tuple = t]
  <2>2. key \in Keys
    BY <2>1, AllowedClients DEF is_allowed, TypeOK, Keys
  <2> HIDE DEF key
  <2>3. upd \in Session /\ upd.key = key /\ upd.tuple = t
    BY <1>0, <2>2 DEF Session
  <2>4. Step(s, "resolved", upd) /\ UNCHANGED <<restVars, registry>>
    BY <1>2, <2>1 DEF key, Resolve
  <2> QED BY <1>g, <1>s, <2>2, <2>3, <2>4
<1>3. CASE Register(s)
  <2>1. registry' \in [Keys -> SUBSET Sessions]
    BY <1>3 DEF Register, TypeOK
  <2>2. Step(s, "registered", session[s]) /\ session[s].pc = "resolved" /\ UNCHANGED restVars
    BY <1>3 DEF Register
  <2> QED BY <1>0, <1>s, <1>k, <2>1, <2>2
<1>4. CASE RecheckAcl(s)
  <2> DEFINE flag == session[s].cancelled \/ ~is_allowed(acl, session[s].key)
             upd == [session[s] EXCEPT !.cancelled = flag]
  <2>1. flag \in BOOLEAN
    OBVIOUS
  <2>2. Step(s, "allowed", upd) /\ session[s].pc = "registered" /\ UNCHANGED <<restVars, registry>>
    BY <1>4 DEF RecheckAcl
  <2> HIDE DEF flag
  <2>3. upd \in Session /\ upd.key = session[s].key /\ upd.tuple = session[s].tuple
    BY <1>0, <2>1 DEF Session
  <2> QED BY <1>g, <1>k, <1>s, <2>2, <2>3
<1>5. CASE Return(s) /\ UNCHANGED restVars
  BY <1>5, <1>r, ReturnType DEF Idle
<1>6. CASE /\ session[s].pc = "allowed" /\ Step(s, "opening", session[s])
           /\ UNCHANGED <<restVars, registry>>
  BY <1>0, <1>6, <1>g, <1>k, <1>s
<1>7. CASE Opened(s)
  <2>1. /\ session[s].pc = "opening" /\ Step(s, "relaying", session[s])
        /\ UNCHANGED <<restVars, registry>>
    BY <1>7 DEF Opened
  <2> QED BY <1>0, <2>1, <1>g, <1>k, <1>s
<1> QED BY <1>1, <1>2, <1>3, <1>4, <1>5, <1>6, <1>7
        DEF Tunnel, Refuse, RecheckGate, OpenFails, Finish, Abort

\* Telling the streams to end keeps them well typed and where they are.
LEMMA CloseAllType ==
    ASSUME TypeOK, close_all_streams
    PROVE  /\ stream' \in [Streams -> [pc : {"none", "subscribed", "open"}, told : BOOLEAN]]
           /\ \A t \in Streams : /\ stream'[t].pc = stream[t].pc
                                 /\ stream'[t].told = (stream[t].told \/ stream[t].pc # "none")
<1> DEFINE flag(t) == stream[t].told \/ stream[t].pc # "none"
           Stream == [pc : {"none", "subscribed", "open"}, told : BOOLEAN]
<1>1. stream' = [t \in Streams |-> [stream[t] EXCEPT !.told = flag(t)]]
  BY DEF close_all_streams
<1>2. \A t \in Streams : stream[t] \in Stream /\ flag(t) \in BOOLEAN
  BY DEF TypeOK
<1> HIDE DEF flag
<1>3. \A t \in Streams : /\ [stream[t] EXCEPT !.told = flag(t)] \in Stream
                         /\ stream'[t].pc = stream[t].pc /\ stream'[t].told = flag(t)
  BY <1>1, <1>2
<1>4. stream' \in [Streams -> Stream]
  BY <1>1, <1>3
<1> QED BY <1>3, <1>4 DEF flag

\* A step of one stream.
LEMMA StreamType ==
    ASSUME TypeOK, NEW t \in Streams,
           Subscribe(t) \/ Admit(t) \/ StreamClosed(t) \/ StreamEnds(t)
    PROVE  /\ stream' \in [Streams -> [pc : {"none", "subscribed", "open"}, told : BOOLEAN]]
           /\ UNCHANGED streamRest
           /\ \A r \in Streams \ {t} : stream'[r] = stream[r]
           /\ stream'[t].pc = "open" =>
                Admits \/ (stream[t].pc = "open" /\ stream'[t] = stream[t])
<1> DEFINE Stream == [pc : {"none", "subscribed", "open"}, told : BOOLEAN]
<1>1. stream \in [Streams -> Stream]
  BY DEF TypeOK
<1>2. NoStream \in Stream /\ NoStream.pc = "none"
  BY DEF NoStream
<1>3. CASE Subscribe(t)
  BY <1>1, <1>3 DEF Subscribe
<1>4. CASE Admit(t)
  BY <1>1, <1>2, <1>4 DEF Admit
<1>5. CASE StreamClosed(t) \/ StreamEnds(t)
  BY <1>1, <1>2, <1>5 DEF StreamClosed, StreamEnds
<1> QED BY <1>3, <1>4, <1>5

\* Every step keeps the state well typed.
LEMMA TypeStep == TypeOK /\ [Next]_vars => TypeOK'
<1> SUFFICES ASSUME TypeOK, [Next]_vars PROVE TypeOK'
  OBVIOUS
<1>1. CASE Authorize
  <2>1. GateTypeOK'
    BY <1>1, GateEventType DEF Authorize, TypeOK
  <2>2. closed' \in BOOLEAN /\ changed' \in BOOLEAN
    BY <1>1 DEF Authorize
  <2> QED BY <1>1, <2>1, <2>2, AuthorizeType DEF Authorize, TypeOK
<1>2. CASE DeadlinePasses
  BY <1>2 DEF DeadlinePasses, Lapse, dataVars, TypeOK, GateTypeOK
<1>3. CASE AclSnapshot
  BY <1>3 DEF AclSnapshot, update_and_revoked, gateVars, TypeOK, GateTypeOK
<1>c. ASSUME NEW S, Cancel(S), revoked' \subseteq Keys, enforcer' \in Enforcer,
             UNCHANGED <<gateVars, closed, changed, acl, registry, stream>>
      PROVE  TypeOK'
  BY <1>c, CancelType DEF gateVars, TypeOK, GateTypeOK
<1>4. CASE cancel_all
  BY <1>4, <1>c DEF cancel_all, TypeOK
<1>5. CASE \E s \in Sessions : Accept(s) \/ Tunnel(s) \/ Finish(s)
  BY <1>5, TunnelTypeStep
<1>6. CASE Look
  <2>1. enforcer' \in Enforcer
    BY <1>6 DEF Look, TypeOK, Enforcer
  <2> QED BY <1>6, <2>1 DEF Look, enforcerRest, gateVars, TypeOK, GateTypeOK
<1>7. CASE Scan
  BY <1>7, <1>c DEF Scan, enforcerRest, TypeOK, Enforcer
<1>8. CASE TerminalScan
  BY <1>8 DEF TerminalScan, enforcerRest, gateVars, TypeOK, GateTypeOK, Enforcer
<1>a. close_all_streams => stream' \in [Streams -> [pc : {"none", "subscribed", "open"},
                                                    told : BOOLEAN]]
  BY CloseAllType
<1>9. CASE TerminalDone
  BY <1>9, <1>a DEF TerminalDone, gateVars, TypeOK, GateTypeOK, Enforcer
<1>10. CASE GraceEnds
  BY <1>10, <1>a DEF GraceEnds, enforcerRest, gateVars, TypeOK, GateTypeOK, Enforcer
<1>11. CASE \E t \in Streams : Subscribe(t) \/ Admit(t) \/ StreamClosed(t) \/ StreamEnds(t)
  <2>1. stream' \in [Streams -> [pc : {"none", "subscribed", "open"}, told : BOOLEAN]]
    BY <1>11, StreamType
  <2>2. UNCHANGED streamRest
    BY <1>11, StreamType
  <2> QED BY <2>1, <2>2 DEF streamRest, dataVars, gateVars, TypeOK, GateTypeOK
<1>12. CASE UNCHANGED vars
  BY <1>12 DEF vars, TypeOK, GateTypeOK
<1> QED BY <1>1, <1>2, <1>3, <1>4, <1>5, <1>6, <1>7, <1>8, <1>9, <1>10, <1>11, <1>12
        DEF Next, FailClosed

-----------------------------------------------------------------------------
(* The invariant *)

\* The gate's steps: a loss marks the tunnels that serve and tells the enforcer.
LEMMA GateStep ==
    ASSUME TeardownInv, Authorize \/ DeadlinePasses
    PROVE  TeardownInv'
<1>0. TypeOK'
  BY TypeStep DEF TeardownInv, Next
<1>1. CASE Authorize
  <2>1. GateShape'
    BY <1>1, GateEventType DEF Authorize, TeardownInv, TypeOK, GateShape, Open, Terminal
  <2>2. /\ \A s \in Sessions :
             /\ session'[s].pc = session[s].pc /\ session'[s].key = session[s].key
             /\ session'[s].cancelled = session[s].cancelled
             /\ session'[s].lost => session[s].lost \/ (Closes /\ Serving(s))
        /\ UNCHANGED <<acl, revoked, registry, enforcer, stream>>
        /\ closed \/ Closes => closed'
    BY <1>1, AuthorizeType DEF Authorize, TeardownInv
  <2>3. Registered' /\ TerminalCancels' /\ CheckedIsAllowed' /\ TerminalClosesStreams'
    BY <2>2 DEF TeardownInv, Registered, TerminalCancels, CheckedIsAllowed,
                TerminalClosesStreams, Serving
  <2>4. LostServes'
    BY <2>2 DEF TeardownInv, LostServes, Serving
  <2>5. LossReachesEveryTunnel'
    BY <2>2 DEF TeardownInv, LossReachesEveryTunnel, Serving
  <2> QED BY <1>0, <2>1, <2>3, <2>4, <2>5 DEF TeardownInv
<1>2. CASE DeadlinePasses
  <2>1. UNCHANGED <<state, closed, acl, revoked, session, registry, enforcer, stream>> /\ Open(state)
    BY <1>2 DEF DeadlinePasses, Lapse, Admits, dataVars
  <2>2. GateShape'
    BY <2>1 DEF TeardownInv, GateShape
  <2>3. /\ Registered' /\ LostServes' /\ TerminalCancels' /\ CheckedIsAllowed'
        /\ LossReachesEveryTunnel' /\ TerminalClosesStreams'
    BY <2>1 DEF TeardownInv, Registered, LostServes, TerminalCancels, CheckedIsAllowed,
                LossReachesEveryTunnel, TerminalClosesStreams, Serving
  <2> QED BY <1>0, <2>2, <2>3 DEF TeardownInv
<1> QED BY <1>1, <1>2

\* A snapshot puts every pair it takes away among those to cancel.
LEMMA AclStep ==
    ASSUME TeardownInv, AclSnapshot
    PROVE  TeardownInv'
<1>0. TypeOK'
  BY TypeStep DEF TeardownInv, Next
<1>1. /\ UNCHANGED <<state, lapsed, closed, session, registry, enforcer, stream>>
      /\ revoked = {} /\ revoked' = update_and_revoked(acl, acl')
  BY DEF AclSnapshot, gateVars
<1>2. \A k \in Keys : is_allowed(acl, k) => is_allowed(acl', k) \/ k \in revoked'
  BY <1>1 DEF update_and_revoked
<1>3. ASSUME NEW s \in Sessions, session[s].pc \in {"allowed", "opening", "relaying"}
      PROVE  session[s].key \in Keys
  BY <1>3 DEF TeardownInv, TypeOK
<1>4. CheckedIsAllowed'
  BY <1>1, <1>2, <1>3 DEF TeardownInv, CheckedIsAllowed
<1>5. /\ GateShape' /\ Registered' /\ LostServes' /\ TerminalCancels'
      /\ LossReachesEveryTunnel' /\ TerminalClosesStreams'
  BY <1>1 DEF TeardownInv, GateShape, Registered, LostServes, TerminalCancels,
              LossReachesEveryTunnel, TerminalClosesStreams, Serving
<1> QED BY <1>0, <1>4, <1>5 DEF TeardownInv

\* Visiting a key cancels every tunnel past registration that has it.
LEMMA CancelStep ==
    ASSUME TeardownInv, NEW k \in Keys, Cancel(registry[k]),
           UNCHANGED <<state, lapsed, closed, acl, registry, stream>>,
           \/ revoked' = revoked \ {k} /\ UNCHANGED enforcer
           \/ enforcer' = [enforcer EXCEPT !.scan = @ \ {k}] /\ UNCHANGED revoked,
           TypeOK'
    PROVE  TeardownInv'
<1>1. \A s \in Sessions :
         /\ session'[s].pc = session[s].pc /\ session'[s].key = session[s].key
         /\ session'[s].lost = session[s].lost
         /\ session[s].cancelled => session'[s].cancelled
         /\ s \in registry[k] => session'[s].cancelled
  BY CancelType DEF TeardownInv
<1>2. \A s \in Sessions : /\ session[s].pc \in {"allowed", "opening", "relaying"}
                          /\ session[s].key = k
                          => session'[s].cancelled
  BY <1>1 DEF TeardownInv, Registered
<1>e. /\ enforcer'.terminal = enforcer.terminal
      /\ enforcer'.scan = enforcer.scan \/ enforcer'.scan = enforcer.scan \ {k}
  BY DEF TeardownInv, TypeOK, Enforcer
<1>3. GateShape' /\ Registered' /\ LostServes' /\ TerminalClosesStreams'
  BY <1>1, <1>e DEF TeardownInv, GateShape, Registered, LostServes, TerminalClosesStreams, Serving
<1>4. TerminalCancels'
  BY <1>1, <1>2, <1>e DEF TeardownInv, TerminalCancels, Serving
<1>5. LossReachesEveryTunnel'
  BY <1>1, <1>2, <1>e DEF TeardownInv, LossReachesEveryTunnel, Serving
<1>6. CheckedIsAllowed'
  BY <1>1, <1>2, <1>e DEF TeardownInv, CheckedIsAllowed
<1> QED BY <1>3, <1>4, <1>5, <1>6 DEF TeardownInv

\* What the parts of the invariant say of one tunnel.
TunnelInv(s) ==
    /\ session[s].pc \in {"registered", "allowed", "opening", "relaying"} =>
         s \in registry[session[s].key]
    /\ session[s].lost => Serving(s)
    /\ Serving(s) =>
         /\ enforcer.terminal = "running" =>
              session[s].cancelled \/ session[s].key \in enforcer.scan
         /\ enforcer.terminal = "done" => session[s].cancelled
         /\ session[s].lost =>
              session[s].cancelled \/ closed \/ session[s].key \in enforcer.scan
    /\ /\ session[s].pc \in {"allowed", "opening", "relaying"}
       /\ ~session[s].cancelled
       => \/ is_allowed(acl, session[s].key)
          \/ session[s].key \in revoked
          \/ session[s].pc = "allowed" /\ enforcer.terminal = "done"

\* The steps of a tunnel: it starts to serve only through an open gate.
LEMMA TunnelStep ==
    ASSUME TeardownInv, NEW s \in Sessions, Accept(s) \/ Tunnel(s) \/ Finish(s)
    PROVE  TeardownInv'
<1>0. TypeOK'
  BY TypeStep DEF TeardownInv, Next
<1>i. \A r \in Sessions : TunnelInv(r)
  BY DEF TeardownInv, TunnelInv, Registered, LostServes, TerminalCancels, CheckedIsAllowed,
         LossReachesEveryTunnel
<1>u. UNCHANGED restVars
  BY DEF Accept, Tunnel, Resolve, Refuse, Register, RecheckAcl, RecheckGate, Opened, OpenFails,
         Finish, Abort
<1>v. UNCHANGED <<state, lapsed, closed, changed, acl, revoked, enforcer, stream>>
  BY <1>u DEF restVars, gateVars
<1>k. session[s] \in Session /\ (session[s].pc \notin {"idle", "reading"} => session[s].key \in Keys)
  BY DEF TeardownInv, TypeOK
<1>r. ASSUME \A r \in Sessions \ {s} : session'[r] = session[r],
             \A r \in Sessions \ {s}, k \in Keys : r \in registry[k] => r \in registry'[k],
             TunnelInv(s)'
      PROVE  TeardownInv'
  <2>1. ASSUME NEW r \in Sessions \ {s} PROVE TunnelInv(r)'
    <3>1. TunnelInv(r) /\ session'[r] = session[r]
      BY <1>i, <1>r
    <3>2. session[r].pc \in {"registered", "allowed", "opening", "relaying"} =>
             session[r].key \in Keys
      BY DEF TeardownInv, TypeOK
    <3> QED BY <1>r, <1>v, <3>1, <3>2 DEF TunnelInv, Serving
  <2>2. \A r \in Sessions : TunnelInv(r)'
    BY <1>r, <2>1
  <2>3. GateShape' /\ TerminalClosesStreams'
    BY <1>v DEF TeardownInv, GateShape, TerminalClosesStreams
  <2>4. Registered' /\ LostServes' /\ TerminalCancels' /\ CheckedIsAllowed'
    BY <2>2 DEF TunnelInv, Registered, LostServes, TerminalCancels, CheckedIsAllowed
  <2>5. LossReachesEveryTunnel'
    BY <2>2 DEF TunnelInv, LossReachesEveryTunnel
  <2> QED BY <1>0, <2>3, <2>4, <2>5 DEF TeardownInv
<1>s. ASSUME NEW upd, NEW pc, Step(s, pc, upd), upd \in Session
      PROVE  /\ \A r \in Sessions \ {s} : session'[r] = session[r]
             /\ session'[s].pc = pc /\ session'[s].key = upd.key
             /\ session'[s].cancelled = upd.cancelled /\ session'[s].lost = upd.lost
  BY <1>s DEF Step, TeardownInv, TypeOK, Session
<1>1. CASE Accept(s)
  <2>1. PICK c \in Clients : Step(s, "reading", [Idle EXCEPT !.key = <<c>>])
    BY <1>1 DEF Accept
  <2>2. [Idle EXCEPT !.key = <<c>>] \in Session /\ [Idle EXCEPT !.key = <<c>>].lost = FALSE
    BY DEF Idle, Session
  <2>3. UNCHANGED registry
    BY <1>1 DEF Accept
  <2>4. /\ session'[s].pc = "reading" /\ session'[s].lost = FALSE
        /\ \A r \in Sessions \ {s} : session'[r] = session[r]
    BY <1>s, <2>1, <2>2
  <2>5. TunnelInv(s)'
    BY <2>4 DEF TunnelInv, Serving
  <2> QED BY <1>r, <2>3, <2>4, <2>5
<1>2. CASE Resolve(s)
  <2>1. PICK t \in Tuples, r \in Resources :
          /\ is_allowed(acl, <<session[s].key[1], r>>)
          /\ Step(s, "resolved", [session[s] EXCEPT !.key = <<session[s].key[1], r>>, !.tuple = t])
    BY <1>2 DEF Resolve
  <2> DEFINE key == <<session[s].key[1], r>>
             upd == [session[s] EXCEPT !.key = key, !.tuple = t]
  <2>2. key \in Keys
    BY <2>1, AllowedClients DEF is_allowed, TypeOK, Keys, TeardownInv
  <2> HIDE DEF key
  <2>3. upd \in Session /\ upd.lost = session[s].lost
    BY <1>k, <2>2 DEF Session
  <2>4. Step(s, "resolved", upd) /\ UNCHANGED registry /\ session[s].pc = "reading"
    BY <1>2, <2>1 DEF key, Resolve
  <2> HIDE DEF upd
  <2>5. TunnelInv(s)'
    BY <1>i, <1>s, <2>3, <2>4 DEF TunnelInv, Serving
  <2> QED BY <1>r, <1>s, <2>3, <2>4, <2>5
<1>3. CASE Register(s)
  <2>1. /\ Step(s, "registered", session[s]) /\ session[s].pc = "resolved"
        /\ registry' = [registry EXCEPT ![session[s].key] = registry[session[s].key] \cup {s}]
    BY <1>3 DEF Register
  <2>2. /\ \A r \in Sessions, k \in Keys : r \in registry[k] => r \in registry'[k]
        /\ s \in registry'[session[s].key]
    BY <1>k, <2>1 DEF TeardownInv, TypeOK
  <2>3. TunnelInv(s)'
    BY <1>i, <1>k, <1>s, <2>1, <2>2 DEF TunnelInv, Serving
  <2> QED BY <1>k, <1>r, <1>s, <2>1, <2>2, <2>3
<1>4. CASE RecheckAcl(s)
  <2> DEFINE flag == session[s].cancelled \/ ~is_allowed(acl, session[s].key)
             upd == [session[s] EXCEPT !.cancelled = flag]
  <2>1. flag \in BOOLEAN
    OBVIOUS
  <2>2. Step(s, "allowed", upd) /\ session[s].pc = "registered" /\ UNCHANGED registry
    BY <1>4 DEF RecheckAcl
  <2> HIDE DEF flag
  <2>3. /\ upd \in Session /\ upd.key = session[s].key /\ upd.lost = session[s].lost
        /\ upd.cancelled = flag
    BY <1>k, <2>1 DEF Session
  <2> HIDE DEF upd
  <2>4. /\ session'[s].pc = "allowed" /\ session'[s].key = session[s].key
        /\ session'[s].cancelled = flag /\ session'[s].lost = session[s].lost
        /\ \A r \in Sessions \ {s} : session'[r] = session[r]
    BY <1>s, <2>2, <2>3
  <2>5. TunnelInv(s)'
    BY <1>i, <1>v, <2>2, <2>4 DEF TunnelInv, Serving, flag
  <2> QED BY <1>r, <2>2, <2>4, <2>5
<1>5. CASE Return(s)
  <2>1. TunnelInv(s)'
    BY <1>5, ReturnType DEF TunnelInv, Serving, Idle, TeardownInv
  <2> QED BY <1>5, <1>r, <2>1, ReturnType DEF TeardownInv
<1>6. CASE /\ session[s].pc = "allowed" /\ Admits /\ Step(s, "opening", session[s])
           /\ UNCHANGED registry
  <2>1. enforcer.terminal = "no"
    BY <1>6 DEF Admits, TeardownInv, GateShape, Open, Terminal
  <2>2. TunnelInv(s)'
    BY <1>i, <1>k, <1>s, <1>v, <1>6, <2>1 DEF TunnelInv, Serving
  <2> QED BY <1>k, <1>r, <1>s, <1>6, <2>2
<1>7. CASE Opened(s)
  <2>1. session[s].pc = "opening" /\ Step(s, "relaying", session[s]) /\ UNCHANGED registry
    BY <1>7 DEF Opened
  <2>2. TunnelInv(s)'
    BY <1>i, <1>k, <1>s, <1>v, <2>1 DEF TunnelInv, Serving
  <2> QED BY <1>k, <1>r, <1>s, <2>1, <2>2
<1> QED BY <1>1, <1>2, <1>3, <1>4, <1>5, <1>6, <1>7
        DEF Tunnel, Refuse, RecheckGate, OpenFails, Finish, Abort

\* The enforcer's steps: it forgets a closure only to scan every key.
LEMMA EnforcerStep ==
    ASSUME TeardownInv, Look \/ TerminalScan \/ TerminalDone \/ GraceEnds
    PROVE  TeardownInv'
<1>0. TypeOK'
  BY TypeStep DEF TeardownInv, Next, FailClosed
<1>k. \A s \in Sessions : Serving(s) => session[s].key \in Keys
  BY DEF TeardownInv, TypeOK, Serving
<1>1. CASE Look
  <2>1. /\ UNCHANGED <<state, lapsed, acl, revoked, session, registry, stream>>
        /\ enforcer.scan = {} /\ enforcer.terminal \in {"no", "done"}
    BY <1>1 DEF Look, Waiting, enforcerRest, gateVars
  <2>2. /\ enforcer'.scan = IF closed THEN Keys ELSE {}
        /\ \/ enforcer'.terminal = enforcer.terminal
           \/ enforcer'.terminal = "due" /\ enforcer.terminal = "no" /\ Terminal(state)
    BY <1>1, <2>1 DEF Look, TeardownInv, TypeOK, Enforcer
  <2>3. GateShape' /\ TerminalCancels' /\ CheckedIsAllowed'
    BY <2>1, <2>2 DEF TeardownInv, GateShape, TerminalCancels, CheckedIsAllowed, Serving
  <2>4. LossReachesEveryTunnel'
    BY <1>k, <2>1, <2>2 DEF TeardownInv, LossReachesEveryTunnel, Serving
  <2>5. Registered' /\ LostServes' /\ TerminalClosesStreams'
    BY <2>1, <2>2 DEF TeardownInv, Registered, LostServes, TerminalClosesStreams, Serving
  <2> QED BY <1>0, <2>3, <2>4, <2>5 DEF TeardownInv
<1>2. CASE TerminalScan
  <2>1. /\ UNCHANGED <<state, lapsed, closed, acl, revoked, session, registry, stream>>
        /\ enforcer'.scan = Keys /\ enforcer'.terminal = "running" /\ enforcer.terminal = "due"
    BY <1>2 DEF TerminalScan, enforcerRest, gateVars, TeardownInv, TypeOK, Enforcer
  <2>2. GateShape' /\ CheckedIsAllowed'
    BY <2>1 DEF TeardownInv, GateShape, CheckedIsAllowed
  <2>3. TerminalCancels' /\ LossReachesEveryTunnel'
    BY <1>k, <2>1 DEF TerminalCancels, LossReachesEveryTunnel, Serving
  <2>4. Registered' /\ LostServes' /\ TerminalClosesStreams'
    BY <2>1 DEF TeardownInv, Registered, LostServes, TerminalClosesStreams, Serving
  <2> QED BY <1>0, <2>2, <2>3, <2>4 DEF TeardownInv
<1>3. CASE TerminalDone
  <2>1. /\ UNCHANGED <<state, lapsed, closed, revoked, session, registry>>
        /\ enforcer.scan = {} /\ enforcer.terminal = "running"
        /\ enforcer'.scan = {} /\ enforcer'.terminal = "done"
    BY <1>3 DEF TerminalDone, gateVars, TeardownInv, TypeOK, Enforcer
  <2>2. \A s \in Sessions : Serving(s) => session[s].cancelled
    BY <2>1 DEF TeardownInv, TerminalCancels
  <2>3. GateShape' /\ Registered' /\ LostServes'
    BY <2>1 DEF TeardownInv, GateShape, Registered, LostServes, Serving
  <2>4. TerminalCancels' /\ CheckedIsAllowed' /\ LossReachesEveryTunnel'
    BY <2>1, <2>2 DEF TerminalCancels, CheckedIsAllowed, LossReachesEveryTunnel, Serving
  <2>5. TerminalClosesStreams'
    BY <1>3, CloseAllType DEF TerminalDone, TeardownInv, TerminalClosesStreams
  <2> QED BY <1>0, <2>3, <2>4, <2>5 DEF TeardownInv
<1>4. CASE GraceEnds
  <2>1. /\ UNCHANGED <<state, lapsed, closed, acl, revoked, session, registry>>
        /\ enforcer'.scan = enforcer.scan /\ enforcer'.terminal = enforcer.terminal
    BY <1>4 DEF GraceEnds, enforcerRest, gateVars, TeardownInv, TypeOK, Enforcer
  <2>2. TerminalClosesStreams'
    BY <1>4, <2>1, CloseAllType DEF GraceEnds, TeardownInv, TerminalClosesStreams
  <2>3. GateShape' /\ Registered' /\ LostServes' /\ TerminalCancels'
    BY <2>1 DEF TeardownInv, GateShape, Registered, LostServes, TerminalCancels, Serving
  <2>4. CheckedIsAllowed' /\ LossReachesEveryTunnel'
    BY <2>1 DEF TeardownInv, CheckedIsAllowed, LossReachesEveryTunnel, Serving
  <2> QED BY <1>0, <2>2, <2>3, <2>4 DEF TeardownInv
<1> QED BY <1>1, <1>2, <1>3, <1>4

\* The steps of a shield's stream: a terminal gate admits none.
LEMMA StreamStep ==
    ASSUME TeardownInv, NEW t \in Streams,
           Subscribe(t) \/ Admit(t) \/ StreamClosed(t) \/ StreamEnds(t)
    PROVE  TeardownInv'
<1>0. TypeOK'
  BY TypeStep DEF TeardownInv, Next
<1>1. /\ UNCHANGED <<state, lapsed, closed, acl, revoked, session, registry, enforcer>>
      /\ \A r \in Streams \ {t} : stream'[r] = stream[r]
      /\ stream'[t].pc = "open" =>
           Admits \/ (stream[t].pc = "open" /\ stream'[t] = stream[t])
  BY StreamType DEF streamRest, gateVars, dataVars, TeardownInv
<1>2. enforcer.terminal = "done" => ~Admits
  BY DEF TeardownInv, GateShape, Admits, Open, Terminal
<1>3. TerminalClosesStreams'
  BY <1>1, <1>2 DEF TeardownInv, TerminalClosesStreams
<1>4. /\ GateShape' /\ Registered' /\ LostServes' /\ TerminalCancels' /\ CheckedIsAllowed'
      /\ LossReachesEveryTunnel'
  BY <1>1 DEF TeardownInv, GateShape, Registered, LostServes, TerminalCancels, CheckedIsAllowed,
              LossReachesEveryTunnel, Serving
<1> QED BY <1>0, <1>3, <1>4 DEF TeardownInv

\* The invariant holds at first.
LEMMA TeardownInit == Init => TeardownInv
<1> SUFFICES ASSUME Init PROVE TeardownInv
  OBVIOUS
<1>1. Idle \in Session
  BY DEF Idle, Session
<1>2. TypeOK
  BY <1>1 DEF Init, GateInit, GateTypeOK, TypeOK, Enforcer, NoStream, Idle
<1>3. \A s \in Sessions : session[s].pc = "idle" /\ session[s].lost = FALSE
  BY DEF Init, Idle
<1>4. GateShape /\ TerminalClosesStreams /\ TerminalCancels
  BY DEF Init, GateInit, GateShape, TerminalClosesStreams, TerminalCancels
<1> QED BY <1>2, <1>3, <1>4 DEF TeardownInv, Registered, LostServes, CheckedIsAllowed,
                                LossReachesEveryTunnel, Serving

\* Every step keeps it: one case per group of actions.
LEMMA TeardownStep == TeardownInv /\ [Next]_vars => TeardownInv'
<1> SUFFICES ASSUME TeardownInv, [Next]_vars PROVE TeardownInv'
  OBVIOUS
<1>0. TypeOK'
  BY TypeStep DEF TeardownInv
<1>1. CASE cancel_all
  <2>1. PICK k \in Keys : Cancel(registry[k]) /\ revoked' = revoked \ {k}
    BY <1>1 DEF cancel_all, TeardownInv, TypeOK
  <2> QED BY <1>0, <1>1, <2>1, CancelStep DEF cancel_all, gateVars
<1>2. CASE Scan
  <2>1. PICK k \in Keys : Cancel(registry[k]) /\ enforcer' = [enforcer EXCEPT !.scan = @ \ {k}]
    BY <1>2 DEF Scan, TeardownInv, TypeOK, Enforcer
  <2> QED BY <1>0, <1>2, <2>1, CancelStep DEF Scan, enforcerRest, gateVars
<1>3. CASE UNCHANGED vars
  BY <1>0, <1>3 DEF vars, TeardownInv, GateShape, Registered, LostServes, TerminalCancels,
         CheckedIsAllowed, LossReachesEveryTunnel, TerminalClosesStreams, Serving
<1> QED BY <1>1, <1>2, <1>3, GateStep, AclStep, TunnelStep, EnforcerStep, StreamStep
        DEF Next, FailClosed

-----------------------------------------------------------------------------
(* The theorems *)

\* Every reachable state is well typed, for any number of tunnels, pairs,
\* snapshots and shield streams.
THEOREM TypeCorrect == Spec => []TypeOK
<1>1. TeardownInv => TypeOK
  BY DEF TeardownInv
<1> QED BY <1>1, TeardownInit, TeardownStep, PTL DEF Spec

\* No interleaving of the ACL diff with a tunnel's resolve, register and recheck
\* leaves a tunnel of a revoked pair serving (device_tunnel.rs, policy/mod.rs).
THEOREM ServingAllowed == Spec => []ServingIsAllowed
<1>1. TeardownInv => ServingIsAllowed
  BY DEF TeardownInv, CheckedIsAllowed, ServingIsAllowed, Serving
<1> QED BY <1>1, TeardownInit, TeardownStep, PTL DEF Spec

\* A loss of authorization reaches every tunnel admitted before it, also when
\* the gate opens again before the enforcer looks (fail_closed.rs).
THEOREM LossReaches == Spec => []LossReachesEveryTunnel
<1>1. TeardownInv => LossReachesEveryTunnel
  BY DEF TeardownInv
<1> QED BY <1>1, TeardownInit, TeardownStep, PTL DEF Spec

\* After the terminal branch every open shield stream has been told to end, also
\* one that was being admitted meanwhile (agent_server.rs).
THEOREM TerminalCloses == Spec => []TerminalClosesStreams
<1>1. TeardownInv => TerminalClosesStreams
  BY DEF TeardownInv
<1> QED BY <1>1, TeardownInit, TeardownStep, PTL DEF Spec
=============================================================================
