-------------------------- MODULE SessionTeardown --------------------------
(***************************************************************************)
(* The data plane of one connector process: device tunnels that are        *)
(* admitted, registered and relayed (device_tunnel.rs, session_registry),  *)
(* the ACL cache whose replacement revokes pairs (policy/mod.rs), the      *)
(* control-stream handler that cancels the sessions of those pairs, the    *)
(* fail-closed enforcer that cancels every session when authorization is   *)
(* lost and closes the shields' streams (fail_closed.rs), and the          *)
(* admission of those streams (agent_server.rs).  All of them run on       *)
(* different threads; what they see of the authorization contract is       *)
(* ServingGate.                                                            *)
(***************************************************************************)
EXTENDS ServingGate, FiniteSets

CONSTANTS Sessions,    \* tunnel slots; a slot is used again by a later tunnel
          Clients,     \* SPIFFE ids of devices
          Resources,   \* resource ids
          Tuples,      \* (address, port, protocol)
          Streams,     \* slots for shields' Control streams
          Snapshots    \* the ACL snapshots the controller may push

\* An AclEntry of a snapshot: the resource's tuple and its allowed_spiffe_ids.
Absent == [tuple |-> "none", allowed |-> {}]
Entry == [tuple : Tuples, allowed : SUBSET Clients] \cup {Absent}

ASSUME SnapshotsAssumption == Snapshots \subseteq [Resources -> Entry]
ASSUME AbsentAssumption == "none" \notin Tuples

\* No snapshot loaded.
NoAcl == [r \in Resources |-> Absent]

Keys == Clients \X Resources

VARIABLES
    closed,      \* closures() has advanced since the enforcer last read it
    changed,     \* the enforcer's watch receiver has an unseen value
    acl,         \* PolicyCache.snapshot
    revoked,     \* pairs the control-stream handler still has to cancel
    session,     \* the state of each handle_stream call
    registry,    \* SessionRegistry.inner: key -> registered sessions
    enforcer,    \* local state of the fail-closed task
    stream       \* each shield Control stream

dataVars == <<acl, revoked, session, registry>>
vars == <<state, lapsed, closed, changed, acl, revoked, session, registry,
          enforcer, stream>>

-----------------------------------------------------------------------------
(* Types.                                                                    *)

\* lost: the gate closed after this tunnel passed its second gate check.
Idle == [pc |-> "idle", key |-> <<>>, tuple |-> "none",
         cancelled |-> FALSE, lost |-> FALSE]

Session ==
    [pc : {"idle", "reading", "resolved", "registered", "allowed", "opening",
           "relaying"},
     key : Keys \cup {<<c>> : c \in Clients} \cup {<<>>},
     tuple : Tuples \cup {"none"}, cancelled : BOOLEAN, lost : BOOLEAN]

Serving(s) == session[s].pc \in {"opening", "relaying"}

\* told: close_all has advanced since this stream subscribed to it.
NoStream == [pc |-> "none", told |-> FALSE]

\* scan: the keys cancel_every_session has yet to visit; terminal: whether the
\* terminal branch is still to come ("no"), chosen ("due"), running or done;
\* armed: shield_close_at is set.
Enforcer ==
    [scan : SUBSET Keys, terminal : {"no", "due", "running", "done"},
     armed : BOOLEAN, episode_closed : BOOLEAN]

\* Every variable has its type.
TypeOK ==
    /\ GateTypeOK
    /\ closed \in BOOLEAN /\ changed \in BOOLEAN
    /\ acl \in Snapshots \cup {NoAcl}
    /\ revoked \subseteq Keys
    /\ session \in [Sessions -> Session]
    /\ \A s \in Sessions : session[s].pc \notin {"idle", "reading"} =>
                              session[s].key \in Keys /\ session[s].tuple \in Tuples
    /\ registry \in [Keys -> SUBSET Sessions]
    /\ enforcer \in Enforcer
    /\ stream \in [Streams -> [pc : {"none", "subscribed", "open"},
                               told : BOOLEAN]]

Init ==
    /\ GateInit
    /\ closed = FALSE /\ changed = FALSE
    /\ acl = NoAcl /\ revoked = {}
    /\ session = [s \in Sessions |-> Idle]
    /\ registry = [k \in Keys |-> {}]
    /\ enforcer = [scan |-> {}, terminal |-> "no", armed |-> FALSE,
                   episode_closed |-> FALSE]
    /\ stream = [t \in Streams |-> NoStream]

-----------------------------------------------------------------------------
(* The gate.  AckTracker::transition counts an open -> closed step in        *)
(* closures and publishes {state, D, closures}; a later D alone wakes the    *)
(* enforcer to no effect.                                                    *)

Closes == Open(state) /\ (lapsed \/ ~Open(state'))

Authorize ==
    /\ GateEvent
    /\ closed' = (closed \/ Closes)
    /\ changed' = (changed \/ Closes \/ state' # state)
    /\ session' = [s \in Sessions |->
           [session[s] EXCEPT !.lost = @ \/ (Closes /\ Serving(s))]]
    /\ UNCHANGED <<acl, revoked, registry, enforcer, stream>>

\* The clock reaches D: admits_now refuses, though nothing is published yet.
DeadlinePasses ==
    /\ Lapse
    /\ UNCHANGED <<closed, changed, dataVars, enforcer, stream>>

-----------------------------------------------------------------------------
(* The ACL cache and the handler of an AclSnapshot message.                  *)

is_allowed(a, k) == k[1] \in a[k[2]].allowed

\* Pairs of the previous snapshot the new one does not allow, and (F-3) every
\* pair of a resource whose tuple changed.
update_and_revoked(old, new) ==
    {k \in Keys : /\ is_allowed(old, k)
                  /\ \/ ~is_allowed(new, k)
                     \/ old[k[2]].tuple # new[k[2]].tuple}

\* The handler takes the next message only after it has cancelled every pair.
AclSnapshot ==
    /\ revoked = {}
    /\ \E new \in Snapshots :
          /\ acl' = new
          /\ revoked' = update_and_revoked(acl, new)
    /\ UNCHANGED <<gateVars, closed, changed, session, registry, enforcer,
                   stream>>

Cancel(S) ==
    session' = [s \in Sessions |-> [session[s] EXCEPT !.cancelled = @ \/ s \in S]]

\* registry.cancel_all(key), once for each revoked pair.
cancel_all ==
    /\ \E k \in revoked : /\ Cancel(registry[k])
                          /\ revoked' = revoked \ {k}
    /\ UNCHANGED <<gateVars, closed, changed, acl, registry, enforcer, stream>>

-----------------------------------------------------------------------------
(* handle_stream, one action for each stretch between two reads of shared    *)
(* state.                                                                    *)

Step(s, pc, upd) == session' = [session EXCEPT ![s] = [upd EXCEPT !.pc = pc]]

\* Fault: the key's map goes with the first tunnel that ends.
RegistryGuardDropKey(s) ==
    registry' = [k \in Keys |-> IF s \in registry[k] THEN {} ELSE registry[k]]

\* RegistryGuard::drop: only this session leaves the registry.
RegistryGuardDrop(s) ==
    registry' = [k \in Keys |-> registry[k] \ {s}]

\* The call returns: whatever was registered is dropped with its guard.
Return(s) ==
    /\ session' = [session EXCEPT ![s] = Idle]
    /\ RegistryGuardDrop(s)

restVars == <<gateVars, closed, changed, acl, revoked, enforcer, stream>>

\* The first gate check; the client has yet to send its TunnelRequest.
Accept(s) ==
    /\ session[s].pc = "idle"
    /\ Admits
    /\ \E c \in Clients : Step(s, "reading", [Idle EXCEPT !.key = <<c>>])
    /\ UNCHANGED <<restVars, registry>>

\* Fault: the resource is looked up and its entry not examined.
ResolveUnchecked(s) ==
    /\ session[s].pc = "reading"
    /\ \E r \in Resources :
          Step(s, "resolved", [session[s] EXCEPT !.key = <<@[1], r>>, !.tuple = acl[r].tuple])
    /\ UNCHANGED <<restVars, registry>>

\* resolve_resource: an entry of the requested tuple, and the client in it.
Resolve(s) ==
    /\ session[s].pc = "reading"
    /\ \E t \in Tuples : \E r \in Resources :
          LET key == <<session[s].key[1], r>> IN
          /\ acl[r].tuple = t
          /\ is_allowed(acl, key)
          /\ Step(s, "resolved", [session[s] EXCEPT !.key = key, !.tuple = t])
    /\ UNCHANGED <<restVars, registry>>

\* No entry matches, the client is not in it, or the stream breaks.
Refuse(s) ==
    /\ session[s].pc = "reading"
    /\ Return(s)
    /\ UNCHANGED restVars

Register(s) ==
    /\ session[s].pc = "resolved"
    /\ Step(s, "registered", session[s])
    /\ registry' = [registry EXCEPT ![session[s].key] = @ \cup {s}]
    /\ UNCHANGED restVars

\* Fault: no check after registration.
RecheckAclSkipped(s) ==
    /\ session[s].pc = "registered"
    /\ Step(s, "allowed", session[s])
    /\ UNCHANGED <<restVars, registry>>

\* The check after registration, by resource id and client.
RecheckAcl(s) ==
    /\ session[s].pc = "registered"
    /\ Step(s, "allowed",
            [session[s] EXCEPT !.cancelled = @ \/ ~is_allowed(acl, session[s].key)])
    /\ UNCHANGED <<restVars, registry>>

\* The second gate check.
RecheckGate(s) ==
    /\ session[s].pc = "allowed"
    /\ IF Admits
       THEN /\ Step(s, "opening", session[s])
            /\ UNCHANGED registry
       ELSE Return(s)
    /\ UNCHANGED restVars

\* The resource or the shield's tunnel is connected and the client told ok:
\* the direct route does not look at the token while it connects.
Opened(s) ==
    /\ session[s].pc = "opening"
    /\ Step(s, "relaying", session[s])
    /\ UNCHANGED <<restVars, registry>>

\* The name, the shield or the resource is unreachable, the route is unknown,
\* or the shield route sees the token cancelled.
OpenFails(s) ==
    /\ session[s].pc = "opening"
    /\ Return(s)
    /\ UNCHANGED restVars

\* Either side closes.
Finish(s) ==
    /\ session[s].pc = "relaying"
    /\ Return(s)
    /\ UNCHANGED restVars

\* select! on cancel_token.cancelled(): the stream is aborted.
Abort(s) ==
    /\ session[s].pc = "relaying"
    /\ session[s].cancelled
    /\ Return(s)
    /\ UNCHANGED restVars

-----------------------------------------------------------------------------
(* The fail-closed enforcer.                                                 *)

enforcerRest == <<gateVars, acl, revoked, registry>>

\* The task waits in select!.
Waiting == enforcer.scan = {} /\ enforcer.terminal \in {"no", "done"}

\* Fault: a closure is told from the state, not from the count.
LookAtState ==
    /\ Waiting /\ changed
    /\ enforcer' = [enforcer EXCEPT !.scan = IF Open(state) THEN {} ELSE Keys]
    /\ closed' = FALSE
    /\ changed' = FALSE
    /\ UNCHANGED <<enforcerRest, session, stream>>

\* A new value was published: cancel_every_session starts if closures
\* advanced, and the match on the state decides what follows.
Look ==
    /\ Waiting /\ changed
    /\ LET scan == IF closed THEN Keys ELSE {} IN
       enforcer' =
         CASE Terminal(state) ->
                [enforcer EXCEPT !.scan = scan, !.armed = FALSE,
                                 !.terminal = IF @ = "done" THEN @ ELSE "due"]
           [] state \in {"Disabled", "Recovering"} ->
                [enforcer EXCEPT !.scan = scan,
                                 !.armed = @ \/ ~enforcer.episode_closed]
           [] OTHER ->
                [enforcer EXCEPT !.scan = scan, !.armed = FALSE,
                                 !.episode_closed = FALSE]
    /\ closed' = FALSE
    /\ changed' = FALSE
    /\ UNCHANGED <<enforcerRest, session, stream>>

\* cancel_every_session visits the keys one after the other; a tunnel that is
\* registered under a key after its visit is missed.
Scan ==
    /\ \E k \in enforcer.scan :
          /\ Cancel(registry[k])
          /\ enforcer' = [enforcer EXCEPT !.scan = @ \ {k}]
    /\ UNCHANGED <<enforcerRest, closed, changed, stream>>

\* The terminal branch scans once more ...
TerminalScan ==
    /\ enforcer.scan = {} /\ enforcer.terminal = "due"
    /\ enforcer' = [enforcer EXCEPT !.scan = Keys, !.terminal = "running"]
    /\ UNCHANGED <<enforcerRest, closed, changed, session, stream>>

\* Every stream that has subscribed is told to end.
close_all_streams ==
    stream' = [t \in Streams |->
                  [stream[t] EXCEPT !.told = @ \/ stream[t].pc # "none"]]

\* ... then closes the streams and clears the ACL.
TerminalDone ==
    /\ enforcer.scan = {} /\ enforcer.terminal = "running"
    /\ close_all_streams
    /\ acl' = NoAcl
    /\ enforcer' = [enforcer EXCEPT !.terminal = "done"]
    /\ UNCHANGED <<gateVars, closed, changed, revoked, session, registry>>

\* The grace D15 of this Disabled episode is over.
GraceEnds ==
    /\ Waiting /\ enforcer.armed
    /\ close_all_streams
    /\ enforcer' = [enforcer EXCEPT !.armed = FALSE, !.episode_closed = TRUE]
    /\ UNCHANGED <<enforcerRest, closed, changed, session>>

-----------------------------------------------------------------------------
(* Shield Control streams: subscribed to close_all before the gate check.    *)

streamRest == <<gateVars, closed, changed, dataVars, enforcer>>

Subscribe(t) ==
    /\ stream[t].pc = "none"
    /\ stream' = [stream EXCEPT ![t].pc = "subscribed"]
    /\ UNCHANGED streamRest

\* Fault: the gate is read first and close_all subscribed to afterwards.
AdmitUnsubscribed(t) ==
    /\ stream[t].pc = "subscribed"
    /\ stream' = [stream EXCEPT ![t] = [pc |-> "open", told |-> FALSE]]
    /\ UNCHANGED streamRest

\* Admission, with the gate read under the registry's lock.
Admit(t) ==
    /\ stream[t].pc = "subscribed"
    /\ stream' = [stream EXCEPT ![t] = IF Admits THEN [@ EXCEPT !.pc = "open"]
                                                 ELSE NoStream]
    /\ UNCHANGED streamRest

\* close_rx.changed(), which the stream's task awaits.
StreamClosed(t) ==
    /\ stream[t].pc = "open"
    /\ stream[t].told
    /\ stream' = [stream EXCEPT ![t] = NoStream]
    /\ UNCHANGED streamRest

\* The shield leaves or its certificate expires.
StreamEnds(t) ==
    /\ stream[t].pc = "open"
    /\ stream' = [stream EXCEPT ![t] = NoStream]
    /\ UNCHANGED streamRest

-----------------------------------------------------------------------------
Tunnel(s) ==
    \/ Resolve(s) \/ Refuse(s) \/ Register(s) \/ RecheckAcl(s)
    \/ RecheckGate(s) \/ Opened(s) \/ OpenFails(s) \/ Abort(s)

FailClosed == Look \/ Scan \/ TerminalScan \/ TerminalDone

Next ==
    \/ Authorize \/ DeadlinePasses
    \/ AclSnapshot \/ cancel_all
    \/ \E s \in Sessions : Accept(s) \/ Tunnel(s) \/ Finish(s)
    \/ FailClosed \/ GraceEnds
    \/ \E t \in Streams : Subscribe(t) \/ Admit(t) \/ StreamClosed(t) \/ StreamEnds(t)

Spec == Init /\ [][Next]_vars

\* The tasks run, the expiry timer fires, connecting ends; no client, shield
\* or controller is assumed to do anything.
FairSpec ==
    /\ Spec
    /\ WF_vars(Expire /\ lapsed /\ Authorize)
    /\ WF_vars(cancel_all)
    /\ WF_vars(FailClosed)
    /\ WF_vars(GraceEnds)
    /\ \A s \in Sessions : WF_vars(session[s].pc # "reading" /\ Tunnel(s))
    /\ \A t \in Streams : WF_vars(Admit(t)) /\ WF_vars(StreamClosed(t))

-----------------------------------------------------------------------------
(* Properties.                                                               *)

\* A tunnel that carries data and is not being torn down belongs to a pair
\* the current ACL allows, unless the handler of the snapshot that took the
\* pair away has not yet come to it: no interleaving of the diff with
\* resolve, register and recheck leaves a revoked tunnel behind.
ServingIsAllowed ==
    \A s \in Sessions :
        Serving(s) /\ ~session[s].cancelled =>
            is_allowed(acl, session[s].key) \/ session[s].key \in revoked

\* A tunnel admitted before the last loss of authorization is cancelled,
\* unless the enforcer has not yet seen that loss or is still scanning: a
\* closure that reopens at once is not missed, and neither is a tunnel that
\* was between its two gate checks when the registry was scanned.
LossReachesEveryTunnel ==
    \A s \in Sessions :
        Serving(s) /\ session[s].lost =>
            \/ session[s].cancelled
            \/ closed
            \/ session[s].key \in enforcer.scan

\* Once the enforcer is done with a terminal state, every shield stream that
\* is open has been told to end, whatever it was doing when the state changed.
TerminalClosesStreams ==
    enforcer.terminal = "done" =>
        \A t \in Streams : stream[t].pc = "open" => stream[t].told

\* A tunnel whose pair was revoked, whose authorization was lost or whose
\* connector is past its deadline ends.
UnauthorizedTunnelEnds ==
    \A s \in Sessions :
        (/\ Serving(s)
         /\ lapsed \/ session[s].lost \/ ~is_allowed(acl, session[s].key))
        ~> ~Serving(s)

\* "a session is also bound to the (address, port, protocol) tuple it was
\* admitted on": no tunnel that is not being torn down reaches a tuple its
\* resource does not have any more.
ServingOnItsTuple ==
    \A s \in Sessions :
        Serving(s) /\ ~session[s].cancelled =>
            \/ session[s].tuple = acl[session[s].key[2]].tuple
            \/ session[s].key \in revoked

\* Shield streams "are closed after DISABLED_SHIELD_CLOSE_SECS unless serving
\* resumes first".
GraceClosesStreams ==
    <>[](state \in {"Disabled", "Recovering"}) =>
        <>[](\A t \in Streams : stream[t].pc # "open")
=============================================================================
