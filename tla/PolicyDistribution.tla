------------------------- MODULE PolicyDistribution -------------------------
(***************************************************************************)
(* How a policy change of one workspace reaches the connectors: the        *)
(* mutation commits, policy.Notifier bumps the version, invalidates the    *)
(* policy.SnapshotCache and triggers connector.ACLPusher; the pusher and   *)
(* the heartbeat handlers take a snapshot from the cache, compiling one on *)
(* a miss (singleflight, epoch compare-and-swap), and send it down the     *)
(* control streams; a connector applies what arrives and reports the       *)
(* version it holds with each heartbeat.                                   *)
(*                                                                         *)
(* The policy is the set of changes that have been made to it; a snapshot  *)
(* is the set of changes its rows show, and a version label.               *)
(***************************************************************************)
EXTENDS Integers, Sequences, FiniteSets

CONSTANTS
    Connectors,         \* the connectors of the workspace
    Mutations,          \* the policy changes that may be made, once each
    RuleRows,           \* those whose rows the compiler's first query reads
    Expiries,           \* those that time makes: a posture evaluation expires
    MaxCompileRetries,  \* maxCompileRetries
    QueueSize,          \* connectorSendQueueSize
    Pusher,             \* runPush, as a caller of GetOrCompile
    MaxFaults,          \* bound: failures of compiles, streams, either process
    MaxRestarts         \* bound: those that are restarts of the controller

ASSUME DistributionAssumption ==
    /\ IsFiniteSet(Mutations) /\ RuleRows \subseteq Mutations /\ Expiries \subseteq Mutations
    /\ Pusher \notin Connectors
    /\ MaxCompileRetries \in Nat \ {0}
    /\ QueueSize \in Nat \ {0}
    /\ MaxFaults \in Nat /\ MaxRestarts \in Nat

VARIABLES
    notify,    \* [Mutations -> how far the change and its notification are]
    version,   \* Notifier.versions[ws]
    epoch,     \* SnapshotCache.epoch[ws]
    cache,     \* SnapshotCache.entries[ws]
    flight,    \* the singleflight call for ws: the body of GetOrCompile
    caller,    \* [Callers -> where a heartbeat handler, or runPush, is]
    got,       \* [Callers -> the snapshot GetOrCompile gave it]
    noticed,   \* [Callers -> the expiry its Get is announcing, if any]
    reported,  \* [Connectors -> acl_version of the report being handled]
    pending,   \* wsPushState.pending
    targets,   \* connectors pushOnce has still to send to
    online,    \* [Connectors -> its stream is in the ConnectorRegistry]
    mailbox,   \* [Connectors -> snapshots in its outbound queue and stream]
    applied,   \* [Connectors -> PolicyCache.snapshot]
    faults,    \* faults so far
    restarts,  \* restarts of the controller so far
    \* History (a restart reads covered to tell which changes it cuts short):
    covered,   \* the changes triggered when the latest pushOnce began
    since      \* [Callers -> the changes invalidated when its call began]

pushVars == <<pending, targets, covered>>
callVars == <<caller, got, noticed, since>>
connVars == <<online, mailbox, applied>>
faultVars == <<faults, restarts>>
vars == <<notify, version, epoch, cache, flight, caller, got, noticed, reported, pending,
          targets, online, mailbox, applied, faults, restarts, covered, since>>

-----------------------------------------------------------------------------
(* Types *)

Callers == Connectors \cup {Pusher}

Snapshot == [data : SUBSET Mutations, version : Nat]
NoSnapshot == [data |-> {}, version |-> -1]
MaybeSnapshot == Snapshot \cup {NoSnapshot}

NotifyState == {"new", "committed", "noticed", "bumped", "invalidated", "triggered", "lost"}
CallerState == {"idle", "reported", "expiring", "missed", "waiting", "have", "fanout", "pushed"}
FlightPhase == {"none", "epoch", "rules", "devices", "label", "store", "check", "returned"}

\* attempt, observed and result are GetOrCompile's locals, the snapshot in
\* data and version is compileFn's; since is history.
Flight == [phase : FlightPhase, attempt : Nat, observed : Nat,
           data : SUBSET Mutations, version : Nat,
           result : MaybeSnapshot, since : SUBSET Mutations]
NoFlight == [phase |-> "none", attempt |-> 0, observed |-> 0, data |-> {},
             version |-> 0, result |-> NoSnapshot, since |-> {}]

TypeOK ==
    /\ notify \in [Mutations -> NotifyState]
    /\ version \in Nat
    /\ epoch \in Nat
    /\ cache \in MaybeSnapshot
    /\ flight \in Flight
    /\ caller \in [Callers -> CallerState]
    /\ got \in [Callers -> MaybeSnapshot]
    /\ noticed \in [Callers -> SUBSET Mutations]
    /\ reported \in [Connectors -> Nat]
    /\ pending \in BOOLEAN
    /\ targets \in SUBSET Connectors
    /\ online \in [Connectors -> BOOLEAN]
    /\ mailbox \in [Connectors -> Seq(Snapshot)]
    /\ applied \in [Connectors -> MaybeSnapshot]
    /\ faults \in 0..MaxFaults
    /\ restarts \in 0..MaxRestarts
    /\ covered \in SUBSET Mutations
    /\ since \in [Callers -> SUBSET Mutations]

-----------------------------------------------------------------------------
(* The policy and its notifications *)

Committed == {m \in Mutations : notify[m] # "new"}
Invalidated == {m \in Mutations : notify[m] \in {"invalidated", "triggered"}}
Triggered == {m \in Mutations : notify[m] = "triggered"}

Init ==
    /\ notify = [m \in Mutations |-> "new"]
    /\ version = 0
    /\ epoch = 0
    /\ cache = NoSnapshot
    /\ flight = NoFlight
    /\ caller = [c \in Callers |-> "idle"]
    /\ got = [c \in Callers |-> NoSnapshot]
    /\ noticed = [c \in Callers |-> {}]
    /\ reported = [c \in Connectors |-> 0]
    /\ pending = FALSE
    /\ targets = {}
    /\ online = [c \in Connectors |-> FALSE]
    /\ mailbox = [c \in Connectors |-> << >>]
    /\ applied = [c \in Connectors |-> NoSnapshot]
    /\ faults = 0 /\ restarts = 0
    /\ covered = {}
    /\ since = [c \in Callers |-> {}]

\* A mutation resolver commits its transaction; the notification comes after.
\* Or an evaluation expires, which nobody announces yet.
Commit(m) ==
    /\ notify[m] = "new"
    /\ notify' = [notify EXCEPT ![m] = "committed"]
    /\ UNCHANGED <<version, epoch, cache, flight, reported, faultVars, callVars, pushVars, connVars>>

\* NotifyPolicyChange: v.Add(1).
BumpVersion(m) ==
    /\ notify[m] = IF m \in Expiries THEN "noticed" ELSE "committed"
    /\ notify' = [notify EXCEPT ![m] = "bumped"]
    /\ version' = version + 1
    /\ UNCHANGED <<epoch, cache, flight, reported, faultVars, callVars, pushVars, connVars>>

\* Mutant: Invalidate only moves the epoch.
InvalidateKeeps(m) ==
    /\ notify[m] = "bumped"
    /\ notify' = [notify EXCEPT ![m] = "invalidated"]
    /\ epoch' = epoch + 1
    /\ UNCHANGED <<version, cache, flight, reported, faultVars, callVars, pushVars, connVars>>

\* NotifyPolicyChange: SnapshotCache.Invalidate.
Invalidate(m) ==
    /\ notify[m] = "bumped"
    /\ notify' = [notify EXCEPT ![m] = "invalidated"]
    /\ cache' = NoSnapshot
    /\ epoch' = epoch + 1
    /\ UNCHANGED <<version, flight, reported, faultVars, callVars, pushVars, connVars>>

\* The push worker begins a pushOnce, which covers the changes triggered so far.
BeginPush(triggered) ==
    /\ caller' = [caller EXCEPT ![Pusher] = "reported"]
    /\ covered' = triggered

\* NotifyPolicyChange fires the hook, ACLPusher.PushWorkspace: start the
\* worker, or leave it a trailing push.
PushWorkspace(m) ==
    /\ notify[m] = "invalidated"
    /\ notify' = [notify EXCEPT ![m] = "triggered"]
    /\ \/ /\ caller[Pusher] = "idle"
          /\ BeginPush(Triggered \cup {m})
          /\ pending' = FALSE
       \/ /\ caller[Pusher] # "idle"
          /\ pending' = TRUE
          /\ UNCHANGED <<caller, covered>>
    /\ UNCHANGED <<version, epoch, cache, flight, got, noticed, since, reported, targets, faultVars, connVars>>

-----------------------------------------------------------------------------
(* SnapshotCache.GetOrCompile *)

\* Mutant: ValidUntil is ignored.
ExpiredNever == {m \in Expiries : FALSE}

\* The cached entry's ValidUntil has passed: a change it does not show.
Expired == {m \in Expiries : notify[m] = "committed" /\ m \notin cache.data}

\* Get: a hit is the answer, a miss goes on to the singleflight call.
Get(c) ==
    /\ caller[c] = "reported"
    /\ \/ /\ cache # NoSnapshot /\ Expired = {}
          /\ caller' = [caller EXCEPT ![c] = "have"]
          /\ got' = [got EXCEPT ![c] = cache]
          /\ since' = [since EXCEPT ![c] = Invalidated]
       \/ /\ cache = NoSnapshot
          /\ caller' = [caller EXCEPT ![c] = "missed"]
          /\ UNCHANGED <<got, since>>
    /\ UNCHANGED <<notify, version, epoch, cache, flight, noticed, reported, faultVars, pushVars,
                   connVars>>

\* Get of an expired entry: delete it and announce the change like any other,
\* before the miss is returned (RegisterExpiryNotifier in main.go).
GetExpired(c) ==
    /\ caller[c] = "reported" /\ cache # NoSnapshot
    /\ \E m \in Expired :
          /\ notify' = [notify EXCEPT ![m] = "noticed"]
          /\ noticed' = [noticed EXCEPT ![c] = {m}]
    /\ cache' = NoSnapshot
    /\ caller' = [caller EXCEPT ![c] = "expiring"]
    /\ UNCHANGED <<version, epoch, flight, got, since, reported, faultVars, pushVars, connVars>>

ExpiryNotified(c) ==
    /\ caller[c] = "expiring"
    /\ \A m \in noticed[c] : notify[m] = "triggered"
    /\ caller' = [caller EXCEPT ![c] = "missed"]
    /\ noticed' = [noticed EXCEPT ![c] = {}]
    /\ UNCHANGED <<notify, version, epoch, cache, flight, got, since, reported, faultVars, pushVars,
                   connVars>>

\* sf.Do: run the body, or wait for the call that is already running it.
Do(c) ==
    /\ caller[c] = "missed"
    /\ caller' = [caller EXCEPT ![c] = "waiting"]
    /\ \/ /\ flight.phase = "none"
          /\ flight' = [NoFlight EXCEPT !.phase = "epoch", !.since = Invalidated]
          /\ since' = [since EXCEPT ![c] = Invalidated]
       \/ /\ flight.phase # "none"
          /\ since' = [since EXCEPT ![c] = flight.since]
          /\ UNCHANGED flight
    /\ UNCHANGED <<notify, version, epoch, cache, got, noticed, reported, faultVars, pushVars,
                   connVars>>

\* One of the bounded number of failures.
Fault == faults < MaxFaults /\ faults' = faults + 1 /\ UNCHANGED restarts

bodyUnchanged == UNCHANGED <<notify, version, epoch, reported, faultVars, callVars, pushVars, connVars>>

\* observed := c.Epoch(ws), before anything is read.
CaptureEpoch ==
    /\ flight.phase = "epoch"
    /\ flight' = [flight EXCEPT !.phase = "rules", !.observed = epoch]
    /\ UNCHANGED cache /\ bodyUnchanged

\* CompileACLSnapshot reads the rows query by query, outside a transaction:
\* the rules first...
ReadRules ==
    /\ flight.phase = "rules"
    /\ flight' = [flight EXCEPT !.phase = "devices", !.data = Committed \cap RuleRows]
    /\ UNCHANGED cache /\ bodyUnchanged

\* ... then devices, connectors, posture, relays and revocations...
ReadDevices ==
    /\ flight.phase = "devices"
    /\ flight' = [flight EXCEPT !.phase = "label", !.data = @ \cup (Committed \ RuleRows)]
    /\ UNCHANGED cache /\ bodyUnchanged

\* ... and last the version the snapshot is labelled with.
ReadVersion ==
    /\ flight.phase = "label"
    /\ flight' = [flight EXCEPT !.phase = "store", !.version = version]
    /\ UNCHANGED cache /\ bodyUnchanged

Compiled == [data |-> flight.data, version |-> flight.version]

\* Mutant: store without comparing epochs, as before ADR-013.
SetAnyEpoch ==
    /\ flight.phase = "store"
    /\ flight' = [flight EXCEPT !.phase = "returned", !.result = Compiled]
    /\ cache' = IF Compiled.version < cache.version THEN cache ELSE Compiled
    /\ bodyUnchanged

\* SetIfEpoch: refuse the snapshot if an invalidation raced its compile;
\* setLocked keeps an entry with a higher version.
SetIfEpoch ==
    /\ flight.phase = "store"
    /\ \/ /\ epoch # flight.observed
          /\ flight' = [flight EXCEPT !.phase = "check"]
          /\ UNCHANGED cache
       \/ /\ epoch = flight.observed
          /\ flight' = [flight EXCEPT !.phase = "returned", !.result = Compiled]
          /\ cache' = IF Compiled.version < cache.version THEN cache ELSE Compiled
    /\ bodyUnchanged

\* After a refused store: a fresher entry, another attempt, or after the last
\* one the snapshot just compiled, uncached.
Recheck ==
    /\ flight.phase = "check"
    /\ LET giveUp == flight.attempt + 1 >= MaxCompileRetries IN
       \/ /\ cache # NoSnapshot \/ giveUp
          /\ flight' = [flight EXCEPT !.phase = "returned",
                           !.result = IF cache # NoSnapshot THEN cache ELSE Compiled]
       \/ /\ cache = NoSnapshot /\ ~giveUp
          /\ flight' = [flight EXCEPT !.phase = "epoch", !.attempt = @ + 1]
    /\ UNCHANGED cache /\ bodyUnchanged

\* singleflight hands the result to the leader and to all that joined, and
\* forgets the call; until then the returned call can still be joined.
Share ==
    /\ flight.phase = "returned"
    /\ flight' = NoFlight
    /\ caller' = [c \in Callers |-> IF caller[c] = "waiting" THEN "have" ELSE caller[c]]
    /\ got' = [c \in Callers |-> IF caller[c] = "waiting" THEN flight.result ELSE got[c]]
    /\ UNCHANGED <<notify, version, epoch, cache, noticed, reported, faultVars, since,
                   pushVars, connVars>>

\* A query fails, or the context of the caller that runs the body ends: all
\* that wait get the error.  A handler sends nothing, a push is over.
CompileFails ==
    /\ Fault
    /\ flight.phase \in {"rules", "devices"}
    /\ flight' = NoFlight
    /\ caller' = [c \in Callers |-> IF caller[c] # "waiting" THEN caller[c]
                                    ELSE IF c = Pusher THEN "pushed" ELSE "idle"]
    /\ since' = [c \in Callers |-> IF caller[c] # "waiting" THEN since[c] ELSE {}]
    /\ UNCHANGED <<notify, version, epoch, cache, got, noticed, reported, pushVars, connVars>>

-----------------------------------------------------------------------------
(* The push worker *)

\* The caller returns, and its locals with it.
Forget(c) ==
    /\ got' = [got EXCEPT ![c] = NoSnapshot]
    /\ since' = [since EXCEPT ![c] = {}]

\* connectorStreamClient.send: a full queue refuses the message.
Send(c, s) ==
    mailbox' = [mailbox EXCEPT ![c] = IF online[c] /\ Len(@) < QueueSize
                                      THEN Append(@, s) ELSE @]

\* pushOnce lists the registered streams of the workspace...
ClientsForWorkspace ==
    /\ caller[Pusher] = "have"
    /\ caller' = [caller EXCEPT ![Pusher] = "fanout"]
    /\ targets' = {c \in Connectors : online[c]}
    /\ UNCHANGED <<notify, version, epoch, cache, flight, got, noticed, since, reported, pending,
                   covered, faultVars, connVars>>

\* ... and sends the snapshot to each, whatever version it reported.
PushSend(c) ==
    /\ caller[Pusher] = "fanout" /\ c \in targets
    /\ targets' = targets \ {c}
    /\ Send(c, got[Pusher])
    /\ UNCHANGED <<notify, version, epoch, cache, flight, reported, pending, covered, faultVars,
                   online, applied, callVars>>

PushDone ==
    /\ caller[Pusher] = "fanout" /\ targets = {}
    /\ caller' = [caller EXCEPT ![Pusher] = "pushed"]
    /\ Forget(Pusher)
    /\ UNCHANGED <<notify, version, epoch, cache, flight, noticed, reported, faultVars, pushVars, connVars>>

\* Mutant: the worker stops without looking at pending.
RunPushOnce ==
    /\ caller[Pusher] = "pushed"
    /\ pending' = FALSE
    /\ caller' = [caller EXCEPT ![Pusher] = "idle"]
    /\ UNCHANGED <<notify, version, epoch, cache, flight, got, noticed, since, reported, targets, covered,
                   faultVars, connVars>>

\* runPush after a push: once more if a trigger came meanwhile, else stop.
RunPush ==
    /\ caller[Pusher] = "pushed"
    /\ pending' = FALSE
    /\ \/ pending /\ BeginPush(Triggered)
       \/ /\ ~pending
          /\ caller' = [caller EXCEPT ![Pusher] = "idle"]
          /\ UNCHANGED covered
    /\ UNCHANGED <<notify, version, epoch, cache, flight, got, noticed, since, reported, targets, faultVars,
                   connVars>>

-----------------------------------------------------------------------------
(* Connectors and the heartbeat path *)

\* Mutant: no case for a connector without a snapshot.
VersionOfAny(s) == s.version

\* PolicyCache.version: 0 when no snapshot is loaded.
VersionOf(s) == IF s = NoSnapshot THEN 0 ELSE s.version

\* A connector sends a health report with the version it holds.
Report(c) ==
    /\ online[c] /\ caller[c] = "idle"
    /\ caller' = [caller EXCEPT ![c] = "reported"]
    /\ reported' = [reported EXCEPT ![c] = VersionOf(applied[c])]
    /\ UNCHANGED <<notify, version, epoch, cache, flight, got, noticed, since, faultVars, pushVars, connVars>>

\* Mutant: a connector that is ahead counts as current.
AlreadyCurrentOrAhead(v, s) == v # 0 /\ v >= s.version

\* pushACLSnapshot's gate: the connector already holds that version.
AlreadyCurrent(v, s) == v # 0 /\ v = s.version

\* The handler of the report has a snapshot: send it unless it is current.
PushACLSnapshot(c) ==
    /\ caller[c] = "have"
    /\ caller' = [caller EXCEPT ![c] = "idle"]
    /\ \/ AlreadyCurrent(reported[c], got[c]) /\ UNCHANGED mailbox
       \/ ~AlreadyCurrent(reported[c], got[c]) /\ Send(c, got[c])
    /\ Forget(c)
    /\ UNCHANGED <<notify, version, epoch, cache, flight, noticed, reported, faultVars, online, applied,
                   pushVars>>

\* The connector takes the next snapshot off its stream and stores it.
Apply(c) ==
    /\ mailbox[c] # << >>
    /\ applied' = [applied EXCEPT ![c] = Head(mailbox[c])]
    /\ mailbox' = [mailbox EXCEPT ![c] = Tail(@)]
    /\ UNCHANGED <<notify, version, epoch, cache, flight, reported, faultVars, online,
                   callVars, pushVars>>

\* The connector opens a stream and the controller registers it; the handler
\* of its previous stream has finished.
Connect(c) ==
    /\ ~online[c] /\ caller[c] = "idle"
    /\ online' = [online EXCEPT ![c] = TRUE]
    /\ UNCHANGED <<notify, version, epoch, cache, flight, reported, faultVars, mailbox, applied,
                   callVars, pushVars>>

-----------------------------------------------------------------------------
(* Faults *)

\* A stream breaks: what it holds is lost, and so is what is sent to it.
StreamLost(c) ==
    /\ Fault /\ online[c]
    /\ online' = [online EXCEPT ![c] = FALSE]
    /\ mailbox' = [mailbox EXCEPT ![c] = << >>]
    /\ targets' = targets \ {c}
    /\ UNCHANGED <<notify, version, epoch, cache, flight, reported, applied, pending, covered,
                   callVars>>

\* The connector process restarts without a snapshot.
ConnectorRestarts(c) ==
    /\ Fault
    /\ applied' = [applied EXCEPT ![c] = NoSnapshot]
    /\ online' = [online EXCEPT ![c] = FALSE]
    /\ mailbox' = [mailbox EXCEPT ![c] = << >>]
    /\ targets' = targets \ {c}
    /\ UNCHANGED <<notify, version, epoch, cache, flight, reported, pending, covered, callVars>>

\* The controller restarts: versions, epochs and the cache start from nothing,
\* every stream breaks, and notifications under way are never completed.
ControllerRestarts ==
    /\ restarts < MaxRestarts /\ restarts' = restarts + 1
    /\ faults < MaxFaults /\ faults' = faults + 1
    /\ notify' = [m \in Mutations |->
                    IF notify[m] = "new" \/ m \in covered THEN notify[m] ELSE "lost"]
    /\ version' = 0 /\ epoch' = 0 /\ cache' = NoSnapshot /\ flight' = NoFlight
    /\ caller' = [c \in Callers |-> "idle"]
    /\ got' = [c \in Callers |-> NoSnapshot]
    /\ noticed' = [c \in Callers |-> {}]
    /\ since' = [c \in Callers |-> {}]
    /\ reported' = [c \in Connectors |-> 0]
    /\ pending' = FALSE /\ targets' = {}
    /\ online' = [c \in Connectors |-> FALSE]
    /\ mailbox' = [c \in Connectors |-> << >>]
    /\ UNCHANGED <<applied, covered>>

-----------------------------------------------------------------------------
Body == CaptureEpoch \/ ReadRules \/ ReadDevices \/ ReadVersion \/ SetIfEpoch \/ Recheck \/ Share
Notification(m) == BumpVersion(m) \/ Invalidate(m) \/ PushWorkspace(m)
Worker == ClientsForWorkspace \/ (\E c \in Connectors : PushSend(c)) \/ PushDone \/ RunPush

Next ==
    \/ \E m \in Mutations : Commit(m) \/ Notification(m)
    \/ \E c \in Callers : Get(c) \/ GetExpired(c) \/ ExpiryNotified(c) \/ Do(c)
    \/ Body \/ CompileFails \/ Worker
    \/ \E c \in Connectors :
          \/ Report(c) \/ PushACLSnapshot(c) \/ Apply(c) \/ Connect(c)
          \/ StreamLost(c) \/ ConnectorRestarts(c)
    \/ ControllerRestarts

Spec == Init /\ [][Next]_vars

\* Goroutines run, streams deliver, and connectors reconnect and report for
\* ever (their heartbeat ticker and backoff loop never stop).
Fairness ==
    /\ \A m \in Mutations : WF_vars(Notification(m))
    /\ \A c \in Callers :
          WF_vars(Get(c) \/ GetExpired(c) \/ ExpiryNotified(c)) /\ WF_vars(Do(c))
    /\ WF_vars(Body) /\ WF_vars(Worker)
    /\ \A c \in Connectors :
          /\ WF_vars(Report(c)) /\ WF_vars(PushACLSnapshot(c))
          /\ WF_vars(Apply(c)) /\ WF_vars(Connect(c))

FairSpec == Spec /\ Fairness

-----------------------------------------------------------------------------
(* Properties *)

\* A cached snapshot shows every change whose Invalidate has run, however the
\* compile that made it was interleaved with the change (the epoch of ADR-013).
CacheIsCurrent == cache # NoSnapshot => Invalidated \subseteq cache.data

\* A cached snapshot carries the notifier's version, except while a change is
\* between its version bump and its Invalidate.
LabelIsCurrent ==
    cache # NoSnapshot /\ (\A m \in Mutations : notify[m] # "bumped") => cache.version = version

\* What GetOrCompile returns shows every change invalidated before the call of
\* the caller that ran the compile, also when every attempt lost the epoch race.
HandedOutIsFresh ==
    \A c \in Callers : caller[c] \in {"have", "fanout"} => since[c] \subseteq got[c].data

\* Coalescing loses no trigger: when the push worker has stopped, a pushOnce
\* began after each change that called PushWorkspace.
NoLostTrigger == caller[Pusher] = "idle" => Triggered \subseteq covered

\* Once the changes stop, every connector comes to hold the notifier's version,
\* whatever was lost, refused, delivered late, or restarted on the way.
VersionConverges == \A c \in Connectors : <>[](VersionOf(applied[c]) = version)

\* As acl_push.go says of the heartbeat path ("the correctness fallback for
\* offline/missed connectors"): a notified change reaches every connector.
ChangeReachesConnectors ==
    \A m \in Mutations, c \in Connectors :
        notify[m] = "triggered" ~> m \in applied[c].data

\* No compile runs while a change is committed but not yet invalidated.
CalmCompiles ==
    flight.phase # "none" =>
        \A m \in Mutations : notify[m] \notin {"committed", "noticed", "bumped"}

\* The same, provided that no compile overlaps a change on its way from its
\* commit to its Invalidate and that the controller runs on: then equal versions
\* do mean equal policies.  An evaluation that expires reaches every connector
\* too, although nothing but a Get of the cached snapshot notices it.
CalmChangeReachesConnectors ==
    [](CalmCompiles /\ restarts = 0) =>
        /\ ChangeReachesConnectors
        /\ \A m \in Expiries, c \in Connectors :
               notify[m] = "committed" ~> m \in applied[c].data

\* The same promise of acl_push.go across a controller restart: a change
\* announced after it reaches every connector by the heartbeat at the latest.
RestartKeepsDelivery == []CalmCompiles => ChangeReachesConnectors
=============================================================================
