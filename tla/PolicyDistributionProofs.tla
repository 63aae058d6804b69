---------------------- MODULE PolicyDistributionProofs ----------------------
(***************************************************************************)
(* Proofs about PolicyDistribution, for any number of connectors, changes, *)
(* retries, failures and restarts:                                         *)
(*   - type correctness;                                                   *)
(*   - CacheIsCurrent and LabelIsCurrent: what the epoch protects;         *)
(*   - HandedOutIsFresh: what GetOrCompile promises its callers;           *)
(*   - NoLostTrigger: what the coalescing latch promises the notifier.     *)
(***************************************************************************)
EXTENDS PolicyDistribution, TLAPS

\* A snapshot that is there, where the code takes one for granted: at the end
\* of a flight, and in the hands of a caller that was given one.
Delivered ==
    /\ flight.phase = "returned" => flight.result \in Snapshot
    /\ \A c \in Callers : caller[c] \in {"have", "fanout"} => got[c] \in Snapshot

TypeInv == TypeOK /\ Delivered

-----------------------------------------------------------------------------
\* The absent snapshot is not one, and an entry of the cache is.
LEMMA NoSnapshotIsNone ==
    /\ NoSnapshot \notin Snapshot
    /\ \A s \in MaybeSnapshot : s # NoSnapshot => s \in Snapshot
BY DEF NoSnapshot, Snapshot, MaybeSnapshot

\* What a flight has compiled is a snapshot.
LEMMA CompiledIsSnapshot ==
    ASSUME flight \in Flight
    PROVE  Compiled \in Snapshot
BY DEF Flight, Compiled, Snapshot

\* The sets of changes are sets of changes.
LEMMA ChangeSets ==
    /\ Committed \in SUBSET Mutations
    /\ Invalidated \in SUBSET Mutations
    /\ Triggered \in SUBSET Mutations
BY DEF Committed, Invalidated, Triggered

\* The initial states have their types.
LEMMA InitTypes == Init => TypeInv
<1> SUFFICES ASSUME Init PROVE TypeInv
  OBVIOUS
<1>1. NoSnapshot \in MaybeSnapshot /\ NoFlight \in Flight /\ NoFlight.phase = "none"
  BY DEF MaybeSnapshot, NoFlight, Flight, FlightPhase
<1>2. faults \in 0..MaxFaults /\ restarts \in 0..MaxRestarts
  BY DistributionAssumption DEF Init
<1>3. Delivered
  BY <1>1 DEF Init, Delivered
<1>4. mailbox \in [Connectors -> Seq(Snapshot)]
  BY DEF Init
<1>5. /\ since \in [Callers -> SUBSET Mutations] /\ noticed \in [Callers -> SUBSET Mutations] /\ covered \in SUBSET Mutations
      /\ targets \in SUBSET Connectors
  BY DEF Init
<1>6. /\ notify \in [Mutations -> NotifyState] /\ caller \in [Callers -> CallerState]
      /\ got \in [Callers -> MaybeSnapshot] /\ applied \in [Connectors -> MaybeSnapshot]
      /\ cache \in MaybeSnapshot /\ flight \in Flight
  BY <1>1 DEF Init, NotifyState, CallerState
<1> QED BY <1>2, <1>3, <1>4, <1>5, <1>6 DEF Init, TypeInv, TypeOK

\* Every step keeps them: one case per action, the flight's steps together.
LEMMA NextTypes == TypeInv /\ [Next]_vars => TypeInv'
<1> SUFFICES ASSUME TypeInv, [Next]_vars PROVE TypeInv'
  OBVIOUS
<1> USE DEF TypeInv, TypeOK, Delivered
<1>n. NoSnapshot \in MaybeSnapshot /\ NoFlight \in Flight
  BY DEF MaybeSnapshot, NoFlight, Flight, FlightPhase
<1>p. Pusher \in Callers /\ Connectors \subseteq Callers
  BY DEF Callers
<1>1. ASSUME NEW m \in Mutations, Commit(m) PROVE TypeInv'
  BY <1>1 DEF Commit, NotifyState, callVars, pushVars, connVars, faultVars
<1>2. ASSUME NEW m \in Mutations, BumpVersion(m) PROVE TypeInv'
  BY <1>2 DEF BumpVersion, NotifyState, callVars, pushVars, connVars, faultVars
<1>3. ASSUME NEW m \in Mutations, Invalidate(m) PROVE TypeInv'
  BY <1>3, <1>n DEF Invalidate, NotifyState, callVars, pushVars, connVars, faultVars
<1>4. ASSUME NEW m \in Mutations, PushWorkspace(m) PROVE TypeInv'
  <2>1. CASE caller[Pusher] = "idle"
    BY <1>4, <1>p, <2>1, ChangeSets
    DEF PushWorkspace, BeginPush, NotifyState, CallerState, connVars, faultVars
  <2>2. CASE caller[Pusher] # "idle"
    BY <1>4, <2>2 DEF PushWorkspace, NotifyState, connVars, faultVars
  <2> QED BY <2>1, <2>2
<1>5. ASSUME NEW c \in Callers, Get(c) PROVE TypeInv'
  BY <1>5, NoSnapshotIsNone, ChangeSets, ZenonT(30)
  DEF Get, CallerState, pushVars, connVars, faultVars
<1>5a. ASSUME NEW c \in Callers, GetExpired(c) PROVE TypeInv'
  <2>1. PICK m \in Expired : /\ notify' = [notify EXCEPT ![m] = "noticed"]
                             /\ noticed' = [noticed EXCEPT ![c] = {m}]
    BY <1>5a DEF GetExpired
  <2>2. m \in Mutations
    BY DistributionAssumption DEF Expired
  <2>3. notify' \in [Mutations -> NotifyState] /\ noticed' \in [Callers -> SUBSET Mutations]
    BY <2>1, <2>2 DEF NotifyState
  <2>4. /\ caller' = [caller EXCEPT ![c] = "expiring"] /\ cache' = NoSnapshot
        /\ UNCHANGED <<version, epoch, flight, got, since, reported, faultVars, pushVars, connVars>>
    BY <1>5a DEF GetExpired
  <2> QED BY <1>n, <2>3, <2>4 DEF CallerState, pushVars, connVars, faultVars
<1>5b. ASSUME NEW c \in Callers, ExpiryNotified(c) PROVE TypeInv'
  BY <1>5b DEF ExpiryNotified, CallerState, pushVars, connVars, faultVars
<1>6. ASSUME NEW c \in Callers, Do(c) PROVE TypeInv'
  <2>1. CASE flight.phase = "none"
    <3>1. flight' \in Flight /\ flight'.phase = "epoch"
      BY <1>6, <2>1, ChangeSets, <1>n DEF Do, NoFlight, Flight, FlightPhase
    <3> QED BY <1>6, <2>1, <3>1, ChangeSets DEF Do, CallerState, pushVars, connVars, faultVars
  <2>2. CASE flight.phase # "none"
    BY <1>6, <2>2 DEF Do, CallerState, Flight, pushVars, connVars, faultVars
  <2> QED BY <2>1, <2>2
<1>7. CASE Body
  <2>1. CASE Share
    BY <1>n, <2>1 DEF Share, CallerState, NoFlight, pushVars, connVars, faultVars, MaybeSnapshot
  <2>2. CASE ~Share
    <3>1. /\ flight' \in Flight /\ cache' \in MaybeSnapshot
          /\ flight'.phase = "returned" => flight'.result \in Snapshot
      <4> USE DEF Flight, FlightPhase
      <4>1. CASE CaptureEpoch
        BY <4>1 DEF CaptureEpoch
      <4>2. CASE ReadRules
        BY <4>2, ChangeSets DEF ReadRules
      <4>3. CASE ReadDevices
        BY <4>3, ChangeSets DEF ReadDevices
      <4>4. CASE ReadVersion
        BY <4>4 DEF ReadVersion
      <4>5. CASE SetIfEpoch
        BY <4>5, CompiledIsSnapshot DEF SetIfEpoch, MaybeSnapshot
      <4>6. CASE Recheck
        <5> DEFINE r == IF cache # NoSnapshot THEN cache ELSE Compiled
        <5>1. r \in Snapshot /\ r \in MaybeSnapshot /\ cache' \in MaybeSnapshot
          BY <4>6, CompiledIsSnapshot, NoSnapshotIsNone DEF Recheck, MaybeSnapshot
        <5>2. \/ flight' = [flight EXCEPT !.phase = "returned", !.result = r]
              \/ flight' = [flight EXCEPT !.phase = "epoch", !.attempt = @ + 1]
          BY <4>6 DEF Recheck
        <5> HIDE DEF r
        <5>3. CASE flight' = [flight EXCEPT !.phase = "returned", !.result = r]
          BY <5>1, <5>3
        <5>4. CASE flight' = [flight EXCEPT !.phase = "epoch", !.attempt = @ + 1]
          <6>1. flight.attempt + 1 \in Nat
            OBVIOUS
          <6>2. flight' \in Flight
            BY <5>4, <6>1
          <6> QED BY <5>1, <5>4, <6>2
        <5> QED BY <5>2, <5>3, <5>4
      <4> QED BY <1>7, <2>2, <4>1, <4>2, <4>3, <4>4, <4>5, <4>6 DEF Body
    <3>2. bodyUnchanged
      BY <1>7, <2>2
      DEF Body, CaptureEpoch, ReadRules, ReadDevices, ReadVersion, SetIfEpoch, Recheck
    <3> QED BY <3>1, <3>2 DEF bodyUnchanged, callVars, pushVars, connVars, faultVars
  <2> QED BY <2>1, <2>2
<1>8. CASE CompileFails
  BY <1>n, <1>8, DistributionAssumption DEF CompileFails, Fault, CallerState, NoFlight, pushVars, connVars
<1>9. ASSUME NEW c \in Connectors, NEW s \in Snapshot, Send(c, s)
      PROVE  mailbox' \in [Connectors -> Seq(Snapshot)]
  BY <1>9 DEF Send
<1>10. CASE Worker
  <2>1. CASE ClientsForWorkspace
    BY <1>p, <2>1 DEF ClientsForWorkspace, CallerState, connVars, faultVars
  <2>2. ASSUME NEW c \in Connectors, PushSend(c) PROVE TypeInv'
    BY <1>p, <1>9, <2>2 DEF PushSend, callVars, faultVars
  <2>3. CASE PushDone
    BY <1>p, <1>n, <2>3 DEF PushDone, Forget, CallerState, pushVars, connVars, faultVars
  <2>4. CASE RunPush
    BY <1>p, <2>4, ChangeSets DEF RunPush, BeginPush, CallerState, connVars, faultVars
  <2> QED BY <1>10, <2>1, <2>2, <2>3, <2>4 DEF Worker
<1>11. ASSUME NEW c \in Connectors, Report(c) PROVE TypeInv'
  <2>1. VersionOf(applied[c]) \in Nat
    BY NoSnapshotIsNone DEF VersionOf, Snapshot
  <2> QED BY <1>p, <1>11, <2>1 DEF Report, CallerState, pushVars, connVars, faultVars
<1>12. ASSUME NEW c \in Connectors, PushACLSnapshot(c) PROVE TypeInv'
  <2>1. mailbox' \in [Connectors -> Seq(Snapshot)]
    BY <1>p, <1>9, <1>12 DEF PushACLSnapshot
  <2> QED BY <1>p, <1>n, <1>12, <2>1 DEF PushACLSnapshot, Forget, CallerState, pushVars, faultVars
<1>13. ASSUME NEW c \in Connectors, Apply(c) PROVE TypeInv'
  BY <1>13 DEF Apply, MaybeSnapshot, callVars, pushVars, faultVars
<1>14. ASSUME NEW c \in Connectors, Connect(c) PROVE TypeInv'
  BY <1>14 DEF Connect, callVars, pushVars, faultVars
<1>15. ASSUME NEW c \in Connectors, StreamLost(c) PROVE TypeInv'
  BY <1>15, DistributionAssumption DEF StreamLost, Fault, callVars
<1>16. ASSUME NEW c \in Connectors, ConnectorRestarts(c) PROVE TypeInv'
  BY <1>n, <1>16, DistributionAssumption DEF ConnectorRestarts, Fault, callVars
<1>17. CASE ControllerRestarts
  <2>1. mailbox' \in [Connectors -> Seq(Snapshot)] /\ since' \in [Callers -> SUBSET Mutations]
       /\ noticed' \in [Callers -> SUBSET Mutations]
    BY <1>17 DEF ControllerRestarts
  <2>2. notify' \in [Mutations -> NotifyState] /\ caller' \in [Callers -> CallerState]
    BY <1>17 DEF ControllerRestarts, NotifyState, CallerState
  <2>3. /\ got' \in [Callers -> MaybeSnapshot] /\ cache' \in MaybeSnapshot /\ flight' \in Flight
        /\ restarts' \in 0..MaxRestarts /\ faults' \in 0..MaxFaults /\ Delivered'
    BY <1>n, <1>17, DistributionAssumption DEF ControllerRestarts, NoFlight
  <2> QED BY <1>17, <2>1, <2>2, <2>3 DEF ControllerRestarts
<1>18. CASE UNCHANGED vars
  BY <1>18 DEF vars
<1> QED BY <1>1, <1>2, <1>3, <1>4, <1>5, <1>5a, <1>5b, <1>6, <1>7, <1>8, <1>10, <1>11, <1>12, <1>13, <1>14,
           <1>15, <1>16, <1>17, <1>18 DEF Next, Notification

\* Type correctness of the distribution of policy changes.
THEOREM TypeCorrect == Spec => []TypeOK
<1>1. TypeInv => TypeOK
  BY DEF TypeInv
<1> QED BY InitTypes, NextTypes, <1>1, PTL DEF Spec

-----------------------------------------------------------------------------
\* What the running compile has read, as long as no invalidation raced it:
\* every change invalidated so far; its label, unless a change is bumped and
\* not yet invalidated, is the notifier's version.
FlightCurrent ==
    flight.observed = epoch =>
        /\ flight.phase = "devices" => Invalidated \cap RuleRows \subseteq flight.data
        /\ flight.phase \in {"label", "store"} => Invalidated \subseteq flight.data
        /\ flight.phase = "store" /\ (\A m \in Mutations : notify[m] # "bumped") =>
              flight.version = version

\* What it owes its callers, raced or not: the changes invalidated when the
\* flight began.
FlightPromise ==
    /\ flight.since \subseteq Invalidated
    /\ flight.phase = "devices" => flight.since \cap RuleRows \subseteq flight.data
    /\ flight.phase \in {"label", "store", "check"} => flight.since \subseteq flight.data
    /\ flight.phase = "returned" => flight.since \subseteq flight.result.data

\* An epoch captured is not ahead of the current one; those that wait, wait
\* for the running flight and were promised no more than it was.
FlightInv ==
    /\ flight.phase \notin {"none", "epoch"} => flight.observed <= epoch
    /\ \A c \in Callers : caller[c] = "waiting" =>
            flight.phase # "none" /\ since[c] \subseteq flight.since

FreshInv == /\ TypeInv /\ FlightInv /\ FlightPromise /\ FlightCurrent
            /\ CacheIsCurrent /\ LabelIsCurrent /\ HandedOutIsFresh

-----------------------------------------------------------------------------
\* Steps away from the cache and the flight: none of them makes a caller wait
\* or hands it a snapshot.
LEMMA QuietStep ==
    ASSUME FreshInv, TypeInv', UNCHANGED <<version, epoch, cache, flight>>,
           Invalidated' = Invalidated,
           \A m \in Mutations : notify'[m] = "bumped" <=> notify[m] = "bumped",
           \A c \in Callers : caller'[c] = "waiting" =>
               caller[c] = "waiting" /\ since'[c] = since[c],
           \A c \in Callers : caller'[c] \in {"have", "fanout"} =>
               caller[c] \in {"have", "fanout"} /\ since'[c] = since[c] /\ got'[c] = got[c]
    PROVE  FreshInv'
<1>1. FlightInv' /\ FlightPromise' /\ HandedOutIsFresh'
  BY DEF FreshInv, FlightInv, FlightPromise, HandedOutIsFresh
<1>2. FlightCurrent' /\ CacheIsCurrent' /\ LabelIsCurrent'
  BY DEF FreshInv, FlightCurrent, CacheIsCurrent, LabelIsCurrent
<1> QED BY <1>1, <1>2 DEF FreshInv

\* The steps of a notification.
LEMMA NotificationFresh ==
    ASSUME FreshInv, TypeInv', NEW m \in Mutations, Commit(m) \/ Notification(m)
    PROVE  FreshInv'
<1>t. notify \in [Mutations -> NotifyState] /\ Pusher \in Callers /\ epoch \in Nat
      /\ flight \in Flight /\ caller \in [Callers -> CallerState]
  BY DEF FreshInv, TypeInv, TypeOK, Callers
<1>1. CASE Commit(m)
  <2>1. Invalidated' = Invalidated
    BY <1>1, <1>t DEF Commit, Invalidated
  <2> QED BY <1>1, <1>t, <2>1, QuietStep DEF Commit, callVars
<1>2. CASE BumpVersion(m)
  <2>1. Invalidated' = Invalidated
    BY <1>2, <1>t DEF BumpVersion, Invalidated
  <2>2. notify'[m] = "bumped"
    BY <1>2, <1>t DEF BumpVersion
  <2>3. FlightInv' /\ FlightPromise' /\ HandedOutIsFresh' /\ CacheIsCurrent'
    BY <1>2, <2>1 DEF BumpVersion, callVars, FreshInv, FlightInv, FlightPromise, HandedOutIsFresh,
                      CacheIsCurrent
  <2>4. FlightCurrent' /\ LabelIsCurrent'
    BY <1>2, <2>1, <2>2 DEF BumpVersion, FreshInv, FlightCurrent, LabelIsCurrent
  <2> QED BY <2>3, <2>4 DEF FreshInv
<1>3. CASE Invalidate(m)
  <2>1. Invalidated \subseteq Invalidated'
    BY <1>3, <1>t DEF Invalidate, Invalidated
  <2>2. CacheIsCurrent' /\ LabelIsCurrent'
    BY <1>3 DEF Invalidate, CacheIsCurrent, LabelIsCurrent
  <2>3. FlightInv'
    BY <1>3, <1>t DEF Invalidate, callVars, FreshInv, FlightInv, Flight
  <2>4. FlightPromise' /\ HandedOutIsFresh'
    BY <1>3, <2>1 DEF Invalidate, callVars, FreshInv, FlightPromise, HandedOutIsFresh
  <2>5. FlightCurrent'
    BY <1>3, <1>t DEF Invalidate, FreshInv, FlightInv, FlightCurrent, Flight
  <2> QED BY <2>2, <2>3, <2>4, <2>5 DEF FreshInv
<1>4. CASE PushWorkspace(m)
  <2>1. Invalidated' = Invalidated
    BY <1>4, <1>t DEF PushWorkspace, Invalidated
  <2>2. \A n \in Mutations : notify'[n] = "bumped" <=> notify[n] = "bumped"
    BY <1>4, <1>t DEF PushWorkspace
  <2>3. \A c \in Callers : caller'[c] = caller[c] \/ caller'[c] = "reported"
    BY <1>4, <1>t DEF PushWorkspace, BeginPush
  <2> QED BY <1>4, <2>1, <2>2, <2>3, QuietStep DEF PushWorkspace
<1> QED BY <1>1, <1>2, <1>3, <1>4 DEF Notification

\* Entering GetOrCompile: a hit is current, and a flight promises what was
\* invalidated when it was joined at the latest.
LEMMA EnterFresh ==
    ASSUME FreshInv, TypeInv', NEW c \in Callers,
           Get(c) \/ GetExpired(c) \/ ExpiryNotified(c) \/ Do(c)
    PROVE  FreshInv'
<1>t. /\ caller \in [Callers -> CallerState] /\ since \in [Callers -> SUBSET Mutations]
      /\ got \in [Callers -> MaybeSnapshot] /\ flight \in Flight
  BY DEF FreshInv, TypeInv, TypeOK
<1>i. UNCHANGED notify => Invalidated' = Invalidated
  BY DEF Invalidated
<1>1. CASE Get(c)
  <2>1. FlightInv' /\ FlightPromise' /\ CacheIsCurrent' /\ LabelIsCurrent' /\ FlightCurrent'
    BY <1>1, <1>t, <1>i DEF Get, FreshInv, FlightInv, FlightPromise, CacheIsCurrent, LabelIsCurrent,
                            FlightCurrent
  <2>2. HandedOutIsFresh'
    BY <1>1, <1>t DEF Get, FreshInv, HandedOutIsFresh, CacheIsCurrent
  <2> QED BY <2>1, <2>2 DEF FreshInv
<1>2. CASE Do(c)
  <2>1. CacheIsCurrent' /\ LabelIsCurrent' /\ HandedOutIsFresh'
    BY <1>2, <1>t, <1>i DEF Do, FreshInv, CacheIsCurrent, LabelIsCurrent, HandedOutIsFresh
  <2>2. CASE flight.phase = "none"
    <3>1. flight' = [NoFlight EXCEPT !.phase = "epoch", !.since = Invalidated]
      BY <1>2, <2>2 DEF Do
    <3>2. flight'.phase = "epoch" /\ flight'.since = Invalidated
      BY <3>1 DEF NoFlight
    <3>3. \A d \in Callers : caller'[d] = "waiting" => since'[d] \subseteq Invalidated
      BY <1>2, <1>t, <2>2 DEF Do, FreshInv, FlightInv
    <3> QED BY <1>2, <1>i, <2>1, <3>2, <3>3 DEF Do, FreshInv, FlightInv, FlightPromise, FlightCurrent
  <2>3. CASE flight.phase # "none"
    BY <1>2, <1>t, <1>i, <2>1, <2>3 DEF Do, FreshInv, FlightInv, FlightPromise, FlightCurrent
  <2> QED BY <2>2, <2>3
<1>3. CASE GetExpired(c)
  <2>1. PICK m \in Expired : notify' = [notify EXCEPT ![m] = "noticed"]
    BY <1>3 DEF GetExpired
  <2>2. m \in Mutations /\ notify[m] = "committed" /\ notify \in [Mutations -> NotifyState]
    BY DistributionAssumption DEF Expired, FreshInv, TypeInv, TypeOK
  <2>3. Invalidated' = Invalidated
    BY <2>1, <2>2 DEF Invalidated
  <2>4. \A n \in Mutations : notify'[n] = "bumped" <=> notify[n] = "bumped"
    BY <2>1, <2>2
  <2>5. FlightInv' /\ FlightPromise' /\ HandedOutIsFresh'
    BY <1>3, <1>t, <2>3 DEF GetExpired, FreshInv, FlightInv, FlightPromise, HandedOutIsFresh
  <2>6. FlightCurrent' /\ CacheIsCurrent' /\ LabelIsCurrent'
    BY <1>3, <2>3, <2>4 DEF GetExpired, FreshInv, FlightCurrent, CacheIsCurrent, LabelIsCurrent
  <2> QED BY <2>5, <2>6 DEF FreshInv
<1>4. CASE ExpiryNotified(c)
  BY <1>4, <1>t, <1>i, QuietStep DEF ExpiryNotified
<1> QED BY <1>1, <1>2, <1>3, <1>4

\* The body of GetOrCompile.
LEMMA BodyFresh ==
    ASSUME FreshInv, TypeInv', Body
    PROVE  FreshInv'
<1>t. /\ flight \in Flight /\ epoch \in Nat /\ version \in Nat /\ cache \in MaybeSnapshot
      /\ caller \in [Callers -> CallerState]
  BY DEF FreshInv, TypeInv, TypeOK
<1>i. UNCHANGED notify => Invalidated' = Invalidated
  BY DEF Invalidated
<1>c. Invalidated \subseteq Committed
  BY DEF Invalidated, Committed
<1>b. ASSUME bodyUnchanged, flight'.phase # "none", flight'.since = flight.since PROVE
        /\ HandedOutIsFresh' /\ Invalidated' = Invalidated /\ UNCHANGED <<notify, epoch, version>>
        /\ \A c \in Callers : caller'[c] = "waiting" =>
              flight'.phase # "none" /\ since'[c] \subseteq flight'.since
  BY <1>b, <1>i DEF bodyUnchanged, callVars, FreshInv, HandedOutIsFresh, FlightInv
<1>k. UNCHANGED <<notify, cache, version>> => CacheIsCurrent' /\ LabelIsCurrent'
  BY <1>i DEF FreshInv, CacheIsCurrent, LabelIsCurrent
<1> USE DEF Flight
<1>1. CASE CaptureEpoch
  <2>1. /\ flight'.phase = "rules" /\ flight'.observed = epoch /\ flight'.since = flight.since
        /\ bodyUnchanged /\ UNCHANGED cache
    BY <1>1, <1>t DEF CaptureEpoch
  <2>2. FlightPromise' /\ FlightCurrent'
    BY <1>b, <2>1 DEF FreshInv, FlightPromise, FlightCurrent
  <2> QED BY <1>b, <1>k, <1>t, <2>1, <2>2 DEF FreshInv, FlightInv
<1>2. CASE ReadRules
  <2>1. /\ flight'.phase = "devices" /\ flight'.observed = flight.observed
        /\ flight'.since = flight.since /\ flight'.data = Committed \cap RuleRows
        /\ bodyUnchanged /\ UNCHANGED cache /\ flight.phase = "rules"
    BY <1>2, <1>t DEF ReadRules
  <2>2. FlightPromise' /\ FlightCurrent'
    BY <1>b, <1>c, <2>1 DEF FreshInv, FlightPromise, FlightCurrent
  <2> QED BY <1>b, <1>k, <1>t, <2>1, <2>2 DEF FreshInv, FlightInv
<1>3. CASE ReadDevices
  <2>1. /\ flight'.phase = "label" /\ flight'.observed = flight.observed
        /\ flight'.since = flight.since /\ flight'.data = flight.data \cup (Committed \ RuleRows)
        /\ bodyUnchanged /\ UNCHANGED cache /\ flight.phase = "devices"
    BY <1>3, <1>t DEF ReadDevices
  <2>2. FlightPromise' /\ FlightCurrent'
    BY <1>b, <1>c, <2>1 DEF FreshInv, FlightPromise, FlightCurrent
  <2> QED BY <1>b, <1>k, <1>t, <2>1, <2>2 DEF FreshInv, FlightInv
<1>4. CASE ReadVersion
  <2>1. /\ flight'.phase = "store" /\ flight'.observed = flight.observed /\ flight'.version = version
        /\ flight'.since = flight.since /\ flight'.data = flight.data
        /\ bodyUnchanged /\ UNCHANGED cache /\ flight.phase = "label"
    BY <1>4, <1>t DEF ReadVersion
  <2>2. FlightPromise' /\ FlightCurrent'
    BY <1>b, <2>1 DEF FreshInv, FlightPromise, FlightCurrent
  <2> QED BY <1>b, <1>k, <1>t, <2>1, <2>2 DEF FreshInv, FlightInv
<1>5. CASE SetIfEpoch
  <2>1. CASE epoch # flight.observed
    <3>1. /\ flight'.phase = "check" /\ flight'.observed = flight.observed
          /\ flight'.since = flight.since /\ flight'.data = flight.data
          /\ bodyUnchanged /\ UNCHANGED cache /\ flight.phase = "store"
      BY <1>5, <1>t, <2>1 DEF SetIfEpoch
    <3>2. FlightPromise' /\ FlightCurrent'
      BY <1>b, <3>1 DEF FreshInv, FlightPromise, FlightCurrent
    <3> QED BY <1>b, <1>k, <1>t, <3>1, <3>2 DEF FreshInv, FlightInv
  <2>2. CASE epoch = flight.observed
    <3>1. /\ flight'.phase = "returned" /\ flight'.observed = flight.observed
          /\ flight'.since = flight.since /\ flight'.result = Compiled
          /\ bodyUnchanged /\ flight.phase = "store"
          /\ (cache' = cache /\ Compiled.version < cache.version) \/ cache' = Compiled
      BY <1>5, <1>t, <2>2 DEF SetIfEpoch
    <3>2. Compiled.data = flight.data /\ Compiled.version = flight.version
      BY DEF Compiled
    <3>3. FlightPromise' /\ FlightCurrent'
      BY <1>b, <3>1, <3>2 DEF FreshInv, FlightPromise, FlightCurrent
    <3>4. CacheIsCurrent' /\ LabelIsCurrent'
      BY <1>b, <2>2, <3>1, <3>2 DEF FreshInv, CacheIsCurrent, LabelIsCurrent, FlightCurrent
    <3> QED BY <1>b, <1>t, <3>1, <3>3, <3>4 DEF FreshInv, FlightInv
  <2> QED BY <2>1, <2>2
<1>6. CASE Recheck
  <2> DEFINE r == IF cache # NoSnapshot THEN cache ELSE Compiled
  <2>1. /\ flight.phase = "check" /\ bodyUnchanged /\ UNCHANGED cache
        /\ \/ flight' = [flight EXCEPT !.phase = "returned", !.result = r]
           \/ flight' = [flight EXCEPT !.phase = "epoch", !.attempt = @ + 1]
    BY <1>6 DEF Recheck
  <2>2. flight.since \subseteq r.data
    BY <2>1 DEF FreshInv, FlightPromise, CacheIsCurrent, Compiled
  <2> HIDE DEF r
  <2>3. CASE flight' = [flight EXCEPT !.phase = "returned", !.result = r]
    <3>1. /\ flight'.phase = "returned" /\ flight'.result = r
          /\ flight'.since = flight.since /\ flight'.observed = flight.observed
      BY <1>t, <2>3
    <3> QED BY <1>b, <1>k, <1>t, <2>1, <2>2, <3>1 DEF FreshInv, FlightInv, FlightPromise, FlightCurrent
  <2>4. CASE flight' = [flight EXCEPT !.phase = "epoch", !.attempt = @ + 1]
    <3>1. flight'.phase = "epoch" /\ flight'.since = flight.since
      BY <1>t, <2>4
    <3> QED BY <1>b, <1>k, <1>t, <2>1, <3>1 DEF FreshInv, FlightInv, FlightPromise, FlightCurrent
  <2> QED BY <2>1, <2>3, <2>4
<1>7. CASE Share
  <2>1. flight'.phase = "none" /\ flight'.since = {}
    BY <1>7 DEF Share, NoFlight
  <2>2. CacheIsCurrent' /\ LabelIsCurrent' /\ Invalidated' = Invalidated
    BY <1>7, <1>i, <1>k DEF Share
  <2>3. HandedOutIsFresh'
    BY <1>7, <1>t DEF Share, FreshInv, HandedOutIsFresh, FlightInv, FlightPromise
  <2>4. FlightInv'
    BY <1>7, <2>1 DEF Share, FlightInv
  <2> QED BY <2>1, <2>2, <2>3, <2>4 DEF FreshInv, FlightPromise, FlightCurrent
<1> QED BY <1>1, <1>2, <1>3, <1>4, <1>5, <1>6, <1>7 DEF Body

\* Initially nothing is cached, compiled or handed out.
LEMMA InitFresh == Init => FreshInv
<1> SUFFICES ASSUME Init PROVE FreshInv
  OBVIOUS
<1>1. TypeInv
  BY InitTypes
<1>2. flight.phase = "none" /\ flight.since = {} /\ cache = NoSnapshot
  BY DEF Init, NoFlight
<1>3. \A c \in Callers : caller[c] = "idle"
  BY DEF Init
<1> QED BY <1>1, <1>2, <1>3 DEF FreshInv, FlightInv, FlightPromise, FlightCurrent, CacheIsCurrent,
                                LabelIsCurrent, HandedOutIsFresh

\* A restart leaves nothing either.
LEMMA RestartFresh ==
    ASSUME TypeInv', ControllerRestarts
    PROVE  FreshInv'
<1>1. flight'.phase = "none" /\ flight'.since = {} /\ cache' = NoSnapshot
  BY DEF ControllerRestarts, NoFlight
<1>2. \A c \in Callers : caller'[c] = "idle"
  BY DEF ControllerRestarts
<1> QED BY <1>1, <1>2 DEF FreshInv, FlightInv, FlightPromise, FlightCurrent, CacheIsCurrent,
                          LabelIsCurrent, HandedOutIsFresh

\* The worker's steps take place away from the cache.
LEMMA WorkerFresh ==
    ASSUME FreshInv, TypeInv', Worker
    PROVE  FreshInv'
<1>t. /\ caller \in [Callers -> CallerState] /\ since \in [Callers -> SUBSET Mutations]
      /\ got \in [Callers -> MaybeSnapshot] /\ Pusher \in Callers
  BY DEF FreshInv, TypeInv, TypeOK, Callers
<1>i. UNCHANGED notify => Invalidated' = Invalidated
  BY DEF Invalidated
<1>1. CASE ClientsForWorkspace
  BY <1>1, <1>t, <1>i, QuietStep DEF ClientsForWorkspace
<1>2. ASSUME NEW c \in Connectors, PushSend(c) PROVE FreshInv'
  BY <1>2, <1>i, QuietStep DEF PushSend, callVars
<1>3. CASE PushDone
  BY <1>3, <1>t, <1>i, QuietStep DEF PushDone, Forget
<1>4. CASE RunPush
  BY <1>4, <1>t, <1>i, QuietStep DEF RunPush, BeginPush
<1> QED BY <1>1, <1>2, <1>3, <1>4 DEF Worker

\* So do a connector's steps and its handler's.
LEMMA ConnectorFresh ==
    ASSUME FreshInv, TypeInv', NEW c \in Connectors,
           \/ Report(c) \/ PushACLSnapshot(c) \/ Apply(c) \/ Connect(c)
           \/ StreamLost(c) \/ ConnectorRestarts(c)
    PROVE  FreshInv'
<1>t. /\ caller \in [Callers -> CallerState] /\ since \in [Callers -> SUBSET Mutations]
      /\ got \in [Callers -> MaybeSnapshot] /\ c \in Callers
  BY DEF FreshInv, TypeInv, TypeOK, Callers
<1>i. UNCHANGED notify => Invalidated' = Invalidated
  BY DEF Invalidated
<1>1. CASE Report(c)
  BY <1>1, <1>t, <1>i, QuietStep DEF Report
<1>2. CASE PushACLSnapshot(c)
  BY <1>2, <1>t, <1>i, QuietStep DEF PushACLSnapshot, Forget
<1>3. CASE Apply(c) \/ Connect(c) \/ StreamLost(c) \/ ConnectorRestarts(c)
  BY <1>3, <1>i, QuietStep DEF Apply, Connect, StreamLost, ConnectorRestarts, callVars
<1> QED BY <1>1, <1>2, <1>3

\* A failed compile ends the flight and everybody's wait for it.
LEMMA FailureFresh ==
    ASSUME FreshInv, TypeInv', CompileFails
    PROVE  FreshInv'
<1>1. flight'.phase = "none" /\ flight'.since = {}
  BY DEF CompileFails, NoFlight
<1>2. Invalidated' = Invalidated
  BY DEF CompileFails, Invalidated
<1>3. \A c \in Callers : caller'[c] # "waiting"
  BY DEF CompileFails
<1>4. CacheIsCurrent' /\ LabelIsCurrent' /\ HandedOutIsFresh'
  BY <1>2 DEF CompileFails, FreshInv, CacheIsCurrent, LabelIsCurrent, HandedOutIsFresh
<1> QED BY <1>1, <1>3, <1>4 DEF FreshInv, FlightInv, FlightPromise, FlightCurrent

\* The invariant behind the three theorems below is inductive.
LEMMA NextFresh == FreshInv /\ [Next]_vars => FreshInv'
<1> SUFFICES ASSUME FreshInv, [Next]_vars PROVE FreshInv'
  OBVIOUS
<1>t. TypeInv'
  BY NextTypes DEF FreshInv
<1>1. CASE UNCHANGED vars
  <2>1. Invalidated' = Invalidated
    BY <1>1 DEF vars, Invalidated
  <2> QED BY <1>1, <1>t, <2>1, QuietStep DEF vars
<1>2. CASE Next
  BY <1>2, <1>t, NotificationFresh, EnterFresh, BodyFresh, RestartFresh, WorkerFresh, ConnectorFresh,
     FailureFresh DEF Next
<1> QED BY <1>1, <1>2

\* SnapshotCache never serves a snapshot compiled from rows that an
\* invalidation has overtaken, for any number of callers, changes and retries.
THEOREM CacheCurrent == Spec => []CacheIsCurrent
<1>1. FreshInv => CacheIsCurrent
  BY DEF FreshInv
<1> QED BY InitFresh, NextFresh, <1>1, PTL DEF Spec

\* Nor one labelled with a version that is no longer the notifier's.
THEOREM LabelCurrent == Spec => []LabelIsCurrent
<1>1. FreshInv => LabelIsCurrent
  BY DEF FreshInv
<1> QED BY InitFresh, NextFresh, <1>1, PTL DEF Spec

\* Whatever GetOrCompile hands out, cached or not, shows every change that was
\* invalidated when the compile it waited for was started.
THEOREM HandedOutFresh == Spec => []HandedOutIsFresh
<1>1. FreshInv => HandedOutIsFresh
  BY DEF FreshInv
<1> QED BY InitFresh, NextFresh, <1>1, PTL DEF Spec

-----------------------------------------------------------------------------
\* The latch: a trigger is covered by a push that has begun, unless a further
\* push is pending; when the worker is not running nothing is left over.
LatchInv == TypeInv /\ (caller[Pusher] = "idle" \/ ~pending => Triggered \subseteq covered)

\* The latch is kept by every step.
LEMMA NextLatch == LatchInv /\ [Next]_vars => LatchInv'
<1> SUFFICES ASSUME LatchInv, [Next]_vars PROVE LatchInv'
  OBVIOUS
<1>t. /\ TypeInv' /\ caller \in [Callers -> CallerState] /\ Pusher \in Callers
      /\ notify \in [Mutations -> NotifyState] /\ pending \in BOOLEAN
  BY NextTypes DEF LatchInv, TypeInv, TypeOK, Callers
<1>k. ASSUME Triggered' \subseteq Triggered, UNCHANGED <<pending, covered>>,
             caller'[Pusher] = "idle" => caller[Pusher] = "idle"
      PROVE  LatchInv'
  BY <1>k, <1>t DEF LatchInv
<1>1. ASSUME NEW m \in Mutations, Commit(m) \/ BumpVersion(m) \/ Invalidate(m) PROVE LatchInv'
  <2>1. Triggered' \subseteq Triggered
    BY <1>1, <1>t DEF Commit, BumpVersion, Invalidate, Triggered
  <2> QED BY <1>1, <1>k, <2>1 DEF Commit, BumpVersion, Invalidate, callVars, pushVars
<1>2. ASSUME NEW m \in Mutations, PushWorkspace(m) PROVE LatchInv'
  <2>1. Triggered' = Triggered \cup {m}
    BY <1>2, <1>t DEF PushWorkspace, Triggered
  <2>2. \/ covered' = Triggered \cup {m}
        \/ caller'[Pusher] # "idle" /\ pending'
    BY <1>2, <1>t DEF PushWorkspace, BeginPush
  <2> QED BY <1>t, <2>1, <2>2 DEF LatchInv
<1>i. UNCHANGED notify => Triggered' = Triggered
  BY DEF Triggered
<1>3. ASSUME NEW c \in Callers, Get(c) \/ ExpiryNotified(c) \/ Do(c) PROVE LatchInv'
  BY <1>3, <1>t, <1>k, <1>i DEF Get, ExpiryNotified, Do, pushVars
<1>3a. ASSUME NEW c \in Callers, GetExpired(c) PROVE LatchInv'
  <2>1. Triggered' \subseteq Triggered
    BY <1>3a, <1>t, DistributionAssumption DEF GetExpired, Expired, Triggered
  <2> QED BY <1>3a, <1>t, <1>k, <2>1 DEF GetExpired, pushVars
<1>4. CASE Body
  BY <1>4, <1>t, <1>k, <1>i DEF Body, CaptureEpoch, ReadRules, ReadDevices, ReadVersion, SetIfEpoch,
     Recheck, Share, bodyUnchanged, callVars, pushVars
<1>5. CASE CompileFails
  BY <1>5, <1>t, <1>k, <1>i DEF CompileFails, pushVars
<1>6. CASE Worker
  <2>1. CASE ClientsForWorkspace \/ (\E c \in Connectors : PushSend(c)) \/ PushDone
    BY <1>t, <1>k, <1>i, <2>1 DEF ClientsForWorkspace, PushSend, PushDone, callVars, pushVars
  <2>2. CASE RunPush
    BY <1>t, <1>i, <2>2 DEF RunPush, BeginPush, LatchInv
  <2> QED BY <1>6, <2>1, <2>2 DEF Worker
<1>7. ASSUME NEW c \in Connectors, Report(c) \/ PushACLSnapshot(c) PROVE LatchInv'
  <2>1. c # Pusher
    BY DistributionAssumption
  <2> QED BY <1>7, <1>t, <1>k, <1>i, <2>1 DEF Report, PushACLSnapshot, pushVars
<1>8. ASSUME NEW c \in Connectors, Apply(c) \/ Connect(c) \/ StreamLost(c) \/ ConnectorRestarts(c)
      PROVE  LatchInv'
  BY <1>8, <1>k, <1>i DEF Apply, Connect, StreamLost, ConnectorRestarts, callVars, pushVars
<1>9. CASE ControllerRestarts
  <2>1. Triggered' \subseteq covered
    BY <1>9, <1>t DEF ControllerRestarts, Triggered
  <2> QED BY <1>9, <1>t, <2>1 DEF ControllerRestarts, LatchInv
<1>10. CASE UNCHANGED vars
  BY <1>10, <1>k, <1>i DEF vars
<1> QED BY <1>1, <1>2, <1>3, <1>3a, <1>4, <1>5, <1>6, <1>7, <1>8, <1>9, <1>10 DEF Next, Notification

\* ACLPusher's latch loses no trigger: when runPush has returned, a pushOnce
\* began after every change that called PushWorkspace.
THEOREM TriggersCovered == Spec => []NoLostTrigger
<1>1. Init => LatchInv
  BY InitTypes DEF Init, LatchInv, Triggered
<1>2. LatchInv => NoLostTrigger
  BY DEF LatchInv, NoLostTrigger
<1> QED BY <1>1, NextLatch, <1>2, PTL DEF Spec
=============================================================================
