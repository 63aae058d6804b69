-------------------------- MODULE ShieldResources ---------------------------
(* Resource protection, end to end: the resources table and its state         *)
(* machine (controller/internal/resource/store.go), the resolvers that change *)
(* it, the generation-stamped signed sets that carry a shield's desired rules *)
(* through the connector's cache to the shield, the acks and state reports    *)
(* that come back, and the reconciler that compares them.                     *)
(*                                                                            *)
(* A resource's host is named by the shield whose LAN IP it is (an IPv4 host  *)
(* with a unique shield); the rest of its rule is a port.  A shield's         *)
(* snapshot_generation is the length of published[s] and its                  *)
(* snapshot_fingerprint the last element, so a message needs only the         *)
(* generation and the removes it was signed with.                             *)
EXTENDS Naturals, Sequences, FiniteSets

CONSTANTS Resources,     \* resource ids; an id is used by one row only
          Shields,       \* shield ids
          Ports,         \* the port part of a rule
          NoShield,      \* no shield bound
          NoRead,        \* no delete request in progress
          NoMsg,         \* no cached snapshot
          DriftReports,  \* driftReportsBeforeResync
          AbsentReports, \* absentReportsBeforeReap
          MaxOps,        \* bound on admin operations
          MaxFaults,     \* bound on crashes, broken streams and lost pushes
          MaxInbox,      \* bound on snapshots on their way to a shield
          MaxAcks        \* bound on acks waiting when a health check adds more

ASSUME ReportsAssumption ==
    /\ DriftReports \in Nat \ {0}
    /\ AbsentReports \in Nat \ {0}

ASSUME BoundsAssumption == {MaxOps, MaxFaults, MaxInbox, MaxAcks} \subseteq Nat

ASSUME NamesAssumption == NoShield \notin Shields /\ Ports # {}

VARIABLES
    row,       \* [Resources -> Row]: the resources table
    read,      \* [Resources -> Row]: the row a delete request read, or NoRead
    live,      \* shields whose status is not 'revoked'
    published, \* [Shields -> Seq(SUBSET Rule)]: desired set of every generation
    push,      \* shields for which PushSnapshotForShield has been called
    builds,    \* snapshots built, their resource set not signed yet
    cache,     \* the connector's resource_snapshots
    inbox,     \* snapshots forwarded to a shield, in no order
    active,    \* [Shields -> SUBSET Rule]: SharedResourceState.active
    floor,     \* resource_generation_floor, saved in state.json
    fresh,     \* [Shields -> BOOLEAN]: last_generation is None
    acks,      \* acks stored at a shield or on their way, in no order
    drift,     \* reconcileState.drift
    absent,    \* reconcileState.absent
    online,    \* the connector has a control stream
    wanted,    \* [Resources -> intent]: the admin's last request (history)
    lost,      \* a snapshot was dropped and none as new is cached (history)
    ops,       \* admin operations so far
    faults     \* faults so far

store == <<row, read, live>>
wire  == <<published, push, builds, cache, inbox>>
shld  == <<active, floor, fresh>>
back  == <<acks, drift, absent>>
hist  == <<wanted, lost>>
vars  == <<store, wire, shld, back, online, hist, ops, faults>>

Rule == [id : Resources, host : Shields, port : Ports]
Ack  == [shield : Shields, rule : Rule,
         status : {"protected", "failed", "unprotected"}]
Msg  == [gen : Nat, removes : SUBSET Rule]
Row  == [status : {"new", "unprotected", "protecting", "protected", "failed",
                   "deleting", "gone"},
         action : {"apply", "remove"},
         shield : Shields \cup {NoShield},
         host   : Shields,
         port   : Ports]

---------------------------------------------------------------------------
(* The desired set *)

RuleOf(r) == [id |-> r, host |-> row[r].host, port |-> row[r].port]

Removing(x) == x.status = "protecting" /\ x.action = "remove"

\* The states in which a shield holds, or is applying, the rule.
Enforced(x) ==
    \/ x.status \in {"protected", "failed"}
    \/ x.status = "protecting" /\ x.action = "apply"

\* desiredForShield.
Desired(s) == {RuleOf(r) : r \in {q \in Resources :
                                   row[q].shield = s /\ Enforced(row[q])}}

\* A bug: only tombstones are sent as removes.
RemovesTombstones(s) ==
    {RuleOf(r) : r \in {q \in Resources : row[q].shield = s /\ row[q].status = "deleting"}}

\* What signResourceSet reads: unprotects in progress and tombstones.
Removes(s) == {RuleOf(r) : r \in {q \in Resources :
                                   /\ row[q].shield = s
                                   /\ \/ Removing(row[q])
                                      \/ row[q].status = "deleting"}}

Ids(rules) == {u.id : u \in rules}

ShieldGone(x) == x.shield \notin live

\* A hard delete; the id is never used again.
Gone(r) == [row[r] EXCEPT !.status = "gone", !.action = "remove",
                          !.shield = NoShield]

Bound(x) == {x.shield} \ {NoShield}

---------------------------------------------------------------------------
(* Admin operations: the resolvers and the statements they run *)

\* A table with no row yet, or with every resource protected for some time.
Init ==
    /\ \E at \in [Resources -> Shields \X {CHOOSE p \in Ports : TRUE}],
          standing \in BOOLEAN :
        LET rule(r) == [id |-> r, host |-> at[r][1], port |-> at[r][2]]
            set(s)  == {rule(r) : r \in {q \in Resources : at[q][1] = s}}
            on(s)   == standing /\ set(s) # {}
        IN  /\ row = [r \in Resources |->
                        [status |-> IF standing THEN "protected" ELSE "new",
                         action |-> IF standing THEN "apply" ELSE "remove",
                         shield |-> IF standing THEN at[r][1] ELSE NoShield,
                         host   |-> at[r][1],
                         port   |-> at[r][2]]]
            /\ wanted = [r \in Resources |->
                            IF standing THEN "protect" ELSE "unprotect"]
            /\ published = [s \in Shields |-> IF on(s) THEN <<set(s)>> ELSE <<>>]
            /\ active = [s \in Shields |-> IF on(s) THEN set(s) ELSE {}]
            /\ floor = [s \in Shields |-> IF on(s) THEN 1 ELSE 0]
            /\ fresh = [s \in Shields |-> ~on(s)]
            /\ cache = [s \in Shields |-> IF on(s) THEN [gen |-> 1, removes |-> {}]
                                                   ELSE NoMsg]
    /\ read = [r \in Resources |-> NoRead]
    /\ live = Shields
    /\ push = {}
    /\ builds = {}
    /\ inbox = [s \in Shields |-> {}]
    /\ acks = {}
    /\ drift = [s \in Shields |-> 0]
    /\ absent = [r \in Resources |-> 0]
    /\ online = TRUE
    /\ lost = FALSE
    /\ ops = 0
    /\ faults = 0

AdminOp(r, wish) ==
    /\ ops < MaxOps
    /\ ops' = ops + 1
    /\ wanted' = [wanted EXCEPT ![r] = wish]
    /\ UNCHANGED <<published, builds, cache, inbox, shld, back, online, lost,
                   faults>>

\* createResource: an unprotected row, bound to the active shield on its host.
Create(r) ==
    /\ row[r].status = "new"
    /\ row' = [row EXCEPT ![r].status = "unprotected",
                          ![r].shield = IF row[r].host \in live
                                        THEN row[r].host ELSE NoShield]
    /\ UNCHANGED <<read, live, wire, shld, back, online, hist, ops, faults>>

\* protectResource: MarkProtecting, then a push for the bound shield.
MarkProtecting(r) ==
    /\ AdminOp(r, "protect")
    /\ row[r].status \in {"failed", "unprotected"}
    /\ row[r].host \in live
    /\ row' = [row EXCEPT ![r].shield = row[r].host,
                          ![r].status = "protecting", ![r].action = "apply"]
    /\ push' = push \cup {row[r].host}
    /\ UNCHANGED <<read, live>>

\* unprotectResource: with its shield revoked, straight to 'unprotected'.
MarkUnprotecting(r) ==
    /\ AdminOp(r, "unprotect")
    /\ row[r].status = "protected"
    /\ row' = [row EXCEPT ![r].status = IF ShieldGone(row[r])
                                        THEN "unprotected" ELSE "protecting",
                          ![r].action = "remove"]
    /\ push' = IF ShieldGone(row[r]) THEN push ELSE push \cup Bound(row[r])
    /\ UNCHANGED <<read, live>>

\* updateResource: a new host or port.  An enforced resource goes back to
\* protecting/apply, and moves with its host to the shield there.
Update(r, h, p) ==
    /\ AdminOp(r, wanted[r])
    /\ row[r].status \notin {"new", "gone", "deleting"}
    /\ ~Removing(row[r])
    /\ <<h, p>> # <<row[r].host, row[r].port>>
    /\ LET enforced == Enforced(row[r])
           moved    == enforced /\ h # row[r].host
       IN  /\ moved => h \in live
           /\ row' = [row EXCEPT
                ![r].host = h, ![r].port = p,
                ![r].shield = IF moved THEN h ELSE @,
                ![r].status = IF enforced THEN "protecting" ELSE @,
                ![r].action = IF enforced THEN "apply" ELSE @]
           /\ push' = push \cup (IF enforced THEN Bound(row[r]) ELSE {})
                           \cup (IF moved THEN {h} ELSE {})
    /\ UNCHANGED <<read, live>>

\* deleteResource and forceDeleteResource begin by reading the row.  The bound
\* MaxOps does not count a repeated delete, of a row that is a tombstone.
GetByID(r) ==
    /\ row[r].status \notin {"new", "gone"}
    /\ read[r] = NoRead
    /\ read' = [read EXCEPT ![r] = row[r]]
    /\ IF row[r].status = "deleting"
       THEN UNCHANGED ops
       ELSE ops < MaxOps /\ ops' = ops + 1
    /\ UNCHANGED <<row, live, wire, shld, back, online, hist, faults>>

\* The rest of the request, on the row that was read.
Answer(r, wish) ==
    /\ read[r] # NoRead
    /\ read' = [read EXCEPT ![r] = NoRead]
    /\ wanted' = [wanted EXCEPT ![r] = wish]
    /\ UNCHANGED <<live, published, builds, cache, inbox, shld, back, online,
                   lost, ops, faults>>

\* deleteResource on a row read as enforced: gone at once when the shield is
\* gone, else a tombstone and a push for the shield that was READ.
MarkDeleting(r) ==
    /\ Answer(r, "delete")
    /\ read[r].status \in {"protected", "failed"}
    /\ row[r].status \in {"protected", "failed"}
    /\ IF ShieldGone(row[r])
       THEN row' = [row EXCEPT ![r] = Gone(r)] /\ UNCHANGED push
       ELSE /\ row' = [row EXCEPT ![r].status = "deleting", ![r].action = "remove"]
            /\ push' = push \cup Bound(read[r])

\* deleteResource on a tombstone whose shield is gone.
DeleteIfShieldGone(r) ==
    /\ Answer(r, "delete")
    /\ read[r].status \in {"protected", "failed", "deleting"}
    /\ row[r].status = "deleting"
    /\ ShieldGone(row[r])
    /\ row' = [row EXCEPT ![r] = Gone(r)]
    /\ UNCHANGED push

\* deleteResource on a row that has no rule.
DeleteRow(r) ==
    /\ Answer(r, "delete")
    /\ read[r].status = "unprotected"
    /\ row[r].status = "unprotected"
    /\ row' = [row EXCEPT ![r] = Gone(r)]
    /\ UNCHANGED push

\* forceDeleteResource: any state, then a push for the shield that was read.
ForceDeleteRow(r) ==
    /\ Answer(r, "delete")
    /\ row[r].status # "gone"
    /\ row' = [row EXCEPT ![r] = Gone(r)]
    /\ push' = push \cup Bound(read[r])

\* deleteResource answered with an error: the resource is mid-operation, or no
\* longer in the state that was read.
DeleteRefused(r) ==
    /\ Answer(r, wanted[r])
    /\ \/ read[r].status = "protecting"
       \/ read[r].status = "deleting" /\ ~ShieldGone(row[r])
       \/ row[r].status # read[r].status
    /\ UNCHANGED <<row, push>>

\* shield.Revoke; the connector drops the shield's stream and its cache entry.
RevokeShield(s) ==
    /\ ops < MaxOps
    /\ ops' = ops + 1
    /\ s \in live
    /\ live' = live \ {s}
    /\ cache' = [cache EXCEPT ![s] = NoMsg]
    /\ inbox' = [inbox EXCEPT ![s] = {}]
    /\ UNCHANGED <<row, read, published, push, builds, shld, back, online,
                   hist, faults>>

\* RunTombstoneSweeper: a tombstone past its grace goes, and its shield is pushed.
SweepTombstone(r) ==
    /\ row[r].status = "deleting"
    /\ row' = [row EXCEPT ![r] = Gone(r)]
    /\ push' = push \cup Bound(row[r])
    /\ UNCHANGED <<read, live, published, builds, cache, inbox, shld, back,
                   online, hist, ops, faults>>

---------------------------------------------------------------------------
(* Snapshots: controller to connector to shield *)

\* A bug: the fingerprint is of the ids only.
NextPublishedByIds(s) ==
    IF /\ published[s] # <<>>
       /\ Ids(published[s][Len(published[s])]) = Ids(Desired(s))
    THEN published[s]
    ELSE Append(published[s], Desired(s))

\* BuildShieldSnapshot, under the shield's row lock: a new generation only
\* when the desired set is not the one of the last generation.
NextPublished(s) ==
    IF published[s] # <<>> /\ published[s][Len(published[s])] = Desired(s)
    THEN published[s]
    ELSE Append(published[s], Desired(s))

BuildShieldSnapshot(s) ==
    /\ s \in push
    /\ online
    /\ push' = push \ {s}
    /\ published' = [published EXCEPT ![s] = NextPublished(s)]
    /\ builds' = builds \cup {[shield |-> s, gen |-> Len(NextPublished(s))]}
    /\ UNCHANGED <<store, cache, inbox, shld, back, online, hist, ops, faults>>

\* PushSnapshotForShield finds no stream for the connector.
PushOffline(s) ==
    /\ s \in push
    /\ ~online
    /\ push' = push \ {s}
    /\ UNCHANGED <<store, published, builds, cache, inbox, shld, back, online,
                   hist, ops, faults>>

\* push_snapshot: the connector caches what arrives last and forwards it.
PushSnapshot(s, m) ==
    /\ cache' = [cache EXCEPT ![s] = m]
    /\ inbox' = [inbox EXCEPT ![s] = @ \cup {m}]

\* signResourceSet reads the removes, outside the transaction that built the
\* snapshot; what is signed goes to the connector and on to the shield.
SignResourceSet(b) ==
    LET m == [gen |-> b.gen, removes |-> Removes(b.shield)]
    IN  /\ b \in builds
        /\ Cardinality(inbox[b.shield]) < MaxInbox
        /\ builds' = builds \ {b}
        /\ IF online /\ b.shield \in live
           THEN PushSnapshot(b.shield, m)
           ELSE UNCHANGED <<cache, inbox>>
        /\ UNCHANGED <<store, published, push, shld, back, online, hist, ops,
                       faults>>

\* The queue of the connector's stream is full: the snapshot is dropped.
SendFails(b) ==
    /\ b \in builds
    /\ faults < MaxFaults
    /\ faults' = faults + 1
    /\ builds' = builds \ {b}
    /\ lost' = TRUE
    /\ UNCHANGED <<store, published, push, cache, inbox, shld, back, online,
                   wanted, ops>>

AcksFor(s, rules, status) ==
    {[shield |-> s, rule |-> u, status |-> status] : u \in rules}

\* health_ack: protected when the port answers, failed when it does not.
Verdicts(s, rules) ==
    {AcksFor(s, rules \ down, "protected") \cup AcksFor(s, down, "failed") :
        down \in SUBSET rules}

\* A bug: a set is only compared with what this process has applied.
StaleIgnoresFloor(s, m) == ~fresh[s] /\ m.gen < floor[s]

\* admit_resource_set: older than the saved floor, or than the last applied.
Stale(s, m) == m.gen < floor[s]

\* apply_signed_resource_set: by generation, the set is stale, the one already
\* applied (its removes are acked again) or to be applied.  A rule whose port
\* does not answer is acked 'failed', one for another host is not applied.
ApplySignedResourceSet(s, m) ==
    /\ m \in inbox[s]
    /\ inbox' = [inbox EXCEPT ![s] = @ \ {m}]
    /\ LET stale   == Stale(s, m)
           same    == m.gen = floor[s] /\ ~fresh[s]
           rules   == published[s][m.gen]
           valid   == {u \in rules : u.host = s}
           removed == AcksFor(s, m.removes, "unprotected")
       IN  \/ /\ stale
              /\ UNCHANGED <<shld, acks>>
           \/ /\ same
              /\ acks' = acks \cup removed
              /\ UNCHANGED shld
           \/ /\ ~stale
              /\ ~same
              /\ \E verdicts \in Verdicts(s, valid) :
                    acks' = acks \cup removed \cup verdicts
                                 \cup AcksFor(s, rules \ valid, "failed")
              /\ active' = [active EXCEPT ![s] = valid]
              /\ floor' = [floor EXCEPT ![s] = m.gen]
              /\ fresh' = [fresh EXCEPT ![s] = FALSE]
    /\ UNCHANGED <<store, published, push, builds, cache, drift, absent,
                   online, hist, ops, faults>>

---------------------------------------------------------------------------
(* Acks and reports: shield to controller *)

\* run_health_check_loop: a verdict on every rule of a copy of the active set.
\* The verdicts wait for the heartbeat, so they may arrive at any later time.
HealthCheck(s) ==
    /\ s \in live
    /\ active[s] # {}
    /\ Cardinality(acks) < MaxAcks
    /\ \E verdicts \in Verdicts(s, active[s]) : acks' = acks \cup verdicts
    /\ UNCHANGED <<store, wire, shld, drift, absent, online, hist, ops,
                   faults>>

\* A bug: any ack of the current shield is taken as about the current rule.
AcceptsOldRule(x, a) ==
    /\ x.status \notin {"new", "gone", "deleting"}
    /\ x.shield = a.shield
    /\ IF a.status = "unprotected" THEN Removing(x) ELSE ~Removing(x)

\* A bug: a stray 'unprotected' completes more than an unprotect.
AcceptsStrayRemoval(x, a) ==
    /\ x.status \notin {"new", "gone", "deleting"}
    /\ x.shield = a.shield
    /\ a.status = "unprotected"
        \/ (~Removing(x) /\ x.host = a.rule.host /\ x.port = a.rule.port)

\* The guarded UPDATE of RecordAck.
Accepts(x, a) ==
    /\ x.status \notin {"new", "gone", "deleting"}
    /\ x.shield = a.shield
    /\ IF a.status = "unprotected"
       THEN Removing(x)
       ELSE ~Removing(x) /\ x.host = a.rule.host /\ x.port = a.rule.port

RecordAck(a) ==
    LET r == a.rule.id
    IN  /\ a \in acks
        /\ online
        /\ acks' = acks \ {a}
        /\ row' = IF /\ a.status = "unprotected"
                     /\ row[r].status = "deleting"
                     /\ row[r].shield = a.shield
                  THEN [row EXCEPT ![r] = Gone(r)]
                  ELSE IF Accepts(row[r], a)
                       THEN [row EXCEPT ![r].status = a.status]
                       ELSE row
        /\ UNCHANGED <<read, live, wire, shld, drift, absent, online,
                       hist, ops, faults>>

\* Orphans (reported, not desired) or missing rules (desired, not reported).
Drifting(s) == Ids(active[s]) # Ids(Desired(s))

\* A bug: the threshold is compared before the report is counted.
ResyncDueLate(s) == drift[s] >= DriftReports

ResyncDue(s) == drift[s] + 1 >= DriftReports

\* A heartbeat's state report reaches reconcileShield: a second drifting report
\* in a row re-pushes the snapshot, a third without a tombstone reaps it.  Only
\* ids are compared.
ReconcileShield(s) ==
    /\ s \in live
    /\ online
    /\ LET reported == Ids(active[s])
           drifting == Drifting(s)
           resync   == drifting /\ ResyncDue(s)
           deleting == {r \in Resources :
                          row[r].shield = s /\ row[r].status = "deleting"}
           missing  == deleting \ reported
           reap     == {r \in missing : absent[r] + 1 >= AbsentReports}
       IN  /\ drift' = [drift EXCEPT ![s] =
                            IF drifting /\ ~resync THEN @ + 1 ELSE 0]
           /\ absent' = [r \in Resources |->
                            IF r \in missing \ reap THEN absent[r] + 1
                            ELSE IF r \in deleting THEN 0 ELSE absent[r]]
           /\ push' = IF resync THEN push \cup {s} ELSE push
           /\ row' = [r \in Resources |-> IF r \in reap THEN Gone(r) ELSE row[r]]
    /\ UNCHANGED <<read, live, published, builds, cache, inbox, shld, acks,
                   online, hist, ops, faults>>

---------------------------------------------------------------------------
(* Faults *)

Fault ==
    /\ faults < MaxFaults
    /\ faults' = faults + 1
    /\ UNCHANGED <<store, published, wanted, ops>>

\* The connector's control stream breaks; acks on it may be lost.
ConnectorDisconnects ==
    /\ Fault
    /\ online
    /\ online' = FALSE
    /\ acks' \in {acks, {}}
    /\ UNCHANGED <<push, builds, cache, inbox, shld, drift, absent,
                   lost>>

\* Control accepted again: pushPendingInstructions sends every shield's snapshot.
ConnectorConnects ==
    /\ ~online
    /\ online' = TRUE
    /\ push' = push \cup live
    /\ UNCHANGED <<store, published, builds, cache, inbox, shld, back, hist, ops,
                   faults>>

\* The controller stops: what it had committed and not yet pushed is forgotten.
ControllerRestarts ==
    /\ Fault
    /\ push' = {}
    /\ builds' = {}
    /\ drift' = [s \in Shields |-> 0]
    /\ absent' = [r \in Resources |-> 0]
    /\ online' = FALSE
    /\ UNCHANGED <<cache, inbox, shld, acks, lost>>

\* A shield's control stream breaks and is opened again, perhaps because the
\* shield restarted: what was on its way is lost, the cached snapshot is replayed.
ShieldReconnects(s, restarted) ==
    /\ Fault
    /\ s \in live
    /\ inbox' = [inbox EXCEPT ![s] = {cache[s]} \ {NoMsg}]
    /\ lost' = (lost \/ \E m \in inbox[s] : m.gen > cache[s].gen)
    /\ IF restarted
       THEN /\ active' = [active EXCEPT ![s] = {}]
            /\ fresh' = [fresh EXCEPT ![s] = TRUE]
            /\ UNCHANGED floor
       ELSE UNCHANGED shld
    /\ UNCHANGED <<push, builds, cache, back, online>>

---------------------------------------------------------------------------

Admin(r) ==
    \/ Create(r) \/ MarkProtecting(r) \/ MarkUnprotecting(r)
    \/ \E h \in Shields, p \in Ports : Update(r, h, p)
    \/ GetByID(r) \/ MarkDeleting(r) \/ DeleteIfShieldGone(r)
    \/ DeleteRow(r) \/ ForceDeleteRow(r) \/ DeleteRefused(r)

Next ==
    \/ \E r \in Resources : Admin(r) \/ SweepTombstone(r)
    \/ \E s \in Shields :
          \/ RevokeShield(s)
          \/ BuildShieldSnapshot(s) \/ PushOffline(s)
          \/ \E m \in inbox[s] : ApplySignedResourceSet(s, m)
          \/ HealthCheck(s) \/ ReconcileShield(s)
          \/ \E restarted \in BOOLEAN : ShieldReconnects(s, restarted)
    \/ \E b \in builds : SignResourceSet(b) \/ SendFails(b)
    \/ \E a \in acks : RecordAck(a)
    \/ ConnectorDisconnects \/ ConnectorConnects \/ ControllerRestarts

Fairness ==
    /\ \A s \in Shields :
          /\ WF_vars(BuildShieldSnapshot(s))
          /\ WF_vars(\E m \in inbox[s] : ApplySignedResourceSet(s, m))
          /\ WF_vars(ReconcileShield(s))
    /\ \A r \in Resources : WF_vars(SweepTombstone(r))
    /\ WF_vars(\E b \in builds : SignResourceSet(b))
    /\ WF_vars(\E a \in acks : RecordAck(a))
    /\ WF_vars(ConnectorConnects)

Spec == Init /\ [][Next]_vars
FairSpec == Spec /\ Fairness

---------------------------------------------------------------------------
(* Properties *)

TypeOK ==
    /\ row \in [Resources -> Row]
    /\ read \in [Resources -> Row \cup {NoRead}]
    /\ live \subseteq Shields
    /\ published \in [Shields -> Seq(SUBSET Rule)]
    /\ push \subseteq Shields
    /\ builds \subseteq [shield : Shields, gen : Nat]
    /\ cache \in [Shields -> Msg \cup {NoMsg}]
    /\ inbox \in [Shields -> SUBSET Msg]
    /\ active \in [Shields -> SUBSET Rule]
    /\ floor \in [Shields -> Nat]
    /\ fresh \in [Shields -> BOOLEAN]
    /\ acks \subseteq Ack
    /\ drift \in [Shields -> 0..(DriftReports - 1)]
    /\ absent \in [Resources -> 0..(AbsentReports - 1)]
    /\ online \in BOOLEAN
    /\ wanted \in [Resources -> {"protect", "unprotect", "delete"}]
    /\ lost \in BOOLEAN
    /\ ops \in 0..MaxOps
    /\ faults \in 0..MaxFaults

\* An admin's protect is never undone by an ack, however late and whichever
\* shield it comes from (RecordAck, Fix 18): a resource is routed through its
\* connector only while the last request for it was not to protect it.
NoUnaskedUnprotect ==
    \A r \in Resources :
        row[r].status = "unprotected" => wanted[r] # "protect"

\* A resource shown as protected or failed is bound to a shield that has
\* reached a generation with exactly its current rule: a verdict about an older
\* rule, or from the shield it moved away from, is not taken for the current one.
VerdictReachedShield ==
    \A r \in Resources :
        row[r].status \in {"protected", "failed"} =>
            /\ row[r].shield \in Shields
            /\ \E g \in 1..floor[row[r].shield] :
                  RuleOf(r) \in published[row[r].shield][g]

\* A shield's rules follow the generations of its desired set: what it applies
\* is the set some generation was built from, never one older than a set it
\* applied before, whatever the order of delivery and across restarts
\* (BuildShieldSnapshot, admit_resource_set, resource_generation_floor).
Replica == INSTANCE VersionedReplica WITH
    Replicas <- Shields, Values <- SUBSET Rule, Empty <- {},
    published <- published, position <- floor, value <- active

FollowsGenerations == Replica!Spec

\* Once the admin and the faults stop, every shield that is not revoked ends up
\* enforcing the resources desired of it and no others: lost pushes, stale
\* cached snapshots and crashed controllers are repaired by the reconciler.  And
\* it enforces the very rules, unless a snapshot was dropped (at a full queue, or
\* with a stream while the connector cached an older one that arrived later):
\* the reconciler compares ids only, so it does not see a dropped edit.
RulesConverge ==
    <>[](\A s \in live : /\ Ids(active[s]) = Ids(Desired(s))
                         /\ lost \/ active[s] = Desired(s))

\* An unprotect in progress ends, unless a snapshot was dropped: the removal is
\* acked again, at every replay and reconnection, until the ack is recorded.
UnprotectEnds ==
    \A r \in Resources :
        Removing(row[r]) ~> (~Removing(row[r]) \/ ShieldGone(row[r]) \/ lost)

\* 'unprotected' is where an unprotect ends: only a protect leaves it.
UnprotectStands ==
    \A r \in Resources :
        wanted[r] = "unprotect" =>
            row[r].status \in {"new", "unprotected"} \/ Removing(row[r])
=============================================================================
