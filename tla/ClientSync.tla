----------------------------- MODULE ClientSync -----------------------------
(***************************************************************************)
(* How a topology change of one workspace reaches one client: the change   *)
(* commits, transport.Notifier bumps the version, invalidates the          *)
(* transport.SnapshotCache and wakes the open WatchChanges streams through *)
(* changehint.Hub; a stream sends the current version as a hint; the       *)
(* client's watch loop compares it with the snapshot it holds and wakes    *)
(* the sync scheduler, which fetches through GetTransportSnapshot, as the  *)
(* 60 s tick and the relay recovery task also do, one at a time.           *)
(*                                                                         *)
(* The topology is the set of changes that have been made to it; a         *)
(* snapshot is the set of changes its rows show, and a version label.      *)
(***************************************************************************)
EXTENDS Integers, Sequences

CONSTANTS
    MaxChanges,         \* bound: topology changes
    Tasks,              \* tasks of the client that fetch: scheduler, recovery
    MaxStreams,         \* bound: WatchChanges handlers of this device at once
    MaxCompileRetries,  \* maxCompileRetries
    MaxFaults           \* bound: failed fetches, broken streams, restarts

ASSUME SyncAssumption ==
    /\ MaxCompileRetries \in Nat \ {0} /\ "free" \notin Tasks
    /\ MaxChanges \in Nat /\ MaxStreams \in Nat /\ MaxFaults \in Nat

Changes == 1..MaxChanges
Streams == 1..MaxStreams

VARIABLES
    change,    \* [Changes -> how far the change and its notification are]
    version,   \* Notifier.versions[ws]
    epoch,     \* SnapshotCache.epoch[ws]
    cache,     \* SnapshotCache.entries[ws]
    fetch,     \* [Tasks -> a GetTransportSnapshot call]
    held,      \* transport_snapshot of the client
    lock,      \* transport_sync_lock
    wake,      \* change_hint has a permit
    current,   \* Hub.subs[ws][device]
    handler,   \* [Streams -> a WatchChanges handler]
    listening, \* the stream the client's watch loop reads
    hints,     \* hints sent on that stream and not yet read
    faults,    \* faults so far
    restarts,  \* of which restarts: the run of the controller
    misled     \* history: a label was read after a change its rows miss, or
               \* counts of two controller processes were taken for equal

ctlVars == <<change, version, epoch, cache>>
hubVars == <<current, handler>>
watchVars == <<listening, hints>>
boundVars == <<faults, restarts>>
vars == <<ctlVars, fetch, held, lock, wake, hubVars, watchVars, boundVars, misled>>

-----------------------------------------------------------------------------
(* Types *)

Versions == 0..MaxChanges
Free == "free"
NoStream == 0

\* run: the controller process that compiled it.
Snapshot == [rows : SUBSET Changes, version : Versions, run : 0..MaxFaults]
NoSnapshot == [rows |-> {}, version |-> -1, run |-> 0]
MaybeSnapshot == Snapshot \cup {NoSnapshot}

\* known: the version the request carries; left: compiles left; seen: the
\* epoch captured before compiling.
Idle == [pc |-> "idle", known |-> 0, left |-> 0, seen |-> 0, snap |-> NoSnapshot]
Fetch == [pc : {"idle", "request", "compile", "label", "set", "reply"},
          known : Versions, left : 0..MaxCompileRetries,
          seen : Versions, snap : MaybeSnapshot \cup [rows : SUBSET Changes,
                                                      version : {-1}, run : 0..MaxFaults]]

\* gone: the client has left the stream and the handler has yet to notice.
NoHandler == [pc |-> "none", last |-> -1, pending |-> FALSE]
Handler == [pc : {"none", "open", "waiting", "woken", "gone"},
            last : Versions \cup {-1}, pending : BOOLEAN]

\* Every variable has its type, and the sync lock is held exactly by a task
\* whose fetch is under way.
TypeOK ==
    /\ change \in [Changes -> {"none", "committed", "bumped", "invalidated", "done", "cut"}]
    /\ version \in Versions /\ epoch \in Versions
    /\ cache \in MaybeSnapshot
    /\ fetch \in [Tasks -> Fetch]
    /\ held \in MaybeSnapshot
    /\ lock \in Tasks \cup {Free}
    /\ \A t \in Tasks : fetch[t].pc # "idle" => lock = t
    /\ wake \in BOOLEAN
    /\ current \in Streams \cup {NoStream}
    /\ handler \in [Streams -> Handler]
    /\ listening \in Streams \cup {NoStream}
    /\ hints \in Seq(Versions) /\ Len(hints) <= 1
    /\ faults \in 0..MaxFaults /\ restarts \in 0..faults
    /\ misled \in BOOLEAN

\* The client has logged in and fetches for the first time.
Init ==
    /\ change = [c \in Changes |-> "none"]
    /\ version = 0 /\ epoch = 0
    /\ cache = NoSnapshot
    /\ fetch = [f \in Tasks |-> Idle]
    /\ held = NoSnapshot
    /\ lock = Free
    /\ wake = FALSE
    /\ current = NoStream
    /\ handler = [s \in Streams |-> NoHandler]
    /\ listening = NoStream /\ hints = <<>>
    /\ faults = 0 /\ restarts = 0
    /\ misled = FALSE

\* What GetWorkspaceConnectors and GetWorkspaceRemoteNetworkIDs read.
Rows == {c \in Changes : change[c] # "none"}

-----------------------------------------------------------------------------
(* A change and NotifyTopologyChange *)

\* A connector goes up or down, moves, or changes relay: one UPDATE.
Commit(c) ==
    /\ change[c] = "none" /\ \A d \in 1..(c - 1) : change[d] # "none"
    /\ change' = [change EXCEPT ![c] = "committed"]
    /\ UNCHANGED <<version, epoch, cache, fetch, held, lock, wake, hubVars,
                   watchVars, boundVars, misled>>

Bump(c) ==
    /\ change[c] = "committed"
    /\ change' = [change EXCEPT ![c] = "bumped"]
    /\ version' = version + 1
    /\ UNCHANGED <<epoch, cache, fetch, held, lock, wake, hubVars, watchVars,
                   boundVars, misled>>

Invalidate(c) ==
    /\ change[c] = "bumped"
    /\ change' = [change EXCEPT ![c] = "invalidated"]
    /\ cache' = NoSnapshot
    /\ epoch' = epoch + 1
    /\ UNCHANGED <<version, fetch, held, lock, wake, hubVars, watchVars,
                   boundVars, misled>>

\* Hub.Notify: the subscribed stream gets its one pending wake.
Notify(c) ==
    /\ change[c] = "invalidated"
    /\ change' = [change EXCEPT ![c] = "done"]
    /\ handler' = [s \in Streams |->
                      [handler[s] EXCEPT !.pending = @ \/ (s = current /\ handler[s].pc # "gone")]]
    /\ UNCHANGED <<version, epoch, cache, fetch, held, lock, wake, current,
                   watchVars, boundVars, misled>>

-----------------------------------------------------------------------------
(* WatchChanges *)

hubRest == <<ctlVars, fetch, held, lock, wake, boundVars, misled>>

\* Fault: the newest stream is not told from the others.
SubscriptionCloseAny(s) == current' = NoStream

\* Subscription.Close: only the device's current subscription is removed.
SubscriptionClose(s) == current' = IF current = s THEN NoStream ELSE current

\* The client opens a stream; Subscribe replaces the device's previous one,
\* whose handler then returns (HandlerEnds).
Open(s) ==
    /\ listening = NoStream
    /\ handler[s].pc = "none"
    /\ s = CHOOSE r \in Streams : handler[r].pc = "none"
    /\ handler' = [handler EXCEPT ![s].pc = "open"]
    /\ current' = s
    /\ listening' = s /\ hints' = <<>>
    /\ UNCHANGED hubRest

\* send: the versions are read after Subscribe; an unchanged hint is sent only
\* when it is the first or a heartbeat.
Send(s, always) ==
    /\ hints = <<>>
    /\ handler' = [handler EXCEPT ![s].pc = "waiting", ![s].last = version]
    /\ hints' = IF always \/ handler[s].last # version THEN <<version>> ELSE hints
    /\ UNCHANGED <<hubRest, current, listening>>

FirstHint(s) == handler[s].pc = "open" /\ Send(s, TRUE)

\* <-sub.C, then the device check.
Woken(s) ==
    /\ handler[s].pc = "waiting" /\ handler[s].pending
    /\ handler' = [handler EXCEPT ![s].pc = "woken", ![s].pending = FALSE]
    /\ UNCHANGED <<hubRest, current, watchVars>>

ChangeHint(s) == handler[s].pc = "woken" /\ Send(s, FALSE)

\* The ticker.
Heartbeat(s) == handler[s].pc = "waiting" /\ Send(s, TRUE)

\* The handler returns: replaced, its context done, its token expired.
HandlerEnds(s) ==
    /\ handler[s].pc = "gone"
    /\ handler' = [handler EXCEPT ![s] = NoHandler]
    /\ SubscriptionClose(s)
    /\ UNCHANGED <<hubRest, watchVars>>

-----------------------------------------------------------------------------
(* The client's watch loop *)

hint_needs_sync(v) == v # held.version

ReadHint ==
    /\ hints # <<>>
    /\ wake' = (wake \/ hint_needs_sync(Head(hints)))
    /\ hints' = Tail(hints)
    /\ UNCHANGED <<ctlVars, fetch, held, lock, hubVars, listening, boundVars, misled>>

\* The stream breaks, idles out or is closed by the controller, or is found
\* dead after a restart; an expired token wakes the sync.
StreamDown ==
    /\ listening # NoStream
    /\ IF handler[listening].pc = "none"
       THEN UNCHANGED <<handler, faults>>
       ELSE /\ faults < MaxFaults /\ faults' = faults + 1
            /\ handler' = [handler EXCEPT ![listening] = [NoHandler EXCEPT !.pc = "gone"]]
    /\ listening' = NoStream /\ hints' = <<>>
    /\ \E expired \in BOOLEAN : wake' = (wake \/ expired)
    /\ UNCHANGED <<ctlVars, fetch, held, lock, current, restarts, misled>>

-----------------------------------------------------------------------------
(* fetch_and_store_transport *)

fetchRest == <<ctlVars, held, hubVars, watchVars, boundVars>>

Known == IF held = NoSnapshot THEN 0 ELSE held.version

\* Fault: the lock is not held across the fetch.
StartUnlocked(t) ==
    /\ fetch[t].pc = "idle"
    /\ lock' = t
    /\ fetch' = [fetch EXCEPT ![t] = [Idle EXCEPT !.pc = "request", !.known = Known]]

\* The lock is taken, then known_version read.
Start(t) ==
    /\ fetch[t].pc = "idle" /\ lock = Free
    /\ lock' = t
    /\ fetch' = [fetch EXCEPT ![t] = [Idle EXCEPT !.pc = "request", !.known = Known]]

\* The 60 s tick of the scheduler, or a relay failure that starts a recovery.
Tick(t) ==
    /\ Start(t)
    /\ UNCHANGED <<fetchRest, wake, misled>>

\* change_hint.notified().
Hinted(t) ==
    /\ wake /\ t = "scheduler"
    /\ Start(t)
    /\ wake' = FALSE
    /\ UNCHANGED <<fetchRest, misled>>

Put(f, rec) == fetch' = [fetch EXCEPT ![f] = rec]

\* The call f is answered with snap.
Answered(f, snap) == [Idle EXCEPT !.pc = "reply", !.known = fetch[f].known, !.snap = snap]

-----------------------------------------------------------------------------
(* GetOrCompile *)

serveRest == <<change, version, epoch, held, lock, wake, hubVars, watchVars,
               boundVars>>

\* Get, and on a miss the epoch before the first compile.
Get(f) ==
    /\ fetch[f].pc = "request"
    /\ Put(f, IF cache # NoSnapshot
              THEN Answered(f, cache)
              ELSE [fetch[f] EXCEPT !.pc = "compile", !.left = MaxCompileRetries,
                                    !.seen = epoch])
    /\ UNCHANGED <<serveRest, cache, misled>>

\* CompileTransportSnapshot: the rows first, ...
ReadRows(f) ==
    /\ fetch[f].pc = "compile"
    /\ Put(f, [fetch[f] EXCEPT !.pc = "label",
                  !.snap = [rows |-> Rows, version |-> -1, run |-> restarts]])
    /\ UNCHANGED <<serveRest, cache, misled>>

\* ... then the version.
ReadVersion(f) ==
    /\ fetch[f].pc = "label"
    /\ Put(f, [fetch[f] EXCEPT !.pc = "set", !.snap.version = version])
    /\ misled' = (misled \/ \E c \in Changes :
                      change[c] \notin {"none", "committed"} /\ c \notin fetch[f].snap.rows)
    /\ UNCHANGED <<serveRest, cache>>

\* setLocked never goes back to a lower version.
setLocked(snap) ==
    IF cache # NoSnapshot /\ snap.version < cache.version THEN cache ELSE snap

\* SetIfEpoch, and what follows when an invalidation raced the compile.
SetIfEpoch(f) ==
    /\ fetch[f].pc = "set"
    /\ IF fetch[f].seen = epoch
       THEN /\ cache' = setLocked(fetch[f].snap)
            /\ Put(f, Answered(f, fetch[f].snap))
       ELSE /\ UNCHANGED cache
            /\ Put(f, CASE cache # NoSnapshot -> Answered(f, cache)
                        [] cache = NoSnapshot /\ fetch[f].left > 1 ->
                             [fetch[f] EXCEPT !.pc = "compile", !.left = @ - 1,
                                              !.seen = epoch, !.snap = NoSnapshot]
                        [] OTHER -> Answered(f, fetch[f].snap))
    /\ UNCHANGED <<serveRest, misled>>

-----------------------------------------------------------------------------
(* The response *)

\* Fault: version 0 counts as known.
UpToDateZero(f) == fetch[f].known = fetch[f].snap.version

\* known_version matches the compiled snapshot's.
UpToDate(f) == fetch[f].known # 0 /\ fetch[f].known = fetch[f].snap.version

\* The task stores the snapshot, or keeps its own, and gives up the lock.
Store(t) ==
    /\ fetch[t].pc = "reply"
    /\ held' = IF UpToDate(t) THEN held ELSE fetch[t].snap
    /\ misled' = (misled \/ (UpToDate(t) /\ held.run # fetch[t].snap.run))
    /\ Put(t, Idle) /\ lock' = Free
    /\ UNCHANGED <<ctlVars, wake, hubVars, watchVars, boundVars>>

\* The request is refused or the response lost; the cached snapshot is kept.
FetchFails(t) ==
    /\ fetch[t].pc \in {"request", "reply"}
    /\ faults < MaxFaults
    /\ faults' = faults + 1
    /\ Put(t, Idle) /\ lock' = Free
    /\ UNCHANGED <<ctlVars, held, wake, hubVars, watchVars, restarts, misled>>

-----------------------------------------------------------------------------
\* The controller restarts: versions, cache, hub and streams are gone, calls
\* fail, and a notification that was under way is never finished.
ControllerRestarts ==
    /\ faults < MaxFaults
    /\ faults' = faults + 1 /\ restarts' = restarts + 1
    /\ change' = [c \in Changes |->
                     IF change[c] \in {"committed", "bumped", "invalidated"}
                     THEN "cut" ELSE change[c]]
    /\ version' = 0 /\ epoch' = 0 /\ cache' = NoSnapshot
    /\ fetch' = [f \in Tasks |-> Idle]
    /\ lock' = Free
    /\ current' = NoStream
    /\ handler' = [s \in Streams |-> NoHandler]
    /\ UNCHANGED <<held, wake, watchVars, misled>>

Announce == \E c \in Changes : Bump(c) \/ Invalidate(c) \/ Notify(c)

Serve(f) == Get(f) \/ ReadRows(f) \/ ReadVersion(f) \/ SetIfEpoch(f)

Next ==
    \/ \E c \in Changes : Commit(c)
    \/ Announce
    \/ \E s \in Streams : \/ Open(s) \/ FirstHint(s) \/ Woken(s)
                          \/ ChangeHint(s) \/ Heartbeat(s) \/ HandlerEnds(s)
    \/ ReadHint \/ StreamDown
    \/ \E t \in Tasks : \/ Tick(t) \/ Hinted(t) \/ Serve(t)
                        \/ Store(t) \/ FetchFails(t)
    \/ ControllerRestarts

Spec == Init /\ [][Next]_vars

\* The notifier's goroutines and the calls proceed and the scheduler's tick
\* comes round; no hint need ever arrive.
FairSpec ==
    /\ Spec
    /\ WF_vars(Announce)
    /\ SF_vars(Tick("scheduler"))
    /\ \A t \in Tasks : WF_vars(Serve(t)) /\ WF_vars(Store(t))

-----------------------------------------------------------------------------
(* Properties *)

\* "Nothing in between can be missed": a stream that waits has sent the current
\* version, or its wake is pending or still to come from a notifier.
NoMissedWake ==
    \A s \in Streams :
        handler[s].pc = "waiting" =>
            \/ handler[s].last = version
            \/ handler[s].pending
            \/ \E c \in Changes : change[c] \in {"bumped", "invalidated"}

\* "versions progress monotonically": whatever tasks fetch at once and however
\* compiles overlap, the client never goes back to an older snapshot of the
\* same controller process.
NeverBackwards ==
    [][held # NoSnapshot /\ held'.run = held.run => held'.version >= held.version]_vars

\* The client comes to hold the current version and the current topology: also
\* when the controller stopped between a commit and its notification, and when
\* no hint ever arrives.  Excepted are the two cases in which a label stands
\* for rows it should not (misled): a compile that reads its rows before a
\* change and its version after it, and equal counts of two processes.
RouteConverges ==
    <>[](held.version = version /\ (misled \/ held.rows = Rows))
=============================================================================
