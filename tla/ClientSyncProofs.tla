-------------------------- MODULE ClientSyncProofs --------------------------
(* Proofs about ClientSync.  That a version stays within its bound needs a    *)
(* count of the changes it was bumped for; NoMissedWake needs that the only   *)
(* live handler is the one the hub knows; NeverBackwards needs an order       *)
(* between the four places a version can be: the client, the answer on its    *)
(* way to it, the cache and the notifier.                                     *)
EXTENDS ClientSync, FiniteSets, FiniteSetTheorems, TLAPS

\* The changes the version has been bumped for, and those the cache was
\* invalidated for, whichever process did so.
Bumped == {c \in Changes : change[c] \in {"bumped", "invalidated", "done", "cut"}}
Invalidated == {c \in Changes : change[c] \in {"invalidated", "done", "cut"}}

\* A version counts changes.
Counted == version <= Cardinality(Bumped) /\ epoch <= Cardinality(Invalidated)

\* An answer is a labelled snapshot.
AnswerShape == \A t \in Tasks : fetch[t].pc \in {"set", "reply"} => fetch[t].snap \in Snapshot

TypeInv == TypeOK /\ Counted /\ AnswerShape

\* What no step of a fetch or of a stream touches.
CountSame == UNCHANGED <<change, version, epoch>>

-----------------------------------------------------------------------------
(* Counting changes *)

\* A set of changes is finite, and no larger than their bound.
LEMMA ChangesCounted ==
    ASSUME NEW S \in SUBSET Changes
    PROVE  /\ IsFiniteSet(S) /\ Cardinality(S) \in Nat /\ Cardinality(S) <= MaxChanges
           /\ \A T \in SUBSET S : Cardinality(T) <= Cardinality(S)
           /\ \A c \in Changes \ S : Cardinality(S \cup {c}) = Cardinality(S) + 1
<1>1. IsFiniteSet(Changes) /\ Cardinality(Changes) = MaxChanges
  BY SyncAssumption, FS_Interval DEF Changes
<1>2. IsFiniteSet(S) /\ Cardinality(S) <= MaxChanges
  BY <1>1, FS_Subset
<1>3. Cardinality(S) \in Nat
  BY <1>2, FS_CardinalityType
<1>4. \A T \in SUBSET S : Cardinality(T) <= Cardinality(S)
  BY <1>2, FS_Subset
<1>5. \A c \in Changes \ S : Cardinality(S \cup {c}) = Cardinality(S) + 1
  BY <1>2, FS_AddElement
<1> QED BY <1>2, <1>3, <1>4, <1>5

\* The initial state is well typed.
LEMMA TypeInit == Init => TypeInv
<1> SUFFICES ASSUME Init PROVE TypeInv
  OBVIOUS
<1>1. Idle \in Fetch /\ Idle.pc = "idle" /\ NoHandler \in Handler /\ NoHandler.pc = "none"
  BY SyncAssumption DEF Idle, Fetch, NoHandler, Handler, Versions, MaybeSnapshot
<1>2. Cardinality(Bumped) \in Nat /\ Cardinality(Invalidated) \in Nat
  BY ChangesCounted DEF Bumped, Invalidated
<1>3. version \in Versions /\ epoch \in Versions /\ Counted
  BY <1>2, SyncAssumption DEF Init, Counted, Versions
<1>4. /\ fetch \in [Tasks -> Fetch] /\ \A t \in Tasks : fetch[t].pc = "idle"
      /\ handler \in [Streams -> Handler]
  BY <1>1 DEF Init
<1>5. /\ change \in [Changes -> {"none", "committed", "bumped", "invalidated", "done", "cut"}]
      /\ cache \in MaybeSnapshot /\ held \in MaybeSnapshot /\ lock \in Tasks \cup {Free}
      /\ wake \in BOOLEAN /\ current \in Streams \cup {NoStream}
      /\ listening \in Streams \cup {NoStream} /\ misled \in BOOLEAN
  BY DEF Init, MaybeSnapshot
<1>6. hints \in Seq(Versions) /\ Len(hints) <= 1
  BY DEF Init
<1>7. faults \in 0..MaxFaults /\ restarts \in 0..faults
  BY SyncAssumption DEF Init
<1> QED BY <1>3, <1>4, <1>5, <1>6, <1>7 DEF TypeInv, TypeOK, AnswerShape

\* The steps of a change and its notification.
LEMMA ChangeTypeStep ==
    ASSUME TypeInv, NEW c \in Changes, Commit(c) \/ Bump(c) \/ Invalidate(c) \/ Notify(c)
    PROVE  TypeInv'
<1>t. /\ change \in [Changes -> {"none", "committed", "bumped", "invalidated", "done", "cut"}]
      /\ version \in Nat /\ epoch \in Nat /\ handler \in [Streams -> Handler]
  BY SyncAssumption DEF TypeInv, TypeOK, Versions
<1>b. /\ Bumped \in SUBSET Changes /\ Invalidated \in SUBSET Changes
      /\ Bumped' \in SUBSET Changes /\ Invalidated' \in SUBSET Changes
  BY DEF Bumped, Invalidated
<1>c. /\ Cardinality(Bumped) \in Nat /\ Cardinality(Invalidated) \in Nat
      /\ Cardinality(Bumped') \in Nat /\ Cardinality(Invalidated') \in Nat
      /\ Cardinality(Bumped') <= MaxChanges /\ Cardinality(Invalidated') <= MaxChanges
  BY <1>b, ChangesCounted
<1>v. /\ change' \in [Changes -> {"none", "committed", "bumped", "invalidated", "done", "cut"}]
      /\ version' \in Nat /\ epoch' \in Nat
      /\ version' <= Cardinality(Bumped') /\ epoch' <= Cardinality(Invalidated')
  <2>1. CASE Commit(c)
    <3>1. Bumped' = Bumped /\ Invalidated' = Invalidated
      BY <1>t, <2>1 DEF Commit, Bumped, Invalidated
    <3> QED BY <1>t, <2>1, <3>1 DEF Commit, TypeInv, Counted
  <2>2. CASE Bump(c)
    <3>1. Bumped' = Bumped \cup {c} /\ c \notin Bumped /\ Invalidated' = Invalidated
      BY <1>t, <2>2 DEF Bump, Bumped, Invalidated
    <3>2. Cardinality(Bumped') = Cardinality(Bumped) + 1
      BY <1>b, <3>1, ChangesCounted
    <3> QED BY <1>t, <1>c, <2>2, <3>1, <3>2 DEF Bump, TypeInv, Counted
  <2>3. CASE Invalidate(c)
    <3>1. Invalidated' = Invalidated \cup {c} /\ c \notin Invalidated /\ Bumped' = Bumped
      BY <1>t, <2>3 DEF Invalidate, Bumped, Invalidated
    <3>2. Cardinality(Invalidated') = Cardinality(Invalidated) + 1
      BY <1>b, <3>1, ChangesCounted
    <3> QED BY <1>t, <1>c, <2>3, <3>1, <3>2 DEF Invalidate, TypeInv, Counted
  <2>4. CASE Notify(c)
    <3>1. Bumped' = Bumped /\ Invalidated' = Invalidated
      BY <1>t, <2>4 DEF Notify, Bumped, Invalidated
    <3> QED BY <1>t, <2>4, <3>1 DEF Notify, TypeInv, Counted
  <2> QED BY <2>1, <2>2, <2>3, <2>4
<1>1. version' \in Versions /\ epoch' \in Versions /\ Counted'
  BY <1>c, <1>v, SyncAssumption DEF Versions, Counted
<1>2. handler' \in [Streams -> Handler]
  <2>1. CASE Notify(c)
    <3> DEFINE flag(s) == handler[s].pending \/ (s = current /\ handler[s].pc # "gone")
    <3>1. handler' = [s \in Streams |-> [handler[s] EXCEPT !.pending = flag(s)]]
      BY <2>1 DEF Notify
    <3>2. \A s \in Streams : flag(s) \in BOOLEAN
      BY <1>t DEF Handler
    <3> HIDE DEF flag
    <3> QED BY <1>t, <3>1, <3>2 DEF Handler
  <2>2. CASE ~Notify(c)
    BY <1>t, <2>2 DEF Commit, Bump, Invalidate, hubVars
  <2> QED BY <2>1, <2>2
<1>3. cache' \in MaybeSnapshot
  BY DEF Commit, Bump, Invalidate, Notify, TypeInv, TypeOK, MaybeSnapshot
<1>4. UNCHANGED <<fetch, held, lock, wake, current, watchVars, boundVars, misled>>
  BY DEF Commit, Bump, Invalidate, Notify, hubVars
<1> QED BY <1>v, <1>1, <1>2, <1>3, <1>4 DEF TypeInv, TypeOK, AnswerShape, watchVars, boundVars

\* The steps of the streams and of the client's watch loop.
LEMMA StreamTypeStep ==
    ASSUME TypeInv,
           \/ \E s \in Streams : \/ Open(s) \/ FirstHint(s) \/ Woken(s)
                                 \/ ChangeHint(s) \/ Heartbeat(s) \/ HandlerEnds(s)
           \/ ReadHint \/ StreamDown
    PROVE  TypeInv'
<1>t. /\ handler \in [Streams -> Handler] /\ current \in Streams \cup {NoStream}
      /\ listening \in Streams \cup {NoStream} /\ version \in Versions
      /\ hints \in Seq(Versions) /\ Len(hints) <= 1 /\ wake \in BOOLEAN
      /\ faults \in 0..MaxFaults /\ restarts \in 0..faults
  BY DEF TypeInv, TypeOK
<1>n. NoHandler \in Handler /\ [NoHandler EXCEPT !.pc = "gone"] \in Handler
  BY DEF NoHandler, Handler
<1>f. UNCHANGED <<ctlVars, fetch, held, lock, restarts, misled>>
  BY DEF Open, Send, FirstHint, ChangeHint, Heartbeat, Woken, HandlerEnds, ReadHint, StreamDown,
         hubRest, boundVars
<1>q. ASSUME handler' \in [Streams -> Handler], current' \in Streams \cup {NoStream},
             listening' \in Streams \cup {NoStream},
             hints' \in Seq(Versions), Len(hints') <= 1, wake' \in BOOLEAN,
             faults' \in 0..MaxFaults, restarts' \in 0..faults'
      PROVE  TypeInv'
  BY <1>f, <1>q DEF TypeInv, TypeOK, Counted, AnswerShape, Bumped, Invalidated, ctlVars
<1>1. ASSUME NEW s \in Streams, Open(s) PROVE TypeInv'
  <2>1. /\ handler' = [handler EXCEPT ![s].pc = "open"] /\ current' = s /\ listening' = s
        /\ hints' = <<>> /\ UNCHANGED <<wake, boundVars>>
    BY <1>1 DEF Open, hubRest
  <2>2. handler' \in [Streams -> Handler]
    BY <1>t, <2>1 DEF Handler
  <2> QED BY <1>t, <1>q, <2>1, <2>2 DEF boundVars
<1>2. ASSUME NEW s \in Streams, NEW always \in BOOLEAN, Send(s, always) PROVE TypeInv'
  <2>1. /\ handler' = [handler EXCEPT ![s].pc = "waiting", ![s].last = version]
        /\ hints = <<>> /\ hints' \in {<<version>>, hints}
        /\ UNCHANGED <<wake, boundVars, current, listening>>
    BY <1>2 DEF Send, hubRest
  <2>2. handler' \in [Streams -> Handler]
    BY <1>t, <2>1 DEF Handler
  <2>3. hints' \in Seq(Versions) /\ Len(hints') <= 1
    <3>1. <<version>> \in Seq(Versions) /\ Len(<<version>>) = 1
      BY <1>t
    <3>2. CASE hints' = <<version>>
      BY <3>1, <3>2
    <3>3. CASE hints' = hints
      BY <1>t, <3>3
    <3> QED BY <2>1, <3>2, <3>3
  <2> QED BY <1>t, <1>q, <2>1, <2>2, <2>3 DEF boundVars
<1>3. ASSUME NEW s \in Streams, Woken(s) PROVE TypeInv'
  <2>1. /\ handler' = [handler EXCEPT ![s].pc = "woken", ![s].pending = FALSE]
        /\ UNCHANGED <<wake, boundVars, current, watchVars>>
    BY <1>3 DEF Woken, hubRest
  <2>2. handler' \in [Streams -> Handler]
    BY <1>t, <2>1 DEF Handler
  <2> QED BY <1>t, <1>q, <2>1, <2>2 DEF boundVars, watchVars
<1>4. ASSUME NEW s \in Streams, HandlerEnds(s) PROVE TypeInv'
  <2>1. /\ handler' = [handler EXCEPT ![s] = NoHandler]
        /\ current' \in Streams \cup {NoStream}
        /\ UNCHANGED <<wake, boundVars, watchVars>>
    BY <1>4, <1>t DEF HandlerEnds, SubscriptionClose, hubRest
  <2>2. handler' \in [Streams -> Handler]
    BY <1>t, <1>n, <2>1
  <2> QED BY <1>t, <1>q, <2>1, <2>2 DEF boundVars, watchVars
<1>5. CASE ReadHint
  <2>1. /\ hints # <<>> /\ hints' = Tail(hints) /\ UNCHANGED <<hubVars, listening, boundVars>>
        /\ wake' \in BOOLEAN
    BY <1>5 DEF ReadHint
  <2>2. hints' \in Seq(Versions) /\ Len(hints') <= 1
    BY <1>t, <2>1
  <2> QED BY <1>t, <1>q, <2>1, <2>2 DEF boundVars, hubVars
<1>6. CASE StreamDown
  <2>1. /\ listening # NoStream /\ listening' = NoStream /\ hints' = <<>>
        /\ UNCHANGED <<current, restarts>> /\ wake' \in BOOLEAN
    BY <1>6 DEF StreamDown
  <2>2. handler' \in {handler, [handler EXCEPT ![listening] = [NoHandler EXCEPT !.pc = "gone"]]}
    BY <1>6 DEF StreamDown
  <2>3. handler' \in [Streams -> Handler]
    BY <1>t, <1>n, <2>1, <2>2
  <2>4. faults' \in 0..MaxFaults /\ restarts' \in 0..faults'
    BY <1>6, <1>t, SyncAssumption DEF StreamDown
  <2> QED BY <1>t, <1>q, <2>1, <2>3, <2>4
<1> QED BY <1>1, <1>2, <1>3, <1>4, <1>5, <1>6 DEF FirstHint, ChangeHint, Heartbeat

-----------------------------------------------------------------------------
(* Fetching *)

\* A labelled snapshot is not the missing one.
LEMMA Labelled ==
    /\ \A snap \in Snapshot : snap # NoSnapshot /\ snap \in MaybeSnapshot
    /\ \A snap \in MaybeSnapshot : snap # NoSnapshot => snap \in Snapshot
BY SyncAssumption DEF Snapshot, NoSnapshot, MaybeSnapshot, Versions

\* A call that is answered with a snapshot.
LEMMA AnsweredType ==
    ASSUME TypeInv, NEW t \in Tasks, NEW snap \in Snapshot
    PROVE  /\ Answered(t, snap) \in Fetch
           /\ Answered(t, snap).pc = "reply" /\ Answered(t, snap).snap = snap
<1>1. fetch[t].known \in Versions /\ 0 \in Versions /\ 0 \in 0..MaxCompileRetries
  BY SyncAssumption DEF TypeInv, TypeOK, Fetch, Versions
<1>2. snap \in MaybeSnapshot
  BY DEF MaybeSnapshot
<1> QED BY <1>1, <1>2 DEF Answered, Idle, Fetch

\* An idle call.
LEMMA IdleType == Idle \in Fetch /\ Idle.pc = "idle"
BY SyncAssumption DEF Idle, Fetch, Versions, MaybeSnapshot

\* A step of one call.
LEMMA PutType ==
    ASSUME TypeInv, NEW t \in Tasks, NEW rec \in Fetch, Put(t, rec)
    PROVE  /\ fetch' \in [Tasks -> Fetch] /\ fetch'[t] = rec
           /\ \A u \in Tasks \ {t} : fetch'[u] = fetch[u]
BY DEF TypeInv, TypeOK, Put

\* What the steps of a call leave well typed.
LEMMA FetchKeepsTypes ==
    ASSUME TypeInv, NEW t \in Tasks, NEW rec \in Fetch, Put(t, rec), CountSame,
           rec.pc \in {"set", "reply"} => rec.snap \in Snapshot,
           rec.pc = "idle" => lock' = Free, rec.pc # "idle" => lock' = t,
           lock \in {t, Free},
           cache' \in MaybeSnapshot, held' \in MaybeSnapshot, wake' \in BOOLEAN,
           faults' \in 0..MaxFaults, restarts' \in 0..faults', misled' \in BOOLEAN,
           UNCHANGED <<hubVars, watchVars>>
    PROVE  TypeInv'
<1>1. /\ fetch' \in [Tasks -> Fetch] /\ fetch'[t] = rec
      /\ \A u \in Tasks \ {t} : fetch'[u] = fetch[u]
  BY PutType
<1>2. \A u \in Tasks \ {t} : fetch[u].pc = "idle"
  BY SyncAssumption DEF TypeInv, TypeOK, Free
<1>3. /\ \A u \in Tasks : fetch'[u].pc # "idle" => lock' = u
      /\ lock' \in Tasks \cup {Free}
  BY <1>1, <1>2
<1>4. AnswerShape'
  BY <1>1, <1>2 DEF AnswerShape
<1>5. Counted'
  BY DEF CountSame, TypeInv, Counted, Bumped, Invalidated
<1> QED BY <1>1, <1>3, <1>4, <1>5 DEF CountSame, TypeInv, TypeOK, hubVars, watchVars

\* The steps of the client's tasks and of the calls they make.
LEMMA FetchTypeStep ==
    ASSUME TypeInv, NEW t \in Tasks,
           Tick(t) \/ Hinted(t) \/ Serve(t) \/ Store(t) \/ FetchFails(t)
    PROVE  TypeInv'
<1>t. /\ fetch[t] \in Fetch /\ cache \in MaybeSnapshot /\ held \in MaybeSnapshot
      /\ wake \in BOOLEAN /\ misled \in BOOLEAN
      /\ faults \in 0..MaxFaults /\ restarts \in 0..faults
      /\ version \in Versions /\ epoch \in Versions
      /\ fetch[t].pc # "idle" => lock = t
  BY DEF TypeInv, TypeOK
<1>1. CASE Tick(t) \/ Hinted(t)
  <2>1. Known \in Versions
    BY <1>t, SyncAssumption, Labelled DEF Known, Snapshot, Versions
  <2> DEFINE rec == [Idle EXCEPT !.pc = "request", !.known = Known]
  <2>2. rec \in Fetch /\ rec.pc = "request"
    BY <2>1, IdleType DEF Fetch
  <2> HIDE DEF rec
  <2>3. Put(t, rec) /\ lock = Free /\ lock' = t
    BY <1>1 DEF Tick, Hinted, Start, Put, rec
  <2>4. UNCHANGED <<fetchRest, misled>> /\ wake' \in BOOLEAN
    BY <1>1, <1>t DEF Tick, Hinted
  <2> QED BY <1>t, <2>2, <2>3, <2>4, FetchKeepsTypes DEF CountSame, fetchRest, ctlVars, boundVars
<1>2. CASE Get(t)
  <2>1. PICK rec \in Fetch : /\ Put(t, rec) /\ rec.pc # "idle"
                             /\ rec.pc \in {"set", "reply"} => rec.snap \in Snapshot
    <3>1. CASE cache # NoSnapshot
      BY <1>2, <1>t, <3>1, Labelled, AnsweredType DEF Get
    <3>2. CASE cache = NoSnapshot
      <4> DEFINE rec == [fetch[t] EXCEPT !.pc = "compile", !.left = MaxCompileRetries, !.seen = epoch]
      <4>1. rec \in Fetch /\ rec.pc = "compile"
        <5>1. MaxCompileRetries \in 0..MaxCompileRetries
          BY SyncAssumption
        <5> QED BY <1>t, <5>1 DEF Fetch
      <4> HIDE DEF rec
      <4>2. Put(t, rec)
        BY <1>2, <3>2 DEF Get, rec
      <4> QED BY <4>1, <4>2
    <3> QED BY <3>1, <3>2
  <2>2. fetch[t].pc = "request" /\ UNCHANGED <<serveRest, cache, misled>>
    BY <1>2 DEF Get
  <2> QED BY <1>t, <2>1, <2>2, FetchKeepsTypes DEF CountSame, serveRest, boundVars
<1>3. CASE ReadRows(t)
  <2> DEFINE snap == [rows |-> Rows, version |-> -1, run |-> restarts]
             rec == [fetch[t] EXCEPT !.pc = "label", !.snap = snap]
  <2>1. snap \in [rows : SUBSET Changes, version : {-1}, run : 0..MaxFaults]
    <3>1. restarts \in 0..MaxFaults
      BY <1>t, SyncAssumption
    <3>2. Rows \in SUBSET Changes
      BY DEF Rows
    <3> QED BY <3>1, <3>2
  <2> HIDE DEF snap
  <2>2. rec \in Fetch /\ rec.pc = "label"
    BY <1>t, <2>1 DEF Fetch
  <2> HIDE DEF rec
  <2>3. Put(t, rec) /\ fetch[t].pc = "compile" /\ UNCHANGED <<serveRest, cache, misled>>
    BY <1>3 DEF ReadRows, rec, snap
  <2> QED BY <1>t, <2>2, <2>3, FetchKeepsTypes DEF CountSame, serveRest, boundVars
<1>4. CASE ReadVersion(t)
  <2> DEFINE rec == [fetch[t] EXCEPT !.pc = "set", !.snap.version = version]
  <2>1. rec \in Fetch /\ rec.pc = "set" /\ rec.snap \in Snapshot
    <3>1. [fetch[t].snap EXCEPT !.version = version] \in Snapshot
      <4>1. 0 \in 0..MaxFaults /\ fetch[t].snap \in [rows : SUBSET Changes, version : Versions \cup {-1}, run : 0..MaxFaults]
        BY <1>t, SyncAssumption DEF Fetch, MaybeSnapshot, Snapshot, NoSnapshot
      <4> QED BY <1>t, <4>1 DEF Snapshot
    <3>2. rec = [fetch[t] EXCEPT !.pc = "set", !.snap = [fetch[t].snap EXCEPT !.version = version]]
      BY <1>t DEF Fetch
    <3> HIDE DEF rec
    <3> QED BY <1>t, <3>1, <3>2 DEF Fetch, MaybeSnapshot
  <2> HIDE DEF rec
  <2>2. Put(t, rec) /\ fetch[t].pc = "label" /\ UNCHANGED <<serveRest, cache>>
        /\ misled' \in BOOLEAN
    BY <1>4, <1>t DEF ReadVersion, rec
  <2> QED BY <1>t, <2>1, <2>2, FetchKeepsTypes DEF CountSame, serveRest, boundVars
<1>5. CASE SetIfEpoch(t)
  <2>1. fetch[t].pc = "set" /\ UNCHANGED <<serveRest, misled>> /\ fetch[t].snap \in Snapshot
    BY <1>5 DEF SetIfEpoch, TypeInv, AnswerShape
  <2>2. cache' \in MaybeSnapshot
    BY <1>5, <1>t, <2>1, Labelled DEF SetIfEpoch, setLocked
  <2>3. PICK rec \in Fetch : /\ Put(t, rec) /\ rec.pc # "idle"
                             /\ rec.pc \in {"set", "reply"} => rec.snap \in Snapshot
    <3> DEFINE again == [fetch[t] EXCEPT !.pc = "compile", !.left = fetch[t].left - 1,
                                         !.seen = epoch, !.snap = NoSnapshot]
    <3>1. CASE Put(t, Answered(t, fetch[t].snap))
      BY <2>1, <3>1, AnsweredType
    <3>2. CASE cache # NoSnapshot /\ Put(t, Answered(t, cache))
      BY <1>t, <3>2, Labelled, AnsweredType
    <3>3. CASE fetch[t].left > 1 /\ Put(t, again)
      <4>1. fetch[t].left - 1 \in 0..MaxCompileRetries /\ NoSnapshot \in MaybeSnapshot
        BY <1>t, <3>3, SyncAssumption DEF Fetch, MaybeSnapshot
      <4>2. again \in Fetch /\ again.pc = "compile"
        BY <1>t, <4>1 DEF Fetch
      <4> QED BY <3>3, <4>2
    <3>4. \/ Put(t, Answered(t, fetch[t].snap))
          \/ cache # NoSnapshot /\ Put(t, Answered(t, cache))
          \/ fetch[t].left > 1 /\ Put(t, again)
      BY <1>5 DEF SetIfEpoch
    <3> QED BY <3>1, <3>2, <3>3, <3>4
  <2> QED BY <1>t, <2>1, <2>2, <2>3, FetchKeepsTypes DEF CountSame, serveRest, boundVars
<1>6. CASE Store(t)
  <2>1. fetch[t].pc = "reply" /\ fetch[t].snap \in Snapshot
    BY <1>6 DEF Store, TypeInv, AnswerShape
  <2>2. held' \in MaybeSnapshot /\ misled' \in BOOLEAN
    BY <1>6, <1>t, <2>1, Labelled DEF Store
  <2>3. Put(t, Idle) /\ lock' = Free /\ UNCHANGED <<ctlVars, wake, hubVars, watchVars, boundVars>>
    BY <1>6 DEF Store
  <2> QED BY <1>t, <2>1, <2>2, <2>3, IdleType, FetchKeepsTypes DEF CountSame, ctlVars, boundVars
<1>7. CASE FetchFails(t)
  <2>1. /\ fetch[t].pc # "idle" /\ Put(t, Idle) /\ lock' = Free
        /\ UNCHANGED <<ctlVars, held, wake, hubVars, watchVars, restarts, misled>>
    BY <1>7 DEF FetchFails
  <2>2. faults' \in 0..MaxFaults /\ restarts' \in 0..faults'
    BY <1>7, <1>t, SyncAssumption DEF FetchFails
  <2> QED BY <1>t, <2>1, <2>2, IdleType, FetchKeepsTypes DEF CountSame, ctlVars
<1> QED BY <1>1, <1>2, <1>3, <1>4, <1>5, <1>6, <1>7 DEF Serve

\* A restart of the controller.
LEMMA RestartTypeStep == ASSUME TypeInv, ControllerRestarts PROVE TypeInv'
<1>1. /\ fetch' \in [Tasks -> Fetch] /\ \A t \in Tasks : fetch'[t].pc = "idle"
  BY IdleType DEF ControllerRestarts
<1>2. handler' \in [Streams -> Handler]
  BY DEF ControllerRestarts, NoHandler, Handler
<1>3. change' \in [Changes -> {"none", "committed", "bumped", "invalidated", "done", "cut"}]
  BY DEF ControllerRestarts, TypeInv, TypeOK
<1>4. Counted' /\ version' \in Versions /\ epoch' \in Versions
  <2>1. Cardinality(Bumped') \in Nat /\ Cardinality(Invalidated') \in Nat
    BY ChangesCounted DEF Bumped, Invalidated
  <2> QED BY <2>1, SyncAssumption DEF ControllerRestarts, Counted, Versions
<1>5. faults' \in 0..MaxFaults /\ restarts' \in 0..faults'
  BY SyncAssumption DEF ControllerRestarts, TypeInv, TypeOK
<1>6. /\ cache' = NoSnapshot /\ lock' = Free /\ current' = NoStream
      /\ UNCHANGED <<held, wake, watchVars, misled>>
  BY DEF ControllerRestarts
<1> QED BY <1>1, <1>2, <1>3, <1>4, <1>5, <1>6
        DEF TypeInv, TypeOK, AnswerShape, MaybeSnapshot, watchVars

\* Every step keeps the state well typed.
LEMMA TypeStep == TypeInv /\ [Next]_vars => TypeInv'
<1> SUFFICES ASSUME TypeInv, [Next]_vars PROVE TypeInv'
  OBVIOUS
<1>1. CASE UNCHANGED vars
  BY <1>1 DEF vars, ctlVars, hubVars, watchVars, boundVars, TypeInv, TypeOK, Counted, AnswerShape,
              Bumped, Invalidated
<1> QED BY <1>1, ChangeTypeStep, StreamTypeStep, FetchTypeStep, RestartTypeStep DEF Next, Announce

\* Every reachable state is well typed, and the sync lock is held exactly by the
\* task whose fetch is under way, for any tasks, streams and bounds.
THEOREM TypeCorrect == Spec => []TypeOK
<1>1. TypeInv => TypeOK
  BY DEF TypeInv
<1> QED BY <1>1, TypeInit, TypeStep, PTL DEF Spec

-----------------------------------------------------------------------------
(* Wakes *)

\* A handler that has not noticed its end is the one the hub wakes and the one
\* the client listens to.
LiveIsCurrent ==
    \A s \in Streams : handler[s].pc \in {"open", "waiting", "woken"} =>
                          s = current /\ s = listening

WakeInv == TypeInv /\ LiveIsCurrent /\ NoMissedWake

\* The step of one handler.
LEMMA HandlerStep ==
    ASSUME TypeInv, NEW s \in Streams, NEW rec \in Handler, handler' = [handler EXCEPT ![s] = rec]
    PROVE  handler'[s] = rec /\ \A r \in Streams \ {s} : handler'[r] = handler[r]
BY DEF TypeInv, TypeOK

\* Every step keeps the invariant.
LEMMA WakeStep == WakeInv /\ [Next]_vars => WakeInv'
<1> SUFFICES ASSUME WakeInv, [Next]_vars PROVE LiveIsCurrent' /\ NoMissedWake'
  BY TypeStep DEF WakeInv
<1>t. /\ change \in [Changes -> {"none", "committed", "bumped", "invalidated", "done", "cut"}]
      /\ handler \in [Streams -> Handler]
  BY DEF WakeInv, TypeInv, TypeOK
<1>z. NoStream \notin Streams
  BY DEF NoStream, Streams
<1>h. ASSUME UNCHANGED <<hubVars, listening, version>>,
             \A c \in Changes : change[c] \in {"bumped", "invalidated"} =>
                                 change'[c] \in {"bumped", "invalidated"}
      PROVE  LiveIsCurrent' /\ NoMissedWake'
  BY <1>h DEF WakeInv, LiveIsCurrent, NoMissedWake, hubVars
<1>s. ASSUME NEW s \in Streams, UNCHANGED <<change, version>>,
             \A r \in Streams \ {s} : handler'[r] = handler[r],
             \A r \in Streams \ {s} :
                 r = current /\ r = listening /\ handler[r].pc \in {"open", "waiting", "woken"} =>
                     r = current' /\ r = listening',
             handler'[s].pc \in {"open", "waiting", "woken"} => s = current' /\ s = listening',
             handler'[s].pc = "waiting" => handler'[s].last = version
      PROVE  LiveIsCurrent' /\ NoMissedWake'
  <2>1. LiveIsCurrent'
    BY <1>s DEF WakeInv, LiveIsCurrent
  <2>2. NoMissedWake'
    BY <1>s DEF WakeInv, NoMissedWake
  <2> QED BY <2>1, <2>2
<1>1. ASSUME NEW c \in Changes, Commit(c) \/ Invalidate(c) PROVE LiveIsCurrent' /\ NoMissedWake'
  <2>1. UNCHANGED <<hubVars, listening, version>>
    BY <1>1 DEF Commit, Invalidate, watchVars
  <2>2. \A d \in Changes : change[d] \in {"bumped", "invalidated"} =>
                             change'[d] \in {"bumped", "invalidated"}
    BY <1>1, <1>t DEF Commit, Invalidate
  <2> QED BY <1>h, <2>1, <2>2
<1>2. ASSUME NEW c \in Changes, Bump(c) PROVE LiveIsCurrent' /\ NoMissedWake'
  <2>1. UNCHANGED <<hubVars, listening>> /\ change'[c] = "bumped"
    BY <1>2, <1>t DEF Bump, watchVars
  <2> QED BY <2>1 DEF WakeInv, LiveIsCurrent, NoMissedWake, hubVars
<1>3. ASSUME NEW c \in Changes, Notify(c) PROVE LiveIsCurrent' /\ NoMissedWake'
  <2> DEFINE flag(s) == handler[s].pending \/ (s = current /\ handler[s].pc # "gone")
  <2>1. /\ handler' = [s \in Streams |-> [handler[s] EXCEPT !.pending = flag(s)]]
        /\ UNCHANGED <<current, listening>>
    BY <1>3 DEF Notify, watchVars
  <2>2. \A s \in Streams : flag(s) \in BOOLEAN
    BY <1>t DEF Handler
  <2>3. \A s \in Streams : s = current /\ handler[s].pc # "gone" => flag(s)
    OBVIOUS
  <2> HIDE DEF flag
  <2>4. \A s \in Streams : handler'[s].pc = handler[s].pc /\ handler'[s].pending = flag(s)
    BY <1>t, <2>1, <2>2 DEF Handler
  <2>5. LiveIsCurrent'
    BY <2>1, <2>4 DEF WakeInv, LiveIsCurrent
  <2>6. \A s \in Streams : handler'[s].pc = "waiting" => handler'[s].pending
    BY <2>3, <2>4 DEF WakeInv, LiveIsCurrent
  <2> QED BY <2>5, <2>6 DEF NoMissedWake
<1>4. ASSUME NEW s \in Streams, Open(s) PROVE LiveIsCurrent' /\ NoMissedWake'
  <2>1. /\ handler' = [handler EXCEPT ![s] = [handler[s] EXCEPT !.pc = "open"]]
        /\ current' = s /\ listening' = s /\ listening = NoStream
        /\ UNCHANGED <<change, version>>
    BY <1>4 DEF Open, hubRest, ctlVars
  <2>2. [handler[s] EXCEPT !.pc = "open"] \in Handler /\ [handler[s] EXCEPT !.pc = "open"].pc = "open"
    BY <1>t DEF Handler
  <2>3. handler'[s].pc = "open" /\ \A r \in Streams \ {s} : handler'[r] = handler[r]
    BY <2>1, <2>2, HandlerStep DEF WakeInv
  <2> QED BY <1>s, <1>z, <2>1, <2>3
<1>5. ASSUME NEW s \in Streams, handler[s].pc \in {"open", "waiting", "woken"},
             NEW always \in BOOLEAN, Send(s, always)
      PROVE  LiveIsCurrent' /\ NoMissedWake'
  <2>1. /\ handler' = [handler EXCEPT ![s] = [handler[s] EXCEPT !.pc = "waiting", !.last = version]]
        /\ UNCHANGED <<current, listening, change, version>>
    BY <1>5 DEF Send, hubRest, ctlVars
  <2>2. /\ [handler[s] EXCEPT !.pc = "waiting", !.last = version] \in Handler
        /\ [handler[s] EXCEPT !.pc = "waiting", !.last = version].last = version
    BY <1>t DEF Handler, WakeInv, TypeInv, TypeOK
  <2>3. handler'[s].last = version /\ \A r \in Streams \ {s} : handler'[r] = handler[r]
    BY <2>1, <2>2, HandlerStep DEF WakeInv
  <2>4. s = current /\ s = listening
    BY <1>5 DEF WakeInv, LiveIsCurrent
  <2> QED BY <1>s, <2>1, <2>3, <2>4
<1>6. ASSUME NEW s \in Streams, Woken(s) PROVE LiveIsCurrent' /\ NoMissedWake'
  <2>1. /\ handler' = [handler EXCEPT ![s] = [handler[s] EXCEPT !.pc = "woken", !.pending = FALSE]]
        /\ UNCHANGED <<current, listening, change, version>> /\ handler[s].pc = "waiting"
    BY <1>6 DEF Woken, hubRest, ctlVars, watchVars
  <2>2. /\ [handler[s] EXCEPT !.pc = "woken", !.pending = FALSE] \in Handler
        /\ [handler[s] EXCEPT !.pc = "woken", !.pending = FALSE].pc = "woken"
    BY <1>t DEF Handler
  <2>3. handler'[s].pc = "woken" /\ \A r \in Streams \ {s} : handler'[r] = handler[r]
    BY <2>1, <2>2, HandlerStep DEF WakeInv
  <2>4. s = current /\ s = listening
    BY <2>1 DEF WakeInv, LiveIsCurrent
  <2> QED BY <1>s, <2>1, <2>3, <2>4
<1>7. ASSUME NEW s \in Streams, HandlerEnds(s) PROVE LiveIsCurrent' /\ NoMissedWake'
  <2>1. /\ handler' = [handler EXCEPT ![s] = NoHandler] /\ handler[s].pc = "gone"
        /\ UNCHANGED <<listening, change, version>>
        /\ \A r \in Streams \ {s} : r = current => r = current'
    BY <1>7 DEF HandlerEnds, SubscriptionClose, hubRest, ctlVars, watchVars
  <2>2. NoHandler \in Handler /\ NoHandler.pc = "none"
    BY DEF NoHandler, Handler
  <2>3. handler'[s].pc = "none" /\ \A r \in Streams \ {s} : handler'[r] = handler[r]
    BY <2>1, <2>2, HandlerStep DEF WakeInv
  <2> QED BY <1>s, <2>1, <2>3
<1>8. CASE StreamDown
  <2>1. /\ listening \in Streams /\ listening' = NoStream
        /\ UNCHANGED <<current, change, version>>
    BY <1>8 DEF StreamDown, ctlVars, WakeInv, TypeInv, TypeOK
  <2>2. PICK s \in Streams : s = listening
    BY <2>1
  <2>3. [NoHandler EXCEPT !.pc = "gone"] \in Handler /\ [NoHandler EXCEPT !.pc = "gone"].pc = "gone"
    BY DEF NoHandler, Handler
  <2>4. /\ handler'[s].pc \in {"none", "gone"}
        /\ \A r \in Streams \ {s} : handler'[r] = handler[r]
    <3>1. CASE handler[s].pc = "none"
      BY <1>8, <2>2, <3>1 DEF StreamDown
    <3>2. CASE handler[s].pc # "none"
      <4>1. handler' = [handler EXCEPT ![s] = [NoHandler EXCEPT !.pc = "gone"]]
        BY <1>8, <2>2, <3>2 DEF StreamDown
      <4> QED BY <2>3, <4>1, HandlerStep DEF WakeInv
    <3> QED BY <3>1, <3>2
  <2> QED BY <1>s, <2>1, <2>2, <2>4
<1>9. CASE ReadHint
  BY <1>9, <1>h DEF ReadHint, ctlVars
<1>10. ASSUME NEW t \in Tasks, Tick(t) \/ Hinted(t) \/ Serve(t) \/ Store(t) \/ FetchFails(t)
       PROVE  LiveIsCurrent' /\ NoMissedWake'
  <2>1. UNCHANGED <<hubVars, watchVars, change, version>>
    BY <1>10 DEF Tick, Hinted, Serve, Get, ReadRows, ReadVersion, SetIfEpoch, Store, FetchFails,
                 fetchRest, serveRest, ctlVars
  <2> QED BY <1>h, <2>1 DEF watchVars
<1>11. CASE ControllerRestarts
  <2>1. \A s \in Streams : handler'[s].pc = "none"
    BY <1>11 DEF ControllerRestarts, NoHandler
  <2> QED BY <2>1 DEF LiveIsCurrent, NoMissedWake
<1>12. CASE UNCHANGED vars
  BY <1>12, <1>h DEF vars, ctlVars, watchVars
<1>13. ASSUME NEW s \in Streams, FirstHint(s) \/ ChangeHint(s) \/ Heartbeat(s)
       PROVE  LiveIsCurrent' /\ NoMissedWake'
  BY <1>5, <1>13 DEF FirstHint, ChangeHint, Heartbeat
<1> QED BY <1>1, <1>2, <1>3, <1>4, <1>6, <1>7, <1>8, <1>9, <1>10, <1>11, <1>12, <1>13
        DEF Next, Announce

\* No stream sleeps through a change: a handler that waits has sent the current
\* version, or its wake is pending or still to come (watch_changes.go, hub.go).
THEOREM WakeNotMissed == Spec => []NoMissedWake
<1>1. Init => WakeInv
  <2> SUFFICES ASSUME Init PROVE LiveIsCurrent /\ NoMissedWake
    BY TypeInit DEF WakeInv
  <2>1. \A s \in Streams : handler[s].pc = "none"
    BY DEF Init, NoHandler
  <2> QED BY <2>1 DEF LiveIsCurrent, NoMissedWake
<1>2. WakeInv => NoMissedWake
  BY DEF WakeInv
<1> QED BY <1>1, <1>2, WakeStep, PTL DEF Spec

-----------------------------------------------------------------------------
(* Versions *)

\* The client holds a snapshot of the controller process that is running.
HeldCurrent == held # NoSnapshot /\ held.run = restarts

\* The cache and the calls are of the running process, and no version is ahead
\* of the notifier's.
Runs ==
    /\ cache # NoSnapshot => cache.run = restarts /\ cache.version <= version
    /\ held # NoSnapshot => held.run <= restarts
    /\ \A t \in Tasks :
          /\ fetch[t].pc \in {"label", "set", "reply"} => fetch[t].snap.run = restarts
          /\ fetch[t].pc \in {"set", "reply"} => fetch[t].snap.version <= version

\* Neither the notifier, nor the cache, nor a call is behind the client.
Ordered ==
    HeldCurrent =>
        /\ held.version <= version
        /\ cache # NoSnapshot => held.version <= cache.version
        /\ \A t \in Tasks : fetch[t].pc \in {"set", "reply"} => held.version <= fetch[t].snap.version

\* The cache is not behind an answer on its way to the client.
AnswersCached ==
    \A t \in Tasks :
        fetch[t].pc = "reply" /\ cache # NoSnapshot => fetch[t].snap.version <= cache.version

OrderInv == TypeInv /\ Runs /\ Ordered /\ AnswersCached

\* The versions that are compared are numbers.
LEMMA VersionTypes ==
    ASSUME TypeInv
    PROVE  /\ version \in Nat /\ restarts \in Nat
           /\ held # NoSnapshot => held.version \in Nat /\ held.run \in Nat
           /\ cache # NoSnapshot => cache.version \in Nat
           /\ \A t \in Tasks : fetch[t].pc \in {"set", "reply"} => fetch[t].snap.version \in Nat
BY SyncAssumption, Labelled DEF TypeInv, TypeOK, AnswerShape, Snapshot, Versions

\* A step that only moves the notifier ahead, empties the cache or starts or ends
\* a call keeps the order.
LEMMA OrderKept ==
    ASSUME OrderInv, UNCHANGED <<held, restarts>>,
           version' \in Nat, version <= version', cache' \in {cache, NoSnapshot},
           \A t \in Tasks : fetch'[t] = fetch[t] \/ fetch'[t].pc \in {"idle", "request", "compile"}
    PROVE  Runs' /\ Ordered' /\ AnswersCached'
<1>t. TypeInv /\ Runs /\ Ordered /\ AnswersCached
  BY DEF OrderInv
<1>v. /\ version \in Nat /\ (held # NoSnapshot => held.version \in Nat)
      /\ cache # NoSnapshot => cache.version \in Nat
      /\ \A t \in Tasks : fetch[t].pc \in {"set", "reply"} => fetch[t].snap.version \in Nat
  BY <1>t, VersionTypes
<1>f. \A t \in Tasks : fetch'[t].pc \in {"label", "set", "reply"} => fetch'[t] = fetch[t]
  OBVIOUS
<1>1. Runs'
  BY <1>t, <1>v, <1>f DEF Runs
<1>2. Ordered'
  BY <1>t, <1>v, <1>f DEF Ordered, HeldCurrent
<1>3. AnswersCached'
  BY <1>t, <1>f DEF AnswersCached
<1> QED BY <1>1, <1>2, <1>3

\* A step of the call under way keeps the order when what it leaves in the cache
\* and in the call is of this process and not behind the client.
LEMMA OrderCall ==
    ASSUME OrderInv, NEW t \in Tasks, fetch[t].pc # "idle",
           UNCHANGED <<held, restarts, version>>,
           \A u \in Tasks \ {t} : fetch'[u] = fetch[u],
           cache' # NoSnapshot =>
               /\ cache'.run = restarts /\ cache'.version <= version
               /\ HeldCurrent => held.version <= cache'.version,
           fetch'[t].pc \in {"label", "set", "reply"} => fetch'[t].snap.run = restarts,
           fetch'[t].pc \in {"set", "reply"} =>
               /\ fetch'[t].snap.version <= version
               /\ HeldCurrent => held.version <= fetch'[t].snap.version,
           fetch'[t].pc = "reply" /\ cache' # NoSnapshot => fetch'[t].snap.version <= cache'.version
    PROVE  Runs' /\ Ordered' /\ AnswersCached'
<1>t. TypeInv /\ Runs /\ Ordered
  BY DEF OrderInv
<1>f. \A u \in Tasks \ {t} : fetch'[u].pc = "idle"
  BY <1>t DEF TypeInv, TypeOK
<1>1. Runs'
  BY <1>t, <1>f DEF Runs
<1>2. Ordered'
  BY <1>t, <1>f DEF Ordered, HeldCurrent
<1>3. AnswersCached'
  BY <1>f DEF AnswersCached
<1> QED BY <1>1, <1>2, <1>3

\* The steps of a call keep the order.
LEMMA ServeOrder ==
    ASSUME OrderInv, NEW t \in Tasks, Serve(t)
    PROVE  Runs' /\ Ordered' /\ AnswersCached'
<1>t. TypeInv /\ Runs /\ Ordered /\ AnswersCached /\ fetch[t] \in Fetch
  BY DEF OrderInv, TypeInv, TypeOK
<1>v. /\ version \in Nat /\ (held # NoSnapshot => held.version \in Nat)
      /\ cache # NoSnapshot => cache.version \in Nat
      /\ fetch[t].pc \in {"set", "reply"} => fetch[t].snap.version \in Nat
  BY <1>t, VersionTypes
<1>c. /\ cache \in MaybeSnapshot
      /\ cache # NoSnapshot =>
           /\ cache.run = restarts /\ cache.version <= version
           /\ HeldCurrent => held.version <= cache.version
  BY <1>t DEF Runs, Ordered, TypeInv, TypeOK
<1>u. UNCHANGED <<held, restarts, version>>
  BY DEF Serve, Get, ReadRows, ReadVersion, SetIfEpoch, serveRest, boundVars
<1>a. ASSUME cache # NoSnapshot, UNCHANGED cache, Put(t, Answered(t, cache)),
             fetch[t].pc # "idle"
      PROVE  Runs' /\ Ordered' /\ AnswersCached'
  <2>1. cache \in Snapshot
    BY <1>a, <1>c, Labelled
  <2>2. /\ fetch'[t].pc = "reply" /\ fetch'[t].snap = cache
        /\ \A u \in Tasks \ {t} : fetch'[u] = fetch[u]
    BY <1>t, <1>a, <2>1, AnsweredType, PutType
  <2> QED BY <1>a, <1>c, <1>u, <1>v, <2>2, OrderCall
<1>1. CASE Get(t)
  <2>1. CASE cache # NoSnapshot
    BY <1>1, <1>a, <2>1 DEF Get
  <2>2. CASE cache = NoSnapshot
    <3> DEFINE rec == [fetch[t] EXCEPT !.pc = "compile", !.left = MaxCompileRetries, !.seen = epoch]
    <3>1. rec.pc = "compile"
      BY <1>t DEF Fetch
    <3> HIDE DEF rec
    <3>2. Put(t, rec) /\ UNCHANGED cache
      BY <1>1, <2>2 DEF Get, rec
    <3>3. \A u \in Tasks : fetch'[u] = fetch[u] \/ fetch'[u].pc = "compile"
      BY <1>t, <3>1, <3>2 DEF Put, TypeInv, TypeOK
    <3> QED BY <1>u, <1>v, <3>2, <3>3, OrderKept
  <2> QED BY <2>1, <2>2
<1>2. CASE ReadRows(t)
  <2> DEFINE snap == [rows |-> Rows, version |-> -1, run |-> restarts]
             rec == [fetch[t] EXCEPT !.pc = "label", !.snap = snap]
  <2>1. rec.pc = "label" /\ rec.snap = snap /\ snap.run = restarts
    BY <1>t DEF Fetch
  <2> HIDE DEF rec, snap
  <2>2. Put(t, rec) /\ fetch[t].pc = "compile" /\ UNCHANGED cache
    BY <1>2 DEF ReadRows, rec, snap
  <2>3. fetch'[t] = rec /\ \A u \in Tasks \ {t} : fetch'[u] = fetch[u]
    BY <1>t, <2>2 DEF Put, TypeInv, TypeOK
  <2> QED BY <1>c, <1>u, <2>1, <2>2, <2>3, OrderCall
<1>3. CASE ReadVersion(t)
  <2> DEFINE rec == [fetch[t] EXCEPT !.pc = "set", !.snap.version = version]
  <2>1. fetch[t].pc = "label" /\ fetch[t].snap.run = restarts
    BY <1>3, <1>t DEF ReadVersion, Runs
  <2>2. rec.pc = "set" /\ rec.snap.run = restarts /\ rec.snap.version = version
    <3>1. rec.pc = "set" /\ rec.snap = [fetch[t].snap EXCEPT !.version = version]
      BY <1>t DEF Fetch
    <3>2. fetch[t].snap \in [rows : SUBSET Changes, version : Versions \cup {-1}, run : 0..MaxFaults]
      BY <1>t, SyncAssumption DEF Fetch, MaybeSnapshot, Snapshot, NoSnapshot
    <3> QED BY <2>1, <3>1, <3>2
  <2> HIDE DEF rec
  <2>3. Put(t, rec) /\ UNCHANGED cache
    BY <1>3 DEF ReadVersion, rec
  <2>4. fetch'[t] = rec /\ \A u \in Tasks \ {t} : fetch'[u] = fetch[u]
    BY <1>t, <2>3 DEF Put, TypeInv, TypeOK
  <2>5. HeldCurrent => held.version <= version
    BY <1>t DEF Ordered
  <2> QED BY <1>c, <1>u, <1>v, <2>1, <2>2, <2>3, <2>4, <2>5, OrderCall
<1>4. CASE SetIfEpoch(t)
  <2>1. /\ fetch[t].pc = "set" /\ fetch[t].snap \in Snapshot
        /\ fetch[t].snap.run = restarts /\ fetch[t].snap.version <= version
        /\ HeldCurrent => held.version <= fetch[t].snap.version
    BY <1>4, <1>t DEF SetIfEpoch, TypeInv, AnswerShape, Runs, Ordered
  <2>2. ASSUME Put(t, Answered(t, fetch[t].snap))
        PROVE  /\ fetch'[t].pc = "reply" /\ fetch'[t].snap = fetch[t].snap
               /\ \A u \in Tasks \ {t} : fetch'[u] = fetch[u]
    BY <1>t, <2>1, <2>2, AnsweredType, PutType
  <2>3. CASE fetch[t].seen = epoch
    <3>1. /\ cache' = setLocked(fetch[t].snap) /\ Put(t, Answered(t, fetch[t].snap))
      BY <1>4, <2>3 DEF SetIfEpoch
    <3>2. /\ cache'.run = restarts /\ cache'.version <= version
          /\ HeldCurrent => held.version <= cache'.version
          /\ fetch[t].snap.version <= cache'.version
      BY <1>c, <1>v, <2>1, <3>1 DEF setLocked
    <3> QED BY <1>u, <2>1, <2>2, <3>1, <3>2, OrderCall
  <2>4. CASE fetch[t].seen # epoch /\ cache # NoSnapshot
    BY <1>4, <1>a, <2>1, <2>4 DEF SetIfEpoch
  <2>5. CASE fetch[t].seen # epoch /\ cache = NoSnapshot /\ fetch[t].left > 1
    <3> DEFINE rec == [fetch[t] EXCEPT !.pc = "compile", !.left = fetch[t].left - 1,
                                       !.seen = epoch, !.snap = NoSnapshot]
    <3>1. rec.pc = "compile"
      BY <1>t DEF Fetch
    <3> HIDE DEF rec
    <3>2. Put(t, rec) /\ UNCHANGED cache
      BY <1>4, <2>5 DEF SetIfEpoch, rec
    <3>3. \A u \in Tasks : fetch'[u] = fetch[u] \/ fetch'[u].pc = "compile"
      BY <1>t, <3>1, <3>2 DEF Put, TypeInv, TypeOK
    <3> QED BY <1>u, <1>v, <3>2, <3>3, OrderKept
  <2>6. CASE fetch[t].seen # epoch /\ cache = NoSnapshot /\ ~(fetch[t].left > 1)
    <3>1. UNCHANGED cache /\ Put(t, Answered(t, fetch[t].snap))
      BY <1>4, <2>6 DEF SetIfEpoch
    <3> QED BY <1>u, <2>1, <2>2, <2>6, <3>1, OrderCall
  <2> QED BY <2>3, <2>4, <2>5, <2>6
<1> QED BY <1>1, <1>2, <1>3, <1>4 DEF Serve

\* The client keeps its own snapshot, or takes one that is not older.
LEMMA StoreOrder ==
    ASSUME OrderInv, NEW t \in Tasks, Store(t)
    PROVE  Runs' /\ Ordered' /\ AnswersCached'
<1>t. TypeInv /\ Runs /\ Ordered /\ AnswersCached
  BY DEF OrderInv
<1>1. /\ fetch[t].pc = "reply" /\ Put(t, Idle) /\ held' \in {held, fetch[t].snap}
      /\ UNCHANGED <<cache, version, restarts>>
  BY DEF Store, ctlVars, boundVars
<1>2. \A u \in Tasks : fetch'[u].pc = "idle"
  <2>1. fetch'[t].pc = "idle" /\ \A u \in Tasks \ {t} : fetch'[u] = fetch[u]
    BY <1>t, <1>1, IdleType, PutType
  <2> QED BY <1>t, <1>1, <2>1 DEF TypeInv, TypeOK
<1>3. /\ fetch[t].snap.run = restarts /\ fetch[t].snap.version <= version
      /\ cache # NoSnapshot => fetch[t].snap.version <= cache.version
  BY <1>t, <1>1 DEF Runs, AnswersCached
<1>4. restarts \in Nat
  BY <1>t, VersionTypes
<1>5. Runs'
  BY <1>t, <1>1, <1>2, <1>3, <1>4 DEF Runs
<1>6. Ordered'
  BY <1>t, <1>1, <1>2, <1>3 DEF Ordered, HeldCurrent
<1>7. AnswersCached'
  BY <1>2 DEF AnswersCached
<1> QED BY <1>5, <1>6, <1>7

\* Every step keeps the order.
LEMMA OrderStep == OrderInv /\ [Next]_vars => OrderInv'
<1> SUFFICES ASSUME OrderInv, [Next]_vars PROVE Runs' /\ Ordered' /\ AnswersCached'
  BY TypeStep DEF OrderInv
<1>t. TypeInv /\ version \in Nat /\ restarts \in Nat /\ (held # NoSnapshot => held.run \in Nat)
  BY VersionTypes DEF OrderInv
<1>1. ASSUME NEW c \in Changes, Commit(c) \/ Bump(c) \/ Invalidate(c) \/ Notify(c)
      PROVE  Runs' /\ Ordered' /\ AnswersCached'
  <2>1. UNCHANGED <<held, restarts, fetch>> /\ cache' \in {cache, NoSnapshot}
    BY <1>1 DEF Commit, Bump, Invalidate, Notify, boundVars
  <2>2. version' \in {version, version + 1}
    BY <1>1 DEF Commit, Bump, Invalidate, Notify
  <2>3. version' \in Nat /\ version <= version'
    BY <1>t, <2>2
  <2> QED BY <2>1, <2>3, OrderKept
<1>2. CASE \/ \E s \in Streams : \/ Open(s) \/ FirstHint(s) \/ Woken(s)
                                 \/ ChangeHint(s) \/ Heartbeat(s) \/ HandlerEnds(s)
           \/ ReadHint \/ StreamDown \/ UNCHANGED vars
  <2>1. UNCHANGED <<held, restarts, fetch, version, cache>>
    BY <1>2 DEF Open, FirstHint, Woken, ChangeHint, Heartbeat, Send, HandlerEnds, ReadHint,
                StreamDown, hubRest, ctlVars, boundVars, vars
  <2> QED BY <1>t, <2>1, OrderKept
<1>3. ASSUME NEW t \in Tasks, Tick(t) \/ Hinted(t) \/ FetchFails(t)
      PROVE  Runs' /\ Ordered' /\ AnswersCached'
  <2>1. UNCHANGED <<held, restarts, version, cache>>
    BY <1>3 DEF Tick, Hinted, FetchFails, fetchRest, ctlVars, boundVars
  <2>2. PICK rec : Put(t, rec) /\ rec.pc \in {"idle", "request"}
    <3>1. Idle.pc = "idle" /\ [Idle EXCEPT !.pc = "request", !.known = Known].pc = "request"
      BY DEF Idle
    <3> QED BY <1>3, <3>1 DEF Tick, Hinted, Start, FetchFails, Put
  <2>3. \A u \in Tasks : fetch'[u] = fetch[u] \/ fetch'[u].pc \in {"idle", "request"}
    BY <1>t, <2>2 DEF Put, TypeInv, TypeOK
  <2> QED BY <1>t, <2>1, <2>3, OrderKept
<1>4. CASE ControllerRestarts
  <2>1. /\ cache' = NoSnapshot /\ held' = held /\ restarts' = restarts + 1
        /\ \A t \in Tasks : fetch'[t].pc = "idle"
    BY <1>4, IdleType DEF ControllerRestarts
  <2>2. held # NoSnapshot => held.run <= restarts
    BY DEF OrderInv, Runs
  <2>3. held # NoSnapshot => held.run <= restarts' /\ held.run # restarts'
    BY <1>t, <2>1, <2>2
  <2> QED BY <2>1, <2>3 DEF Runs, Ordered, HeldCurrent, AnswersCached
<1> QED BY <1>1, <1>2, <1>3, <1>4, ServeOrder, StoreOrder DEF Next, Announce

\* The client never goes back to an older snapshot of the same controller
\* process, whichever task fetches and however the compiles overlap
\* (fetch_and_store_transport, GetOrCompile).
THEOREM ClientNeverBackwards == Spec => NeverBackwards
<1> DEFINE Forward == held # NoSnapshot /\ held'.run = held.run => held'.version >= held.version
<1>1. Init => OrderInv
  <2> SUFFICES ASSUME Init PROVE Runs /\ Ordered /\ AnswersCached
    BY TypeInit DEF OrderInv
  <2>1. \A t \in Tasks : fetch[t].pc = "idle"
    BY IdleType DEF Init
  <2> QED BY <2>1 DEF Init, Runs, Ordered, HeldCurrent, AnswersCached
<1>2. OrderInv /\ [Next]_vars => [Forward]_vars
  <2> SUFFICES ASSUME OrderInv, Next, held # NoSnapshot, held'.run = held.run
               PROVE  held'.version >= held.version
    OBVIOUS
  <2>1. held.version \in Nat
    BY VersionTypes DEF OrderInv
  <2>2. ASSUME NEW t \in Tasks, Store(t) PROVE held'.version >= held.version
    <3>1. fetch[t].pc = "reply" /\ held' \in {held, fetch[t].snap}
      BY <2>2 DEF Store
    <3>2. /\ fetch[t].snap.run = restarts /\ fetch[t].snap.version \in Nat
          /\ HeldCurrent => held.version <= fetch[t].snap.version
      BY <3>1, VersionTypes DEF OrderInv, Runs, Ordered
    <3> QED BY <2>1, <3>1, <3>2 DEF HeldCurrent
  <2>3. CASE ~\E t \in Tasks : Store(t)
    <3>1. held' = held
      BY <2>3 DEF Next, Announce, Commit, Bump, Invalidate, Notify, Open, FirstHint, Woken,
                  ChangeHint, Heartbeat, Send, HandlerEnds, ReadHint, StreamDown, Tick, Hinted,
                  Serve, Get, ReadRows, ReadVersion, SetIfEpoch, FetchFails, ControllerRestarts,
                  hubRest, fetchRest, serveRest
    <3> QED BY <2>1, <3>1
  <2> QED BY <2>2, <2>3
<1> QED BY <1>1, <1>2, OrderStep, PTL DEF Spec, NeverBackwards
=============================================================================
