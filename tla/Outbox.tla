------------------------------- MODULE Outbox -------------------------------
(***************************************************************************)
(* The durable outbox of the controller (controller/internal/outbox).      *)
(*                                                                         *)
(* Producers insert a row of table outbox_events in their own transaction. *)
(* Every controller replica runs a Processor: a claim loop, which leases   *)
(* due rows and hands them one by one to their handler, and a reaper loop, *)
(* which takes rows back whose lease is older than the lock window.  The   *)
(* replicas share nothing but the table; every statement on the table is   *)
(* atomic and a replica may stop between any two of them.                  *)
(*                                                                         *)
(* Time is abstracted to what the WHERE clauses can tell: a row's          *)
(* next_attempt_at is NULL, past ("now") or future ("later"), and its      *)
(* claimed_at is NULL, inside ("fresh") or beyond ("expired") the window.  *)
(* A lease is the number of the claim that issued it: gen_random_uuid()    *)
(* never repeats, and every statement matches the lease together with the  *)
(* event id.                                                               *)
(***************************************************************************)
EXTENDS Naturals, FiniteSets

CONSTANTS
    Events,         \* rows that producers may insert
    Unhandled,      \* those whose event_type has no registered handler
    Processors,     \* the running Processors, one per controller replica
    MaxRetries,     \* retryPolicy.MaxRetries
    BatchSize,      \* limit of a claim
    MaxFaults,      \* bound: crashes and failed statements
    MaxRecoveries   \* bound: operator recoveries

ASSUME ConstantsAssumption ==
    /\ Unhandled \subseteq Events
    /\ MaxRetries \in Nat \ {0}
    /\ BatchSize \in Nat \ {0}
    /\ MaxFaults \in Nat
    /\ MaxRecoveries \in Nat

VARIABLES
    row,        \* table outbox_events
    claims,     \* claims[e]: leases issued for e so far
    batch,      \* batch[p]: jobs claimed by p and not yet dispatched
    cur,        \* cur[p]: what p's claim loop is doing
    scan,       \* scan[p]: expired leases p's reaper has found
    faults,     \* faults so far
    \* The variables below only record history.
    applied,    \* events whose handler has returned nil
    resets,     \* resets[e]: times an operator reset e's retry budget
    recoveries  \* operator recoveries so far

vars == <<row, claims, batch, cur, scan, faults, applied, resets, recoveries>>

-----------------------------------------------------------------------------
(* Types *)

NoLease == 0
Lease == Nat \ {NoLease}

Row == [status  : {"absent", "pending", "processing", "done", "failed"},
        retry   : Nat,
        next    : {"null", "now", "later"},
        lease   : Nat,
        claimed : {"null", "fresh", "expired"}]

\* A job is a claimed row in a processor's memory; a sighting is a row of the
\* reaper's SELECT.
Job == [id : Events, lease : Lease]
Sighting == [id : Events, lease : Nat, retry : Nat]

\* Phases of processEvent: the handler runs, then the outcome is persisted.
Phase == {"handling", "succeeded", "unhandled", "erred", "marking"}
Idle == [phase |-> "idle"]
Busy == [phase : Phase, id : Events, lease : Lease, retry : Nat]

TypeOK ==
    /\ row \in [Events -> Row]
    /\ claims \in [Events -> Nat]
    /\ batch \in [Processors -> SUBSET Job]
    /\ cur \in [Processors -> Busy \cup {Idle}]
    /\ scan \in [Processors -> SUBSET Sighting]
    /\ faults \in Nat
    /\ applied \in SUBSET Events
    /\ resets \in [Events -> Nat]
    /\ recoveries \in Nat

-----------------------------------------------------------------------------
(* Helpers *)

\* Faults for the mutants: a claim that forgets the retry limit, and one that
\* forgets the failed rows.
ClaimableForever(e) ==
    /\ row[e].status \in {"pending", "failed"}
    /\ row[e].next = "now"

ClaimablePendingOnly(e) ==
    /\ row[e].status = "pending"
    /\ row[e].next = "now"

\* Rows the SELECT of ClaimEvents takes.
Claimable(e) ==
    /\ \/ row[e].status = "pending"
       \/ row[e].status = "failed" /\ row[e].retry < MaxRetries
    /\ row[e].next = "now"

\* Fault: one lease for all claims of an event.
FixedLease(e) == 1

\* gen_random_uuid() in the claiming UPDATE.
NewLease(e) == claims[e] + 1

\* Fault: the outcome of any worker is taken.
HoldsAnyLease(e, l) == row[e].status = "processing"

\* The WHERE clause of every statement that gives a lease back.
HoldsLease(e, l) == row[e].lease = l /\ row[e].status = "processing"

\* Fault: gives up one attempt early.
nextAttemptAtOffByOne(n) == IF n + 1 >= MaxRetries THEN "null" ELSE "later"

nextAttemptAt(n) == IF n >= MaxRetries THEN "null" ELSE "later"

\* A row taken by a claim: next_attempt_at keeps its value.
Leased(r, l) ==
    [r EXCEPT !.status = "processing", !.lease = l, !.claimed = "fresh"]

\* Fault: a status of its own for dead letters, which the table's CHECK refuses.
FailedDead(r, retry, next) ==
    [r EXCEPT !.status = IF next = "null" THEN "dead" ELSE "failed",
              !.retry = retry, !.next = next, !.lease = NoLease, !.claimed = "null"]

\* A row whose lease is given up as failed.
Failed(r, retry, next) ==
    [r EXCEPT !.status = "failed", !.retry = retry, !.next = next,
              !.lease = NoLease, !.claimed = "null"]

-----------------------------------------------------------------------------
(* Producers and time *)

Init ==
    /\ row = [e \in Events |-> [status |-> "absent", retry |-> 0,
                                next |-> "null", lease |-> NoLease,
                                claimed |-> "null"]]
    /\ claims = [e \in Events |-> 0]
    /\ batch = [p \in Processors |-> {}]
    /\ cur = [p \in Processors |-> Idle]
    /\ scan = [p \in Processors |-> {}]
    /\ faults = 0
    /\ applied = {}
    /\ resets = [e \in Events |-> 0]
    /\ recoveries = 0

\* The producer's transaction commits with the inserted row in it.
Enqueue(e) ==
    /\ row[e].status = "absent"
    /\ row' = [row EXCEPT ![e] = [@ EXCEPT !.status = "pending", !.next = "now"]]
    /\ UNCHANGED <<claims, batch, cur, scan, faults, applied, resets, recoveries>>

\* next_attempt_at comes to lie in the past.
BackoffElapses(e) ==
    /\ row[e].next = "later"
    /\ row' = [row EXCEPT ![e] = [@ EXCEPT !.next = "now"]]
    /\ UNCHANGED <<claims, batch, cur, scan, faults, applied, resets, recoveries>>

\* claimed_at comes to lie before the reaper's cutoff.
LockWindowElapses(e) ==
    /\ row[e].claimed = "fresh"
    /\ row' = [row EXCEPT ![e] = [@ EXCEPT !.claimed = "expired"]]
    /\ UNCHANGED <<claims, batch, cur, scan, faults, applied, resets, recoveries>>

-----------------------------------------------------------------------------
(* The claim loop *)

\* One statement: FOR UPDATE SKIP LOCKED inside the UPDATE.  Which due rows a
\* claim takes depends on timestamps and on locks held by other sessions, so
\* any of them may be taken; the order of RETURNING is not specified.
ClaimEvents(p) ==
    /\ cur[p] = Idle /\ batch[p] = {}
    /\ \E B \in SUBSET {e \in Events : Claimable(e)} :
         /\ B # {} /\ Cardinality(B) <= BatchSize
         /\ row' = [e \in Events |->
                      IF e \in B THEN Leased(row[e], NewLease(e)) ELSE row[e]]
         /\ claims' = [e \in Events |-> IF e \in B THEN claims[e] + 1 ELSE claims[e]]
         /\ batch' = [batch EXCEPT ![p] = {[id |-> e, lease |-> NewLease(e)] : e \in B}]
    /\ UNCHANGED <<cur, scan, faults, applied, resets, recoveries>>

\* processEvent takes the next job of the batch; nothing checks that its lease
\* is still the row's.
StartEvent(p) ==
    /\ cur[p] = Idle
    /\ \E j \in batch[p] :
         /\ batch' = [batch EXCEPT ![p] = @ \ {j}]
         /\ cur' = [cur EXCEPT ![p] = [phase |-> "handling", id |-> j.id,
                                       lease |-> j.lease, retry |-> 0]]
    /\ UNCHANGED <<row, claims, scan, faults, applied, resets, recoveries>>

\* Fault: an event without a handler counts as handled.
OutcomesSkipUnknown(e) ==
    IF e \in Unhandled THEN {"succeeded"} ELSE {"succeeded", "erred"}

\* Dispatch resolves the handler and runs it: ErrNoHandler, nil, or an error.
Outcomes(e) == IF e \in Unhandled THEN {"unhandled"} ELSE {"succeeded", "erred"}

\* The handler's effect is committed before Dispatch returns nil.
Dispatch(p) ==
    /\ cur[p].phase = "handling"
    /\ \E outcome \in Outcomes(cur[p].id) :
         /\ cur' = [cur EXCEPT ![p].phase = outcome]
         /\ applied' = IF outcome = "succeeded" THEN applied \cup ({cur[p].id} \ Unhandled)
                       ELSE applied
    /\ UNCHANGED <<row, claims, batch, scan, faults, resets, recoveries>>

\* One guarded UPDATE; no row matched is ErrStaleLease.  Either way the loop
\* goes on to the next job.
MarkDone(p) ==
    /\ cur[p].phase = "succeeded"
    /\ row' = IF HoldsLease(cur[p].id, cur[p].lease)
              THEN [row EXCEPT ![cur[p].id] =
                       [@ EXCEPT !.status = "done", !.lease = NoLease, !.claimed = "null"]]
              ELSE row
    /\ cur' = [cur EXCEPT ![p] = Idle]
    /\ UNCHANGED <<claims, batch, scan, faults, applied, resets, recoveries>>

MarkFailedTerminal(p) ==
    /\ cur[p].phase = "unhandled"
    /\ row' = IF HoldsLease(cur[p].id, cur[p].lease)
              THEN [row EXCEPT ![cur[p].id] = Failed(@, MaxRetries, "null")]
              ELSE row
    /\ cur' = [cur EXCEPT ![p] = Idle]
    /\ UNCHANGED <<claims, batch, scan, faults, applied, resets, recoveries>>

\* MarkFailed is two statements: read retry_count under the lease ...
MarkFailedRead(p) ==
    /\ cur[p].phase = "erred"
    /\ cur' = IF HoldsLease(cur[p].id, cur[p].lease)
              THEN [cur EXCEPT ![p].phase = "marking",
                               ![p].retry = row[cur[p].id].retry]
              ELSE [cur EXCEPT ![p] = Idle]
    /\ UNCHANGED <<row, claims, batch, scan, faults, applied, resets, recoveries>>

\* ... then increment the row's own count, with the time computed from the
\* count that was read.
MarkFailedUpdate(p) ==
    /\ cur[p].phase = "marking"
    /\ row' = IF HoldsLease(cur[p].id, cur[p].lease)
              THEN [row EXCEPT ![cur[p].id] =
                       Failed(@, @.retry + 1, nextAttemptAt(cur[p].retry + 1))]
              ELSE row
    /\ cur' = [cur EXCEPT ![p] = Idle]
    /\ UNCHANGED <<claims, batch, scan, faults, applied, resets, recoveries>>

\* The statement that should persist the outcome fails: logged, row untouched.
MarkStatementFails(p) ==
    /\ faults < MaxFaults
    /\ cur[p].phase \in {"succeeded", "unhandled", "erred", "marking"}
    /\ cur' = [cur EXCEPT ![p] = Idle]
    /\ faults' = faults + 1
    /\ UNCHANGED <<row, claims, batch, scan, applied, resets, recoveries>>

-----------------------------------------------------------------------------
(* The reaper loop *)

ReapScan(p) ==
    /\ scan[p] = {}
    /\ LET found == {e \in Events : /\ row[e].status = "processing"
                                    /\ row[e].claimed = "expired"}
       IN  /\ found # {}
           /\ scan' = [scan EXCEPT ![p] =
                {[id |-> e, lease |-> row[e].lease, retry |-> row[e].retry] : e \in found}]
    /\ UNCHANGED <<row, claims, batch, cur, faults, applied, resets, recoveries>>

\* The guarded UPDATE of one sighting.
ReapUpdate(p) ==
    /\ \E s \in scan[p] :
         /\ scan' = [scan EXCEPT ![p] = @ \ {s}]
         /\ row' = IF HoldsLease(s.id, s.lease)
                   THEN [row EXCEPT ![s.id] =
                            Failed(@, @.retry + 1, nextAttemptAt(s.retry + 1))]
                   ELSE row
    /\ UNCHANGED <<claims, batch, cur, faults, applied, resets, recoveries>>

\* An error ends the pass; what is left is found again by the next scan.
ReapStatementFails(p) ==
    /\ faults < MaxFaults
    /\ scan[p] # {}
    /\ scan' = [scan EXCEPT ![p] = {}]
    /\ faults' = faults + 1
    /\ UNCHANGED <<row, claims, batch, cur, applied, resets, recoveries>>

-----------------------------------------------------------------------------
(* Crashes and operators *)

\* The replica stops (or its context is cancelled) and starts again: what it
\* held in memory is gone, its rows keep their leases.
Restart(p) ==
    /\ faults < MaxFaults
    /\ \/ cur[p] # Idle \/ batch[p] # {} \/ scan[p] # {}
    /\ cur' = [cur EXCEPT ![p] = Idle]
    /\ batch' = [batch EXCEPT ![p] = {}]
    /\ scan' = [scan EXCEPT ![p] = {}]
    /\ faults' = faults + 1
    /\ UNCHANGED <<row, claims, applied, resets, recoveries>>

\* Recover: one transaction holding the row's lock.  Rejected unless the event
\* is terminally failed.
Recover(e, resetRetryBudget) ==
    /\ recoveries < MaxRecoveries
    /\ row[e].status = "failed" /\ row[e].retry >= MaxRetries
    /\ row' = [row EXCEPT ![e] = Failed(@, IF resetRetryBudget THEN 0 ELSE @.retry, "now")]
    /\ resets' = IF resetRetryBudget THEN [resets EXCEPT ![e] = @ + 1] ELSE resets
    /\ recoveries' = recoveries + 1
    /\ UNCHANGED <<claims, batch, cur, scan, faults, applied>>

-----------------------------------------------------------------------------
(* Specification *)

ClaimLoop(p) ==
    \/ ClaimEvents(p) \/ StartEvent(p) \/ Dispatch(p)
    \/ MarkDone(p) \/ MarkFailedTerminal(p)
    \/ MarkFailedRead(p) \/ MarkFailedUpdate(p)

ReaperLoop(p) == ReapScan(p) \/ ReapUpdate(p)

Fault(p) == MarkStatementFails(p) \/ ReapStatementFails(p) \/ Restart(p)

Time(e) == BackoffElapses(e) \/ LockWindowElapses(e)

Next ==
    \/ \E e \in Events : Enqueue(e) \/ Time(e)
    \/ \E e \in Events, reset \in BOOLEAN : Recover(e, reset)
    \/ \E p \in Processors : ClaimLoop(p) \/ ReaperLoop(p) \/ Fault(p)

Spec == Init /\ [][Next]_vars

\* Tickers drive both loops, statements return, handlers return and time
\* passes; nothing makes a producer, an operator or a fault happen.
Fairness ==
    /\ \A p \in Processors : WF_vars(ClaimLoop(p)) /\ WF_vars(ReaperLoop(p))
    /\ \A e \in Events : WF_vars(Time(e))

FairSpec == Spec /\ Fairness

-----------------------------------------------------------------------------
(* Properties *)

Terminal(e) == row[e].status = "failed" /\ row[e].retry >= MaxRetries

\* p carries lease l of event e, waiting in its batch or being handled.
Carries(p, e, l) ==
    \/ [id |-> e, lease |-> l] \in batch[p]
    \/ cur[p] # Idle /\ cur[p].id = e /\ cur[p].lease = l

\* While a row is processing, at most one replica carries the lease that the
\* row shows: the guarded statements of a second one are no-ops, whatever was
\* reaped, reclaimed or finished late in between.
OneOwner ==
    \A e \in Events : row[e].status = "processing" =>
        \A p, q \in Processors :
            Carries(p, e, row[e].lease) /\ Carries(q, e, row[e].lease) => p = q

\* A row with retry budget left always has a time for its next attempt.  Both
\* MarkFailed and the reaper write a next_attempt_at computed from a count they
\* read in an earlier statement; a stale count would leave NULL on a row no
\* claim and no Recover ever takes again.
NoStrandedRow ==
    \A e \in Events :
        \/ row[e].status = "pending"
        \/ row[e].status = "failed" /\ row[e].retry < MaxRetries
        => row[e].next # "null"

\* MarkDone is only reached through a handler that returned nil, even when the
\* lease was lost and reissued meanwhile.
DoneWasApplied ==
    \A e \in Events : row[e].status = "done" => e \in applied

\* The configured limit bounds the attempts (claims) of an event: only an
\* explicit budget reset by an operator buys MaxRetries more, a crash, a reaped
\* lease or a recovery without reset buys none.
AttemptsWithinBudget ==
    \A e \in Events : claims[e] <= MaxRetries * (1 + resets[e])

\* A lease inside its lock window ends only by a statement of the replica that
\* carries it: neither a reaper that scanned an older lease nor a worker that
\* lost one can take the row away from its present owner.
FreshLeaseIsSafe ==
    [][\A e \in Events :
         row[e].claimed = "fresh" /\ row'[e].lease # row[e].lease =>
            \E p \in Processors :
                /\ cur[p].phase \in {"succeeded", "unhandled", "marking"}
                /\ cur[p].id = e /\ cur[p].lease = row[e].lease]_vars

\* done is final: no late failure, reaper pass or recovery reopens the event.
DoneIsFinal ==
    [][\A e \in Events : row[e].status = "done" => row'[e].status = "done"]_vars

\* Every event that a producer committed is handled or ends as a dead letter,
\* through any finite number of crashes and failed statements.
EventuallySettled ==
    \A e \in Events :
        row[e].status # "absent" ~> (row[e].status = "done" \/ Terminal(e))

\* Sprint 18 on Recover: it "clears lease fields, schedules one attempt;
\* preserves retry count unless resetRetryBudget is explicitly authorized".  A
\* scheduled attempt is made.
RecoveredIsAttempted ==
    \A e \in Events :
        row[e].status = "failed" /\ row[e].next = "now" ~> row[e].status = "processing"

-----------------------------------------------------------------------------
(* The inductive invariant behind the properties above *)

\* A row has a lease exactly while it is processing, and it is one that a
\* claim of this event has issued.
LeaseShape ==
    \A e \in Events :
        /\ row[e].status = "processing" <=> row[e].lease # NoLease
        /\ row[e].status = "processing" <=> row[e].claimed # "null"
        /\ row[e].lease <= claims[e]

\* What replicas and reapers remember are issued leases.
LeasesIssued ==
    \A p \in Processors :
        /\ \A j \in batch[p] : j.lease <= claims[j.id]
        /\ cur[p] # Idle => cur[p].lease <= claims[cur[p].id]
        /\ \A s \in scan[p] : s.lease <= claims[s.id]

\* A lease is carried by one replica for good, also after it was lost.
LeaseUnique ==
    \A p, q \in Processors, e \in Events, l \in Lease :
        Carries(p, e, l) /\ Carries(q, e, l) => p = q

\* The retry count does not move while a lease is held, so what a worker or a
\* reaper read under it is still right when its UPDATE matches; and a lease
\* that was seen expired stays expired.
ReadsAreCurrent ==
    \A p \in Processors :
        /\ cur[p].phase = "marking" /\ HoldsLease(cur[p].id, cur[p].lease)
              => cur[p].retry = row[cur[p].id].retry
        /\ \A s \in scan[p] : HoldsLease(s.id, s.lease)
              => s.retry = row[s.id].retry /\ row[s.id].claimed = "expired"

\* Every claim is paid for by a retry or is the one that is running or done.
Budget ==
    \A e \in Events :
        /\ row[e].retry <= MaxRetries
        /\ row[e].status \in {"absent", "pending"} => row[e].retry = 0
        /\ row[e].status \in {"processing", "done"} => row[e].retry < MaxRetries
        /\ claims[e] <= MaxRetries * resets[e] + row[e].retry
                          + (IF row[e].status \in {"processing", "done"} THEN 1 ELSE 0)

SuccessWasApplied ==
    \A p \in Processors : cur[p].phase = "succeeded" => cur[p].id \in applied

LeaseInv ==
    /\ TypeOK /\ LeaseShape /\ LeasesIssued /\ LeaseUnique /\ ReadsAreCurrent
    /\ Budget /\ NoStrandedRow /\ SuccessWasApplied /\ DoneWasApplied
=============================================================================
