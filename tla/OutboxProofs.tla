---------------------------- MODULE OutboxProofs ----------------------------
(***************************************************************************)
(* Proofs about the outbox, for every set of events and replicas, every    *)
(* retry limit, batch size and number of faults and recoveries.            *)
(***************************************************************************)
EXTENDS Outbox, TLAPS

-----------------------------------------------------------------------------
(* Type correctness *)

\* A replica in a phase carries a job.
LEMMA IdleIsNotBusy ==
    ASSUME TypeOK, NEW p \in Processors, cur[p].phase \in Phase
    PROVE  cur[p] \in Busy /\ cur[p] # Idle
BY DEF TypeOK, Busy, Idle, Phase

\* The row MarkFailed and Recover write is a row.
LEMMA FailedType ==
    ASSUME NEW r \in Row, NEW n \in Nat, NEW t \in {"null", "now", "later"}
    PROVE  Failed(r, n, t) \in Row
BY DEF Failed, Row, NoLease

\* The row ClaimEvents writes is a row.
LEMMA LeasedType ==
    ASSUME NEW r \in Row, NEW l \in Nat
    PROVE  Leased(r, l) \in Row
BY DEF Leased, Row

\* nextAttemptAt yields NULL or a time.
LEMMA NextAttemptType ==
    ASSUME NEW n \in Nat
    PROVE  nextAttemptAt(n) \in {"null", "now", "later"}
BY DEF nextAttemptAt

\* Every step keeps the outbox well typed.
LEMMA TypeStep == TypeOK /\ [Next]_vars => TypeOK'
<1> SUFFICES ASSUME TypeOK, [Next]_vars PROVE TypeOK'
  OBVIOUS
<1> USE ConstantsAssumption
<1>1. ASSUME NEW e \in Events, Enqueue(e) PROVE TypeOK'
  <2>1. [row[e] EXCEPT !.status = "pending", !.next = "now"] \in Row
    BY DEF TypeOK, Row
  <2>2. row' \in [Events -> Row]
    BY <1>1, <2>1 DEF TypeOK, Enqueue
  <2> QED BY <1>1, <2>2 DEF TypeOK, Enqueue
<1>2. ASSUME NEW e \in Events, Time(e) PROVE TypeOK'
  <2>1. /\ [row[e] EXCEPT !.next = "now"] \in Row
        /\ [row[e] EXCEPT !.claimed = "expired"] \in Row
    BY DEF TypeOK, Row
  <2>2. row' \in [Events -> Row]
    BY <1>2, <2>1 DEF TypeOK, Time, BackoffElapses, LockWindowElapses
  <2> QED BY <1>2, <2>2 DEF TypeOK, Time, BackoffElapses, LockWindowElapses
<1>3. ASSUME NEW e \in Events, NEW reset \in BOOLEAN, Recover(e, reset) PROVE TypeOK'
  <2>1. row[e] \in Row /\ (IF reset THEN 0 ELSE row[e].retry) \in Nat
    BY DEF TypeOK, Row
  <2>2. Failed(row[e], IF reset THEN 0 ELSE row[e].retry, "now") \in Row
    BY <2>1, FailedType
  <2>3. row' \in [Events -> Row]
    BY <1>3, <2>2 DEF TypeOK, Recover
  <2>4. resets' \in [Events -> Nat]
    BY <1>3 DEF TypeOK, Recover
  <2> QED BY <1>3, <2>3, <2>4 DEF TypeOK, Recover
<1>4. ASSUME NEW p \in Processors, ClaimEvents(p) PROVE TypeOK'
  <2>1. PICK B \in SUBSET Events :
           /\ row' = [e \in Events |->
                        IF e \in B THEN Leased(row[e], NewLease(e)) ELSE row[e]]
           /\ claims' = [e \in Events |-> IF e \in B THEN claims[e] + 1 ELSE claims[e]]
           /\ batch' = [batch EXCEPT ![p] = {[id |-> e, lease |-> NewLease(e)] : e \in B}]
    BY <1>4 DEF ClaimEvents
  <2> DEFINE cl == [e \in Events |-> IF e \in B THEN claims[e] + 1 ELSE claims[e]]
  <2>2a. \A e \in Events : claims[e] + 1 \in Nat /\ row[e] \in Row
    BY DEF TypeOK
  <2>2b. \A e \in Events : Leased(row[e], NewLease(e)) \in Row
    BY <2>2a, LeasedType DEF NewLease
  <2>2. row' \in [Events -> Row]
    BY <2>1, <2>2a, <2>2b
  <2>3a. cl \in [Events -> Nat]
    BY DEF TypeOK
  <2>3. claims' \in [Events -> Nat]
    BY <2>1, <2>3a
  <2>4. {[id |-> e, lease |-> NewLease(e)] : e \in B} \in SUBSET Job
    BY DEF TypeOK, Job, Lease, NoLease, NewLease
  <2>5. batch' \in [Processors -> SUBSET Job]
    BY <2>1, <2>4 DEF TypeOK
  <2> QED BY <1>4, <2>2, <2>3, <2>5 DEF TypeOK, ClaimEvents
<1>5. ASSUME NEW p \in Processors, StartEvent(p) PROVE TypeOK'
  <2>1. PICK j \in batch[p] :
           /\ batch' = [batch EXCEPT ![p] = @ \ {j}]
           /\ cur' = [cur EXCEPT ![p] = [phase |-> "handling", id |-> j.id,
                                         lease |-> j.lease, retry |-> 0]]
    BY <1>5 DEF StartEvent
  <2>2. j \in Job
    BY DEF TypeOK
  <2>3. [phase |-> "handling", id |-> j.id, lease |-> j.lease, retry |-> 0] \in Busy
    BY <2>2 DEF Job, Busy, Phase
  <2>4. cur' \in [Processors -> Busy \cup {Idle}]
    BY <2>1, <2>3 DEF TypeOK
  <2>5. batch' \in [Processors -> SUBSET Job]
    BY <2>1 DEF TypeOK
  <2> QED BY <1>5, <2>4, <2>5 DEF TypeOK, StartEvent
<1>6. ASSUME NEW p \in Processors, Dispatch(p) PROVE TypeOK'
  <2>1. cur[p] \in Busy
    BY <1>6, IdleIsNotBusy DEF Dispatch, Phase
  <2>2. PICK o \in {"unhandled", "succeeded", "erred"} :
           /\ cur' = [cur EXCEPT ![p].phase = o]
           /\ applied' = IF o = "succeeded" THEN applied \cup ({cur[p].id} \ Unhandled)
                         ELSE applied
    BY <1>6 DEF Dispatch, Outcomes
  <2>3. [cur[p] EXCEPT !.phase = o] \in Busy
    BY <2>1 DEF Busy, Phase
  <2>4. cur' \in [Processors -> Busy \cup {Idle}]
    BY <2>2, <2>3 DEF TypeOK
  <2>5. applied' \in SUBSET Events
    BY <2>1, <2>2 DEF TypeOK, Busy
  <2> QED BY <1>6, <2>4, <2>5 DEF TypeOK, Dispatch
<1>7. ASSUME NEW p \in Processors, MarkDone(p) PROVE TypeOK'
  <2>1. cur[p].id \in Events /\ row[cur[p].id] \in Row
    BY <1>7, IdleIsNotBusy DEF MarkDone, Phase, Busy, TypeOK
  <2>2. [row[cur[p].id] EXCEPT !.status = "done", !.lease = NoLease, !.claimed = "null"] \in Row
    BY <2>1 DEF Row, NoLease
  <2>3. row' \in [Events -> Row]
    BY <1>7, <2>2 DEF TypeOK, MarkDone
  <2> QED BY <1>7, <2>3 DEF TypeOK, MarkDone
<1>8. ASSUME NEW p \in Processors, MarkFailedTerminal(p) PROVE TypeOK'
  <2>1. cur[p].id \in Events /\ row[cur[p].id] \in Row
    BY <1>8, IdleIsNotBusy DEF MarkFailedTerminal, Phase, Busy, TypeOK
  <2>2. Failed(row[cur[p].id], MaxRetries, "null") \in Row
    BY <2>1, FailedType
  <2>3. row' \in [Events -> Row]
    BY <1>8, <2>2 DEF TypeOK, MarkFailedTerminal
  <2> QED BY <1>8, <2>3 DEF TypeOK, MarkFailedTerminal
<1>9. ASSUME NEW p \in Processors, MarkFailedRead(p) PROVE TypeOK'
  <2>1. cur[p] \in Busy /\ row[cur[p].id] \in Row
    BY <1>9, IdleIsNotBusy DEF MarkFailedRead, Phase, Busy, TypeOK
  <2>2. [cur[p] EXCEPT !.phase = "marking", !.retry = row[cur[p].id].retry] \in Busy
    BY <2>1 DEF Busy, Phase, Row
  <2>3. cur' \in [Processors -> Busy \cup {Idle}]
    BY <1>9, <2>2 DEF TypeOK, MarkFailedRead
  <2> QED BY <1>9, <2>3 DEF TypeOK, MarkFailedRead
<1>10. ASSUME NEW p \in Processors, MarkFailedUpdate(p) PROVE TypeOK'
  <2>1. cur[p] \in Busy /\ row[cur[p].id] \in Row
    BY <1>10, IdleIsNotBusy DEF MarkFailedUpdate, Phase, Busy, TypeOK
  <2>2. cur[p].retry + 1 \in Nat /\ row[cur[p].id].retry + 1 \in Nat
    BY <2>1 DEF Busy, Row
  <2>3. Failed(row[cur[p].id], row[cur[p].id].retry + 1,
               nextAttemptAt(cur[p].retry + 1)) \in Row
    BY <2>1, <2>2, FailedType, NextAttemptType
  <2>4. row' \in [Events -> Row]
    BY <1>10, <2>3 DEF TypeOK, MarkFailedUpdate
  <2> QED BY <1>10, <2>4 DEF TypeOK, MarkFailedUpdate
<1>11. ASSUME NEW p \in Processors, ReapScan(p) PROVE TypeOK'
  <2>1. PICK F \in SUBSET Events : scan' = [scan EXCEPT ![p] =
          {[id |-> e, lease |-> row[e].lease, retry |-> row[e].retry] : e \in F}]
    BY <1>11 DEF ReapScan
  <2>2. {[id |-> e, lease |-> row[e].lease, retry |-> row[e].retry] : e \in F}
           \in SUBSET Sighting
    BY DEF TypeOK, Row, Sighting
  <2>3. scan' \in [Processors -> SUBSET Sighting]
    BY <2>1, <2>2 DEF TypeOK
  <2> QED BY <1>11, <2>3 DEF TypeOK, ReapScan
<1>12. ASSUME NEW p \in Processors, ReapUpdate(p) PROVE TypeOK'
  <2>1. PICK s \in scan[p] :
         /\ scan' = [scan EXCEPT ![p] = @ \ {s}]
         /\ row' = IF HoldsLease(s.id, s.lease)
                   THEN [row EXCEPT ![s.id] =
                            Failed(@, @.retry + 1, nextAttemptAt(s.retry + 1))]
                   ELSE row
    BY <1>12 DEF ReapUpdate
  <2>2. s \in Sighting /\ row[s.id] \in Row
    BY DEF TypeOK, Sighting
  <2>3. s.retry + 1 \in Nat /\ row[s.id].retry + 1 \in Nat
    BY <2>2 DEF Sighting, Row
  <2>4. Failed(row[s.id], row[s.id].retry + 1, nextAttemptAt(s.retry + 1)) \in Row
    BY <2>2, <2>3, FailedType, NextAttemptType
  <2>5. row' \in [Events -> Row]
    BY <2>1, <2>4 DEF TypeOK
  <2>6. scan' \in [Processors -> SUBSET Sighting]
    BY <2>1 DEF TypeOK
  <2> QED BY <1>12, <2>5, <2>6 DEF TypeOK, ReapUpdate
<1>13. ASSUME NEW p \in Processors, Fault(p) PROVE TypeOK'
  BY <1>13 DEF TypeOK, Fault, MarkStatementFails, ReapStatementFails, Restart
<1>14. CASE UNCHANGED vars
  BY <1>14 DEF TypeOK, vars
<1> QED BY <1>1, <1>2, <1>3, <1>4, <1>5, <1>6, <1>7, <1>8, <1>9, <1>10,
           <1>11, <1>12, <1>13, <1>14 DEF Next, ClaimLoop, ReaperLoop

\* Every reachable state of the outbox is well typed: rows, leases and what the
\* replicas hold in memory keep their shapes through every statement.
THEOREM TypeCorrect == Spec => []TypeOK
<1>1. Init => TypeOK
  BY ConstantsAssumption DEF Init, TypeOK, Row, NoLease
<1> QED BY <1>1, TypeStep, PTL DEF Spec

-----------------------------------------------------------------------------
(* The lease invariant *)

\* The lease invariant holds of the empty outbox.
LEMMA LeaseInit == Init => LeaseInv
<1> SUFFICES ASSUME Init PROVE LeaseInv
  OBVIOUS
<1> USE ConstantsAssumption
<1>1. TypeOK
  BY DEF Init, TypeOK, Row, NoLease
<1>2. LeaseShape /\ LeasesIssued /\ ReadsAreCurrent
  BY DEF Init, LeaseShape, LeasesIssued, ReadsAreCurrent, NoLease, Idle
<1>3. LeaseUnique
  BY DEF Init, LeaseUnique, Carries
<1>4. Budget
  BY DEF Init, Budget
<1>5. NoStrandedRow /\ SuccessWasApplied /\ DoneWasApplied
  BY DEF Init, NoStrandedRow, SuccessWasApplied, DoneWasApplied, Idle
<1> QED BY <1>1, <1>2, <1>3, <1>4, <1>5 DEF LeaseInv

\* Every step keeps the lease invariant.
LEMMA LeaseStep == LeaseInv /\ [Next]_vars => LeaseInv'
<1> SUFFICES ASSUME LeaseInv, [Next]_vars PROVE LeaseInv'
  OBVIOUS
<1> USE ConstantsAssumption
<1>0. TypeOK /\ TypeOK'
  BY TypeStep DEF LeaseInv
<1> USE <1>0 DEF LeaseInv
<1>1. ASSUME NEW e \in Events, Enqueue(e) PROVE LeaseInv'
  <2>1. /\ row'[e].status = "pending" /\ row'[e].next = "now"
        /\ row'[e].retry = row[e].retry /\ row'[e].lease = row[e].lease
        /\ row'[e].claimed = row[e].claimed
        /\ \A d \in Events \ {e} : row'[d] = row[d]
    BY <1>1 DEF Enqueue, TypeOK, Row
  <2>2. LeaseShape' /\ ReadsAreCurrent'
    BY <1>1, <2>1 DEF Enqueue, LeaseShape, ReadsAreCurrent, HoldsLease
  <2>3. row[e].retry = 0
    BY <1>1 DEF Enqueue, Budget
  <2>4. Budget'
    BY <1>1, <2>1, <2>3 DEF Enqueue, Budget, TypeOK
  <2>5. NoStrandedRow' /\ DoneWasApplied'
    BY <1>1, <2>1 DEF Enqueue, NoStrandedRow, DoneWasApplied
  <2>6. LeasesIssued' /\ LeaseUnique' /\ SuccessWasApplied'
    BY <1>1 DEF Enqueue, LeasesIssued, LeaseUnique, Carries, SuccessWasApplied
  <2> QED BY <2>2, <2>4, <2>5, <2>6
<1>2. ASSUME NEW e \in Events, Time(e) PROVE LeaseInv'
  <2>1. /\ row'[e].status = row[e].status /\ row'[e].retry = row[e].retry
        /\ row'[e].lease = row[e].lease
        /\ row'[e].claimed \in {row[e].claimed, "expired"}
        /\ row'[e].claimed = "null" <=> row[e].claimed = "null"
        /\ row'[e].next \in {row[e].next, "now"}
        /\ \A d \in Events \ {e} : row'[d] = row[d]
    BY <1>2 DEF Time, BackoffElapses, LockWindowElapses, TypeOK, Row
  <2>2. UNCHANGED <<claims, batch, cur, scan, applied, resets>>
    BY <1>2 DEF Time, BackoffElapses, LockWindowElapses
  <2>3. LeaseShape'
    BY <2>1, <2>2 DEF LeaseShape
  <2>4. ReadsAreCurrent'
    BY <2>1, <2>2 DEF ReadsAreCurrent, HoldsLease, TypeOK, Sighting, Busy, Idle
  <2>5. Budget' /\ NoStrandedRow' /\ DoneWasApplied'
    BY <2>1, <2>2 DEF Budget, NoStrandedRow, DoneWasApplied
  <2>6. LeasesIssued' /\ LeaseUnique' /\ SuccessWasApplied'
    BY <2>2 DEF LeasesIssued, LeaseUnique, Carries, SuccessWasApplied
  <2> QED BY <2>3, <2>4, <2>5, <2>6
<1>3. ASSUME NEW e \in Events, NEW reset \in BOOLEAN, Recover(e, reset) PROVE LeaseInv'
  <2>1. /\ row'[e].status = "failed" /\ row'[e].next = "now"
        /\ row'[e].retry = (IF reset THEN 0 ELSE row[e].retry)
        /\ row'[e].lease = NoLease /\ row'[e].claimed = "null"
        /\ \A d \in Events \ {e} : row'[d] = row[d]
    BY <1>3 DEF Recover, Failed, TypeOK, Row
  <2>2. LeaseShape' /\ ReadsAreCurrent'
    BY <1>3, <2>1 DEF Recover, LeaseShape, ReadsAreCurrent, HoldsLease, TypeOK, NoLease
  <2>3. Budget'
    <3>1. \A d \in Events \ {e} : resets'[d] = resets[d] /\ claims'[d] = claims[d]
      BY <1>3 DEF Recover, TypeOK
    <3>2. claims[e] <= MaxRetries * resets[e] + row[e].retry /\ row[e].retry <= MaxRetries
      BY <1>3 DEF Recover, Budget, TypeOK, Row
    <3>3. claims'[e] <= MaxRetries * resets'[e] + row'[e].retry
      <4>1. CASE reset
        <5>1. MaxRetries * (resets[e] + 1) = MaxRetries * resets[e] + MaxRetries
          BY DEF TypeOK
        <5>2. MaxRetries * resets[e] \in Nat /\ row[e].retry \in Nat /\ claims[e] \in Nat
          BY DEF TypeOK, Row
        <5>3. claims'[e] = claims[e] /\ resets'[e] = resets[e] + 1 /\ row'[e].retry = 0
          BY <1>3, <2>1, <4>1 DEF Recover, TypeOK
        <5> QED BY <3>2, <5>1, <5>2, <5>3
      <4>2. CASE ~ reset
        BY <1>3, <2>1, <3>2, <4>2 DEF Recover
      <4> QED BY <4>1, <4>2
    <3>4. row'[e].retry <= MaxRetries
      BY <2>1, <3>2
    <3> QED BY <2>1, <3>1, <3>3, <3>4, SMTT(20) DEF Budget, TypeOK, Row
  <2>4. NoStrandedRow' /\ DoneWasApplied'
    BY <1>3, <2>1 DEF Recover, NoStrandedRow, DoneWasApplied
  <2>5. LeasesIssued' /\ LeaseUnique' /\ SuccessWasApplied'
    BY <1>3 DEF Recover, LeasesIssued, LeaseUnique, Carries, SuccessWasApplied
  <2> QED BY <2>2, <2>3, <2>4, <2>5
<1>4. ASSUME NEW p \in Processors, ClaimEvents(p) PROVE LeaseInv'
  <2>1. PICK B \in SUBSET {e \in Events : Claimable(e)} :
           /\ row' = [e \in Events |->
                        IF e \in B THEN Leased(row[e], NewLease(e)) ELSE row[e]]
           /\ claims' = [e \in Events |-> IF e \in B THEN claims[e] + 1 ELSE claims[e]]
           /\ batch' = [batch EXCEPT ![p] = {[id |-> e, lease |-> NewLease(e)] : e \in B}]
    BY <1>4 DEF ClaimEvents
  <2>2. /\ cur[p] = Idle /\ batch[p] = {}
        /\ UNCHANGED <<cur, scan, applied, resets>>
    BY <1>4 DEF ClaimEvents
  <2>3. \A e \in Events \ B : row'[e] = row[e] /\ claims'[e] = claims[e]
    BY <2>1
  <2>4. \A e \in B : /\ row'[e].status = "processing" /\ row'[e].claimed = "fresh"
                     /\ row'[e].lease = claims[e] + 1 /\ claims'[e] = claims[e] + 1
                     /\ row'[e].retry = row[e].retry
    <3>1. \A r \in Row, l \in Nat :
             /\ Leased(r, l).status = "processing" /\ Leased(r, l).claimed = "fresh"
             /\ Leased(r, l).lease = l /\ Leased(r, l).retry = r.retry
      BY DEF Leased, Row
    <3>2. \A e \in B : /\ row'[e] = Leased(row[e], claims[e] + 1) /\ row[e] \in Row
                       /\ claims'[e] = claims[e] + 1 /\ claims[e] + 1 \in Nat
      BY <2>1 DEF TypeOK, NewLease
    <3> QED BY <3>1, <3>2
  <2>5. LeaseShape'
    BY <2>3, <2>4 DEF LeaseShape, NoLease, TypeOK
  <2>6. \A e \in Events : claims[e] \in Nat /\ claims'[e] >= claims[e]
    BY <2>3, <2>4 DEF TypeOK
  <2>7. LeasesIssued'
    <3> SUFFICES ASSUME NEW q \in Processors
                 PROVE  /\ \A j \in batch'[q] : j.lease <= claims'[j.id]
                        /\ cur[q] # Idle => cur[q].lease <= claims'[cur[q].id]
                        /\ \A s \in scan[q] : s.lease <= claims'[s.id]
      BY <2>2 DEF LeasesIssued
    <3>1. \A j \in batch'[q] : j.lease <= claims'[j.id]
      <4>1. CASE q = p
        <5>1. batch'[q] = {[id |-> e, lease |-> NewLease(e)] : e \in B}
          BY <2>1, <4>1 DEF TypeOK
        <5> QED BY <5>1, <2>4, <2>6 DEF NewLease
      <4>2. CASE q # p
        <5>1. batch'[q] = batch[q]
          BY <2>1, <4>2 DEF TypeOK
        <5>2. \A j \in batch[q] : j.id \in Events /\ j.lease \in Nat /\ j.lease <= claims[j.id]
          BY DEF TypeOK, Job, Lease, LeasesIssued
        <5> QED BY <5>1, <5>2, <2>6 DEF TypeOK
      <4> QED BY <4>1, <4>2
    <3>2. cur[q] # Idle => cur[q].lease <= claims'[cur[q].id]
      BY <2>6 DEF TypeOK, Busy, Lease, LeasesIssued
    <3>3. \A s \in scan[q] : s.lease <= claims'[s.id]
      BY <2>6 DEF TypeOK, Sighting, LeasesIssued
    <3> QED BY <3>1, <3>2, <3>3
  <2>8. LeaseUnique'
    <3> SUFFICES ASSUME NEW q \in Processors, NEW r \in Processors,
                        NEW e \in Events, NEW l \in Lease,
                        Carries(q, e, l)', Carries(r, e, l)'
                 PROVE  q = r
      BY DEF LeaseUnique
    <3>1. \A x \in Processors : Carries(x, e, l)' /\ x # p => Carries(x, e, l)
      BY <2>1, <2>2 DEF Carries, TypeOK
    <3>2. \A x \in Processors : Carries(x, e, l) => l <= claims[e]
      BY DEF Carries, LeasesIssued
    <3>3. Carries(p, e, l)' => l = claims[e] + 1
      BY <2>1, <2>2 DEF Carries, TypeOK, NewLease
    <3>4. claims[e] \in Nat /\ ~ claims[e] + 1 <= claims[e]
      BY DEF TypeOK
    <3> QED BY <3>1, <3>2, <3>3, <3>4 DEF LeaseUnique
  <2>9. ReadsAreCurrent'
    <3>1. \A e \in Events, l \in Nat :
             l <= claims[e] /\ HoldsLease(e, l)' => HoldsLease(e, l) /\ row'[e] = row[e]
      BY <2>3, <2>4 DEF HoldsLease, TypeOK
    <3>2. \A q \in Processors :
             /\ cur[q] # Idle => cur[q].id \in Events /\ cur[q].lease \in Nat
             /\ \A s \in scan[q] : s.id \in Events /\ s.lease \in Nat
      BY DEF TypeOK, Busy, Lease, Sighting
    <3>3. \A q \in Processors : cur[q].phase = "marking" => cur[q] # Idle
      BY DEF Idle
    <3>4. \A q \in Processors :
             cur'[q].phase = "marking" /\ HoldsLease(cur[q].id, cur[q].lease)'
                => cur[q].retry = row'[cur[q].id].retry
      BY <2>2, <3>1, <3>2, <3>3 DEF ReadsAreCurrent, LeasesIssued
    <3>5. \A q \in Processors : \A s \in scan[q] : HoldsLease(s.id, s.lease)'
                => s.retry = row'[s.id].retry /\ row'[s.id].claimed = "expired"
      BY <3>1, <3>2 DEF ReadsAreCurrent, LeasesIssued
    <3> QED BY <2>2, <3>4, <3>5 DEF ReadsAreCurrent, HoldsLease
  <2>10. Budget'
    <3> SUFFICES ASSUME NEW e \in Events
                 PROVE  /\ row'[e].retry <= MaxRetries
                        /\ row'[e].status \in {"absent", "pending"} => row'[e].retry = 0
                        /\ row'[e].status \in {"processing", "done"}
                              => row'[e].retry < MaxRetries
                        /\ claims'[e] <= MaxRetries * resets[e] + row'[e].retry
                             + (IF row'[e].status \in {"processing", "done"} THEN 1 ELSE 0)
      BY <2>2 DEF Budget
    <3>1. CASE e \in B
      <4>1. row[e].status \in {"pending", "failed"} /\ row[e].retry < MaxRetries
        BY <3>1 DEF Claimable, Budget
      <4>2. claims[e] <= MaxRetries * resets[e] + row[e].retry
        BY <4>1, SMTT(20) DEF Budget, TypeOK, Row
      <4>3. MaxRetries * resets[e] \in Nat /\ row[e].retry \in Nat /\ claims[e] \in Nat
        BY DEF TypeOK, Row
      <4> QED BY <2>4, <3>1, <4>1, <4>2, <4>3
    <3>2. CASE e \notin B
      BY <2>3, <3>2 DEF Budget
    <3> QED BY <3>1, <3>2
  <2>11. NoStrandedRow' /\ DoneWasApplied' /\ SuccessWasApplied'
    BY <2>2, <2>3, <2>4 DEF NoStrandedRow, DoneWasApplied, SuccessWasApplied
  <2> QED BY <2>5, <2>7, <2>8, <2>9, <2>10, <2>11
<1>5. ASSUME NEW p \in Processors, StartEvent(p) PROVE LeaseInv'
  <2>1. LeasesIssued'
    BY <1>5 DEF StartEvent, LeasesIssued, TypeOK, Idle, Job
  <2>2. LeaseUnique'
    BY <1>5 DEF StartEvent, LeaseUnique, Carries, TypeOK, Idle, Job
  <2>3. ReadsAreCurrent' /\ SuccessWasApplied'
    BY <1>5 DEF StartEvent, ReadsAreCurrent, SuccessWasApplied, HoldsLease, TypeOK
  <2>4. LeaseShape' /\ Budget' /\ NoStrandedRow' /\ DoneWasApplied'
    BY <1>5 DEF StartEvent, LeaseShape, Budget, NoStrandedRow, DoneWasApplied
  <2> QED BY <2>1, <2>2, <2>3, <2>4
<1>6. ASSUME NEW p \in Processors, Dispatch(p) PROVE LeaseInv'
  <2>1. LeasesIssued'
    BY <1>6 DEF Dispatch, Outcomes, LeasesIssued, TypeOK, Idle, Busy, Phase
  <2>2. LeaseUnique'
    BY <1>6 DEF Dispatch, Outcomes, LeaseUnique, Carries, TypeOK, Idle, Busy, Phase
  <2>3. ReadsAreCurrent' /\ SuccessWasApplied'
    BY <1>6 DEF Dispatch, Outcomes, ReadsAreCurrent, SuccessWasApplied, HoldsLease, TypeOK, Busy, Idle
  <2>4. LeaseShape' /\ Budget' /\ NoStrandedRow' /\ DoneWasApplied'
    BY <1>6 DEF Dispatch, LeaseShape, Budget, NoStrandedRow, DoneWasApplied
  <2> QED BY <2>1, <2>2, <2>3, <2>4
<1>7. ASSUME NEW p \in Processors, MarkDone(p) PROVE LeaseInv'
  <2>1. LeaseShape'
    BY <1>7 DEF MarkDone, LeaseShape, HoldsLease, NoLease, TypeOK, Row
  <2>2. LeasesIssued'
    BY <1>7 DEF MarkDone, LeasesIssued, TypeOK, Idle
  <2>3. LeaseUnique'
    BY <1>7 DEF MarkDone, LeaseUnique, Carries, TypeOK, Idle
  <2>4. ReadsAreCurrent'
    BY <1>7 DEF MarkDone, ReadsAreCurrent, HoldsLease, TypeOK, Row, Idle, NoLease
  <2>5. Budget'
    BY <1>7 DEF MarkDone, Budget, HoldsLease, TypeOK, Row
  <2>6. NoStrandedRow'
    BY <1>7 DEF MarkDone, NoStrandedRow, HoldsLease, TypeOK, Row
  <2>9. SuccessWasApplied' /\ DoneWasApplied'
    BY <1>7 DEF MarkDone, SuccessWasApplied, DoneWasApplied, HoldsLease, TypeOK, Row, Idle
  <2> QED BY <2>1, <2>2, <2>3, <2>4, <2>5, <2>6, <2>9
<1>8. ASSUME NEW p \in Processors, MarkFailedTerminal(p) PROVE LeaseInv'
  <2>1. LeaseShape'
    BY <1>8 DEF MarkFailedTerminal, Failed, LeaseShape, HoldsLease, NoLease, TypeOK, Row
  <2>2. LeasesIssued'
    BY <1>8 DEF MarkFailedTerminal, LeasesIssued, TypeOK, Idle
  <2>3. LeaseUnique'
    BY <1>8 DEF MarkFailedTerminal, LeaseUnique, Carries, TypeOK, Idle
  <2>4. ReadsAreCurrent'
    BY <1>8 DEF MarkFailedTerminal, Failed, ReadsAreCurrent, HoldsLease, TypeOK, Row, Idle, NoLease
  <2>5. Budget'
    BY <1>8 DEF MarkFailedTerminal, Failed, Budget, HoldsLease, TypeOK, Row
  <2>6. NoStrandedRow'
    BY <1>8 DEF MarkFailedTerminal, Failed, NoStrandedRow, HoldsLease, TypeOK, Row
  <2>9. SuccessWasApplied' /\ DoneWasApplied'
    BY <1>8 DEF MarkFailedTerminal, Failed, SuccessWasApplied, DoneWasApplied, HoldsLease, TypeOK, Row, Idle
  <2> QED BY <2>1, <2>2, <2>3, <2>4, <2>5, <2>6, <2>9
<1>9. ASSUME NEW p \in Processors, MarkFailedRead(p) PROVE LeaseInv'
  <2>1. LeasesIssued'
    BY <1>9 DEF MarkFailedRead, LeasesIssued, TypeOK, Idle, Busy, Phase
  <2>2. LeaseUnique'
    BY <1>9 DEF MarkFailedRead, LeaseUnique, Carries, TypeOK, Idle, Busy, Phase
  <2>3. ReadsAreCurrent'
    BY <1>9, SMTT(20) DEF MarkFailedRead, ReadsAreCurrent, HoldsLease, TypeOK, Busy, Idle
  <2>5. SuccessWasApplied'
    BY <1>9 DEF MarkFailedRead, SuccessWasApplied, TypeOK, Busy, Idle
  <2>4. LeaseShape' /\ Budget' /\ NoStrandedRow' /\ DoneWasApplied'
    BY <1>9 DEF MarkFailedRead, LeaseShape, Budget, NoStrandedRow, DoneWasApplied
  <2> QED BY <2>1, <2>2, <2>3, <2>4, <2>5
<1>10. ASSUME NEW p \in Processors, MarkFailedUpdate(p) PROVE LeaseInv'
  <2>1. LeaseShape'
    BY <1>10 DEF MarkFailedUpdate, Failed, LeaseShape, HoldsLease, NoLease, TypeOK, Row
  <2>2. LeasesIssued'
    BY <1>10 DEF MarkFailedUpdate, LeasesIssued, TypeOK, Idle
  <2>3. LeaseUnique'
    BY <1>10 DEF MarkFailedUpdate, LeaseUnique, Carries, TypeOK, Idle
  <2>4. ReadsAreCurrent'
    BY <1>10, SMTT(20)
    DEF MarkFailedUpdate, Failed, ReadsAreCurrent, HoldsLease, TypeOK, Row, Idle, NoLease
  <2>5. Budget'
    BY <1>10 DEF MarkFailedUpdate, Failed, Budget, HoldsLease, TypeOK, Row
  <2>7. HoldsLease(cur[p].id, cur[p].lease) => cur[p].retry = row[cur[p].id].retry
    BY <1>10 DEF MarkFailedUpdate, ReadsAreCurrent
  <2>8. \A n \in Nat : nextAttemptAt(n) = "null" => n >= MaxRetries
    BY DEF nextAttemptAt
  <2>6. NoStrandedRow'
    BY <1>10, <2>7, <2>8 DEF MarkFailedUpdate, Failed, NoStrandedRow, HoldsLease, TypeOK, Row
  <2>9. SuccessWasApplied' /\ DoneWasApplied'
    BY <1>10 DEF MarkFailedUpdate, Failed, SuccessWasApplied, DoneWasApplied, HoldsLease, TypeOK, Row, Idle
  <2> QED BY <2>1, <2>2, <2>3, <2>4, <2>5, <2>6, <2>9
<1>11. ASSUME NEW p \in Processors, ReapScan(p) PROVE LeaseInv'
  <2>1. PICK F \in SUBSET {e \in Events : /\ row[e].status = "processing"
                                         /\ row[e].claimed = "expired"} :
           scan' = [scan EXCEPT ![p] =
             {[id |-> e, lease |-> row[e].lease, retry |-> row[e].retry] : e \in F}]
    BY <1>11 DEF ReapScan
  <2>2. UNCHANGED <<row, claims, batch, cur, applied, resets>>
    BY <1>11 DEF ReapScan
  <2>3. LeasesIssued'
    BY <2>1, <2>2 DEF LeasesIssued, LeaseShape, TypeOK
  <2>4. ReadsAreCurrent'
    BY <2>1, <2>2 DEF ReadsAreCurrent, HoldsLease, TypeOK
  <2>5. LeaseUnique' /\ SuccessWasApplied'
    BY <2>2 DEF LeaseUnique, Carries, SuccessWasApplied
  <2>6. LeaseShape' /\ Budget' /\ NoStrandedRow' /\ DoneWasApplied'
    BY <2>2 DEF LeaseShape, Budget, NoStrandedRow, DoneWasApplied
  <2> QED BY <2>3, <2>4, <2>5, <2>6
<1>12. ASSUME NEW p \in Processors, ReapUpdate(p) PROVE LeaseInv'
  <2>1. PICK s \in scan[p] :
           /\ scan' = [scan EXCEPT ![p] = @ \ {s}]
           /\ row' = IF HoldsLease(s.id, s.lease)
                     THEN [row EXCEPT ![s.id] =
                              Failed(@, @.retry + 1, nextAttemptAt(s.retry + 1))]
                     ELSE row
    BY <1>12 DEF ReapUpdate
  <2>2. UNCHANGED <<claims, batch, cur, applied, resets>>
    BY <1>12 DEF ReapUpdate
  <2>3. s \in Sighting
    BY DEF TypeOK
  <2>4. HoldsLease(s.id, s.lease) => s.retry = row[s.id].retry
    BY DEF ReadsAreCurrent
  <2>5. LeaseShape'
    BY <2>1, <2>2, <2>3 DEF Failed, LeaseShape, HoldsLease, NoLease, TypeOK, Row, Sighting
  <2>6. LeasesIssued'
    BY <2>1, <2>2 DEF LeasesIssued, TypeOK
  <2>7. ReadsAreCurrent'
    BY <2>1, <2>2, <2>3 DEF Failed, ReadsAreCurrent, HoldsLease, TypeOK, Row, Sighting, NoLease
  <2>8. Budget'
    BY <2>1, <2>2, <2>3 DEF Failed, Budget, HoldsLease, TypeOK, Row, Sighting
  <2>9. \A n \in Nat : nextAttemptAt(n) = "null" => n >= MaxRetries
    BY DEF nextAttemptAt
  <2>10. NoStrandedRow'
    BY <2>1, <2>2, <2>3, <2>4, <2>9 DEF Failed, NoStrandedRow, TypeOK, Row, Sighting
  <2>11. SuccessWasApplied' /\ DoneWasApplied'
    BY <2>1, <2>2, <2>3 DEF Failed, SuccessWasApplied, DoneWasApplied, TypeOK, Row, Sighting
  <2>12. LeaseUnique'
    BY <2>2 DEF LeaseUnique, Carries
  <2> QED BY <2>5, <2>6, <2>7, <2>8, <2>10, <2>11, <2>12
<1>13. ASSUME NEW p \in Processors, Fault(p) PROVE LeaseInv'
  <2>1. /\ UNCHANGED <<row, claims, applied, resets>>
        /\ \A q \in Processors : /\ batch'[q] \subseteq batch[q]
                                /\ cur'[q] \in {cur[q], Idle}
                                /\ scan'[q] \subseteq scan[q]
    BY <1>13 DEF Fault, MarkStatementFails, ReapStatementFails, Restart, TypeOK
  <2>2. LeasesIssued'
    BY <2>1 DEF LeasesIssued
  <2>3. \A q \in Processors, e \in Events, l \in Lease : Carries(q, e, l)' => Carries(q, e, l)
    BY <2>1 DEF Carries
  <2>4. LeaseUnique'
    BY <2>3 DEF LeaseUnique
  <2>5. ReadsAreCurrent' /\ SuccessWasApplied'
    BY <2>1 DEF ReadsAreCurrent, SuccessWasApplied, HoldsLease, Idle
  <2>6. LeaseShape' /\ Budget' /\ NoStrandedRow' /\ DoneWasApplied'
    BY <2>1 DEF LeaseShape, Budget, NoStrandedRow, DoneWasApplied
  <2> QED BY <2>2, <2>4, <2>5, <2>6
<1>14. CASE UNCHANGED vars
  <2>1. LeaseShape' /\ Budget' /\ NoStrandedRow' /\ DoneWasApplied'
    BY <1>14 DEF vars, LeaseShape, Budget, NoStrandedRow, DoneWasApplied
  <2>2. LeasesIssued' /\ LeaseUnique' /\ ReadsAreCurrent' /\ SuccessWasApplied'
    BY <1>14 DEF vars, LeasesIssued, LeaseUnique, Carries, ReadsAreCurrent, HoldsLease,
                 SuccessWasApplied
  <2> QED BY <2>1, <2>2
<1> QED BY <1>1, <1>2, <1>3, <1>4, <1>5, <1>6, <1>7, <1>8, <1>9, <1>10,
           <1>11, <1>12, <1>13, <1>14 DEF Next, ClaimLoop, ReaperLoop

\* The strengthening behind the results below: leases are issued once, carried
\* by one replica, and what was read under a lease is current while it is held.
THEOREM LeaseInvariant == Spec => []LeaseInv
BY LeaseInit, LeaseStep, PTL DEF Spec

-----------------------------------------------------------------------------
(* What follows from it *)

\* At most one replica carries the lease a processing row shows, for any number
\* of replicas, crashes, reaped leases and late outcomes.
THEOREM OneOwnerHolds == Spec => []OneOwner
<1>1. LeaseInv => OneOwner
  <2> SUFFICES ASSUME LeaseInv, NEW e \in Events, row[e].status = "processing",
                      NEW p \in Processors, NEW q \in Processors,
                      Carries(p, e, row[e].lease), Carries(q, e, row[e].lease)
               PROVE  p = q
    BY DEF OneOwner
  <2>1. row[e].lease \in Lease
    BY DEF LeaseInv, LeaseShape, TypeOK, Row, Lease
  <2> QED BY <2>1 DEF LeaseInv, LeaseUnique
<1> QED BY <1>1, LeaseInvariant, PTL

\* A row with retry budget left always has a time for its next attempt.
THEOREM NoRowStranded == Spec => []NoStrandedRow
<1>1. LeaseInv => NoStrandedRow
  BY DEF LeaseInv
<1> QED BY <1>1, LeaseInvariant, PTL

\* The attempts of an event stay within MaxRetries plus MaxRetries for every
\* explicit reset of its budget.
THEOREM AttemptsBounded == Spec => []AttemptsWithinBudget
<1>1. LeaseInv => AttemptsWithinBudget
  <2> SUFFICES ASSUME LeaseInv, NEW e \in Events
               PROVE  claims[e] <= MaxRetries * (1 + resets[e])
    BY DEF AttemptsWithinBudget
  <2>1. /\ MaxRetries \in Nat /\ resets[e] \in Nat /\ MaxRetries * resets[e] \in Nat
        /\ claims[e] \in Nat /\ row[e].retry \in Nat
    BY ConstantsAssumption DEF LeaseInv, TypeOK, Row
  <2>2. MaxRetries * (1 + resets[e]) = MaxRetries + MaxRetries * resets[e]
    BY <2>1
  <2>3. claims[e] <= MaxRetries * resets[e] + MaxRetries
    BY <2>1 DEF LeaseInv, Budget
  <2> QED BY <2>1, <2>2, <2>3
<1> QED BY <1>1, LeaseInvariant, PTL

\* An event is done only after its handler has run to its end, at whichever
\* replica: a late outcome whose lease is gone marks nothing.
THEOREM DoneApplied == Spec => []DoneWasApplied
<1>1. LeaseInv => DoneWasApplied
  BY DEF LeaseInv
<1> QED BY <1>1, LeaseInvariant, PTL

\* No step reopens a done event: the guards of the late outcomes, of the reaper
\* and of Recover all exclude it.
THEOREM DoneStaysDone == Spec => DoneIsFinal
<1>1. LeaseInv /\ [Next]_vars =>
        [\A e \in Events : row[e].status = "done" => row'[e].status = "done"]_vars
  <2> SUFFICES ASSUME LeaseInv, Next, NEW d \in Events, row[d].status = "done"
               PROVE  row'[d].status = "done"
    BY DEF vars
  <2> USE DEF LeaseInv, TypeOK
  <2>1. ASSUME NEW e \in Events, Enqueue(e) \/ Time(e) PROVE row'[d].status = "done"
    BY <2>1 DEF Enqueue, Time, BackoffElapses, LockWindowElapses, Row
  <2>2. ASSUME NEW e \in Events, NEW reset \in BOOLEAN, Recover(e, reset)
        PROVE  row'[d].status = "done"
    BY <2>2 DEF Recover
  <2>3. ASSUME NEW p \in Processors, ClaimLoop(p) PROVE row'[d].status = "done"
    BY <2>3 DEF ClaimLoop, ClaimEvents, Claimable, StartEvent, Dispatch, MarkDone,
                MarkFailedTerminal, MarkFailedRead, MarkFailedUpdate, HoldsLease
  <2>4. ASSUME NEW p \in Processors, ReaperLoop(p) \/ Fault(p) PROVE row'[d].status = "done"
    BY <2>4 DEF ReaperLoop, ReapScan, ReapUpdate, HoldsLease, Fault, MarkStatementFails,
                ReapStatementFails, Restart
  <2> QED BY <2>1, <2>2, <2>3, <2>4 DEF Next
<1> QED BY <1>1, LeaseInvariant, PTL DEF Spec, DoneIsFinal

\* A lease inside its window is ended only by the replica that carries it: a
\* sighting that still matches is of an expired lease, by the invariant.
THEOREM FreshLeaseKept == Spec => FreshLeaseIsSafe
<1> DEFINE Finishing(e) == \E p \in Processors :
                /\ cur[p].phase \in {"succeeded", "unhandled", "marking"}
                /\ cur[p].id = e /\ cur[p].lease = row[e].lease
<1>1. LeaseInv /\ [Next]_vars =>
        [\A e \in Events : row[e].claimed = "fresh" /\ row'[e].lease # row[e].lease
                              => Finishing(e)]_vars
  <2> SUFFICES ASSUME LeaseInv, Next, NEW d \in Events, row[d].claimed = "fresh",
                      row'[d].lease # row[d].lease
               PROVE  Finishing(d)
    BY DEF vars
  <2> USE DEF LeaseInv, TypeOK
  <2>0. row[d].status = "processing"
    BY DEF LeaseShape
  <2>1. ASSUME NEW e \in Events, Enqueue(e) \/ Time(e) PROVE FALSE
    <3>1. CASE e = d
      BY <2>0, <2>1, <3>1 DEF Enqueue, Time, BackoffElapses, LockWindowElapses, Row
    <3>2. CASE e # d
      BY <2>1, <3>2 DEF Enqueue, Time, BackoffElapses, LockWindowElapses
    <3> QED BY <3>1, <3>2
  <2>2. ASSUME NEW e \in Events, NEW reset \in BOOLEAN, Recover(e, reset) PROVE FALSE
    BY <2>0, <2>2 DEF Recover
  <2>3. ASSUME NEW p \in Processors, ClaimLoop(p) PROVE Finishing(d)
    <3>1. CASE ClaimEvents(p)
      BY <2>0, <3>1 DEF ClaimEvents, Claimable
    <3>2. CASE StartEvent(p) \/ Dispatch(p) \/ MarkFailedRead(p)
      BY <3>2 DEF StartEvent, Dispatch, MarkFailedRead
    <3>3. CASE MarkDone(p) \/ MarkFailedTerminal(p) \/ MarkFailedUpdate(p)
      BY <3>3 DEF MarkDone, MarkFailedTerminal, MarkFailedUpdate, HoldsLease
    <3> QED BY <2>3, <3>1, <3>2, <3>3 DEF ClaimLoop
  <2>4. ASSUME NEW p \in Processors, ReaperLoop(p) PROVE FALSE
    BY <2>4 DEF ReaperLoop, ReapScan, ReapUpdate, ReadsAreCurrent
  <2>5. ASSUME NEW p \in Processors, Fault(p) PROVE FALSE
    BY <2>5 DEF Fault, MarkStatementFails, ReapStatementFails, Restart
  <2> QED BY <2>1, <2>2, <2>3, <2>4, <2>5 DEF Next
<1> QED BY <1>1, LeaseInvariant, PTL DEF Spec, FreshLeaseIsSafe
=============================================================================
