------------------------- MODULE DeviceTrustProofs --------------------------
(* Proofs about DeviceTrust.  StaleAclIsOwed is not inductive as it stands:   *)
(* the step that marks a re-enrolment event done must not remove the last     *)
(* reason for a stale ACL.  It does not, since a worker that is about to take *)
(* that step has notified; the reason must therefore be an event that no      *)
(* worker has handled.                                                        *)
EXTENDS DeviceTrust, TLAPS

\* Events are written in order, and a run of a handler is of a written event.
EventShape ==
    /\ gen <= ops
    /\ \A e \in Events : event[e].kind # "none" => e <= ops
    /\ \A w \in Workers : worker[w].step # "idle" => worker[w].event \in Events

TypeInv == TypeOK /\ EventShape

\* A worker has updated and notified for e, and has yet to mark it done.
Handled(e) == \E w \in Workers : worker[w].step = "handled" /\ worker[w].event = e

\* A re-enrolment event whose notification is still to come.
ReEnrollDue ==
    \E e \in Events : event[e].kind = "re_enroll" /\ ~event[e].done /\ ~Handled(e)

\* The cached ACL is current, or someone has yet to notify.
AclIsOwed ==
    acl # NoAcl /\ acl # Authorized =>
        \/ owed # {}
        \/ \E w \in Workers : worker[w].step = "updated"
        \/ ReEnrollDue

OwedInv == TypeInv /\ AclIsOwed

-----------------------------------------------------------------------------
(* Types *)

\* The initial state is well typed.
LEMMA TypeInit == Init => TypeInv
BY TrustAssumption DEF Init, TypeInv, TypeOK, EventShape, NoDevice, Device, Event, IdleWorker,
       Worker, Events, NoEvent, HasRow

\* A step of one device's row.
LEMMA RowType ==
    ASSUME TypeInv, NEW d \in Devices, NEW rec \in Device, Row(d, rec),
           rec.revoked \/ rec.marked => rec.step \in {"inserted", "recorded"}
    PROVE  /\ device' \in [Devices -> Device]
           /\ \A c \in Devices : device'[c].revoked \/ device'[c].marked => HasRow(c)'
BY DEF TypeInv, TypeOK, Row, HasRow

\* A step of one worker.
LEMMA WorkerType ==
    ASSUME TypeInv, NEW w \in Workers, NEW rec \in Worker,
           worker' = [worker EXCEPT ![w] = rec]
    PROVE  /\ worker' \in [Workers -> Worker] /\ worker'[w] = rec
           /\ \A v \in Workers \ {w} : worker'[v] = worker[v]
BY DEF TypeInv, TypeOK

\* What a step of a worker with its event does to it.
LEMMA StepType ==
    ASSUME TypeInv, NEW w \in Workers, NEW s \in {"claimed", "updated", "handled"}, Step(w, s)
    PROVE  /\ worker' \in [Workers -> Worker]
           /\ worker'[w].step = s /\ worker'[w].event = worker[w].event
           /\ \A v \in Workers \ {w} : worker'[v] = worker[v]
BY DEF TypeInv, TypeOK, Step, Worker

\* The steps of an enrolment or of RevokeDevice.
LEMMA DeviceTypeStep ==
    ASSUME TypeInv, NEW d \in Devices,
           \/ authorizeDeviceIssuance(d) \/ insertClientDevice(d)
           \/ updateClientDeviceCert(d) \/ RevokeDevice(d)
    PROVE  TypeInv'
<1>1. PICK rec \in Device : /\ Row(d, rec)
                            /\ rec.revoked \/ rec.marked => rec.step \in {"inserted", "recorded"}
  <2>1. device[d] \in Device /\ NoDevice \in Device /\ gen \in 0..MaxOps
    BY TrustAssumption DEF TypeInv, TypeOK, NoDevice, Device
  <2>2. device[d].revoked \/ device[d].marked => device[d].step \in {"inserted", "recorded"}
    BY DEF TypeInv, TypeOK, HasRow
  <2>3. CASE authorizeDeviceIssuance(d)
    <3>1. /\ [NoDevice EXCEPT !.step = "authorized", !.gen = gen] \in Device
          /\ ~[NoDevice EXCEPT !.step = "authorized", !.gen = gen].revoked
          /\ ~[NoDevice EXCEPT !.step = "authorized", !.gen = gen].marked
      BY <2>1 DEF NoDevice, Device
    <3> QED BY <2>3, <3>1 DEF authorizeDeviceIssuance
  <2>4. CASE insertClientDevice(d)
    <3>1. [device[d] EXCEPT !.step = "inserted"] \in Device
      BY <2>1 DEF Device
    <3> QED BY <2>1, <2>2, <2>4, <3>1 DEF insertClientDevice, Device
  <2>5. CASE updateClientDeviceCert(d)
    <3>1. [device[d] EXCEPT !.step = "recorded"] \in Device
      BY <2>1 DEF Device
    <3> QED BY <2>1, <2>2, <2>5, <3>1 DEF updateClientDeviceCert, Device, NoDevice
  <2>6. CASE RevokeDevice(d)
    <3>1. [device[d] EXCEPT !.revoked = TRUE] \in Device
      BY <2>1 DEF Device
    <3> QED BY <2>1, <2>2, <2>6, <3>1 DEF RevokeDevice, Device
  <2> QED BY <2>3, <2>4, <2>5, <2>6
<1>2. UNCHANGED deviceRest /\ owed' \subseteq Devices \cup {"directory"}
  BY DEF authorizeDeviceIssuance, insertClientDevice, updateClientDeviceCert, RevokeDevice,
         TypeInv, TypeOK
<1> QED BY <1>1, <1>2, RowType DEF TypeInv, TypeOK, EventShape, deviceRest, userVars, boundVars

\* The steps of a delivery.
LEMMA WorkerTypeStep ==
    ASSUME TypeInv, NEW w \in Workers, Deliver(w) \/ HandlerFails(w)
    PROVE  TypeInv'
<1>i. IdleWorker \in Worker /\ IdleWorker.step = "idle"
  BY DEF IdleWorker, Worker
<1>w. ASSUME worker' \in [Workers -> Worker],
             \A v \in Workers \ {w} : worker'[v] = worker[v],
             worker'[w].step # "idle" =>
                 worker'[w].event \in Events /\ event[worker'[w].event].kind # "none",
             event' \in [Events -> Event],
             \A e \in Events : event'[e].kind = event[e].kind,
             device' \in [Devices -> Device],
             \A d \in Devices : device'[d].revoked \/ device'[d].marked => HasRow(d)',
             acl' \in (SUBSET Devices) \cup {NoAcl}, faults' \in 0..MaxFaults,
             UNCHANGED workerRest
      PROVE  TypeInv'
  <2>1. \A v \in Workers : worker'[v].step # "idle" =>
             worker'[v].event \in Events /\ event'[worker'[v].event].kind # "none"
    BY <1>w DEF TypeInv, TypeOK, EventShape
  <2> QED BY <1>w, <2>1 DEF TypeInv, TypeOK, EventShape, workerRest, userVars
<1>u. /\ event \in [Events -> Event] /\ device \in [Devices -> Device]
      /\ \A d \in Devices : device[d].revoked \/ device[d].marked => HasRow(d)
      /\ acl \in (SUBSET Devices) \cup {NoAcl} /\ faults \in 0..MaxFaults
      /\ worker[w].step # "idle" =>
           worker[w].event \in Events /\ event[worker[w].event].kind # "none"
  BY DEF TypeInv, TypeOK, EventShape
<1>d. ASSUME UNCHANGED device
      PROVE  \A d \in Devices : device'[d].revoked \/ device'[d].marked => HasRow(d)'
  BY <1>d, <1>u DEF HasRow
<1>1. ASSUME NEW e \in Events, Claim(w, e) PROVE TypeInv'
  <2>1. [step |-> "claimed", event |-> e] \in Worker
    BY DEF Worker
  <2>2. /\ worker' = [worker EXCEPT ![w] = [step |-> "claimed", event |-> e]]
        /\ UNCHANGED <<workerRest, device, event, acl>> /\ event[e].kind # "none"
    BY <1>1 DEF Claim
  <2>3. faults' \in 0..MaxFaults
    BY <1>1, <1>u, TrustAssumption DEF Claim
  <2> QED BY <1>d, <1>u, <1>w, <2>1, <2>2, <2>3, WorkerType
<1>2. CASE HandleRevoke(w)
  <2> DEFINE flag(d) == device[d].revoked \/ d \in revokeUserDevices
  <2>1. device' = [d \in Devices |-> [device[d] EXCEPT !.revoked = flag(d)]]
    BY <1>2 DEF HandleRevoke
  <2>2. \A d \in Devices : flag(d) \in BOOLEAN /\ (flag(d) => HasRow(d))
    BY <1>u DEF revokeUserDevices
  <2> HIDE DEF flag
  <2>3. /\ device' \in [Devices -> Device]
        /\ \A d \in Devices : /\ device'[d].revoked = flag(d)
                              /\ device'[d].marked = device[d].marked
                              /\ device'[d].step = device[d].step
    BY <1>u, <2>1, <2>2 DEF Device
  <2>4. \A d \in Devices : device'[d].revoked \/ device'[d].marked => HasRow(d)'
    BY <1>u, <2>2, <2>3 DEF HasRow
  <2>5. Step(w, "handled") \/ Step(w, "updated")
    BY <1>2 DEF HandleRevoke
  <2>6. UNCHANGED <<workerRest, event, acl, faults>> /\ worker[w].step = "claimed"
    BY <1>2 DEF HandleRevoke, Handles
  <2> QED BY <1>u, <1>w, <2>3, <2>4, <2>5, <2>6, StepType
<1>3. CASE HandleReEnroll(w)
  <2> DEFINE flag(d) == device[d].marked \/ d \in markUserDevicesReEnrollRequired
  <2>1. device' = [d \in Devices |-> [device[d] EXCEPT !.marked = flag(d)]]
    BY <1>3 DEF HandleReEnroll
  <2>2. \A d \in Devices : flag(d) \in BOOLEAN /\ (flag(d) => HasRow(d))
    BY <1>u DEF markUserDevicesReEnrollRequired
  <2> HIDE DEF flag
  <2>3. /\ device' \in [Devices -> Device]
        /\ \A d \in Devices : /\ device'[d].marked = flag(d)
                              /\ device'[d].revoked = device[d].revoked
                              /\ device'[d].step = device[d].step
    BY <1>u, <2>1, <2>2 DEF Device
  <2>4. \A d \in Devices : device'[d].revoked \/ device'[d].marked => HasRow(d)'
    BY <1>u, <2>2, <2>3 DEF HasRow
  <2>5. /\ Step(w, "updated") /\ UNCHANGED <<workerRest, event, acl, faults>>
        /\ worker[w].step = "claimed"
    BY <1>3 DEF HandleReEnroll, Handles
  <2> QED BY <1>u, <1>w, <2>3, <2>4, <2>5, StepType
<1>4. CASE HandlerNotifies(w)
  <2>1. /\ Step(w, "handled") /\ UNCHANGED <<workerRest, device, event, faults>>
        /\ acl' = NoAcl /\ worker[w].step = "updated"
    BY <1>4 DEF HandlerNotifies, NotifyPolicyChange
  <2> QED BY <1>d, <1>u, <1>w, <2>1, StepType
<1>5. CASE MarkDone(w)
  <2>1. /\ worker[w].step = "handled" /\ worker' = [worker EXCEPT ![w] = IdleWorker]
        /\ event' = [event EXCEPT ![worker[w].event].done = TRUE]
        /\ UNCHANGED <<workerRest, device, acl, faults>>
    BY <1>5 DEF MarkDone
  <2>2. event' \in [Events -> Event] /\ \A e \in Events : event'[e].kind = event[e].kind
    BY <1>u, <2>1 DEF Event
  <2> QED BY <1>d, <1>i, <1>u, <1>w, <2>1, <2>2, WorkerType
<1>6. CASE HandlerFails(w)
  <2>1. /\ worker' = [worker EXCEPT ![w] = IdleWorker]
        /\ UNCHANGED <<workerRest, device, event, acl>>
    BY <1>6 DEF HandlerFails
  <2>2. faults' \in 0..MaxFaults
    BY <1>6, <1>u, TrustAssumption DEF HandlerFails
  <2> QED BY <1>d, <1>i, <1>u, <1>w, <2>1, <2>2, WorkerType
<1> QED BY <1>1, <1>2, <1>3, <1>4, <1>5, <1>6 DEF Deliver

\* The directory's steps and the event they write.
LEMMA DirectoryTypeStep ==
    ASSUME TypeInv, Reactivate \/ \E hard \in BOOLEAN : Deprovision(hard)
    PROVE  TypeInv'
<1>1. PICK kind \in {"revoke", "re_enroll"} : Enqueue(kind)
  BY DEF Deprovision, Reactivate
<1>2. /\ ops' = ops + 1 /\ ops + 1 \in Events /\ ops' \in 0..MaxOps
      /\ event' = [event EXCEPT ![ops + 1] = [kind |-> kind, done |-> FALSE]]
  BY <1>1, TrustAssumption DEF Enqueue, TypeInv, TypeOK, Events
<1>3. event' \in [Events -> Event]
  BY <1>2 DEF TypeInv, TypeOK, Event
<1>4. \A e \in Events : event[e].kind # "none" => event'[e].kind # "none"
  BY <1>2 DEF TypeInv, TypeOK
<1>5. UNCHANGED <<worker, acl, faults>> /\ gen' \in {gen, gen + 1}
  BY DEF Deprovision, Reactivate
<1>6. EventShape' /\ gen' \in 0..MaxOps
  <2>1. gen \in Nat /\ ops \in Nat /\ gen <= ops
    BY DEF TypeInv, TypeOK, EventShape
  <2>2. gen' \in 0..MaxOps /\ gen' <= ops'
    BY <1>2, <1>5, <2>1, TrustAssumption DEF Events
  <2>3. \A e \in Events : event'[e].kind # "none" => e <= ops'
    BY <1>2, <2>1 DEF TypeInv, TypeOK, EventShape, Events
  <2> QED BY <1>5, <2>2, <2>3 DEF TypeInv, EventShape
<1>7. /\ device' \in [Devices -> Device]
      /\ \A d \in Devices : device'[d].revoked \/ device'[d].marked => HasRow(d)'
  <2>1. device \in [Devices -> Device]
    BY DEF TypeInv, TypeOK
  <2>2. /\ \A d \in Devices : device'[d] \in Device
        /\ device' = [d \in Devices |-> device'[d]]
        /\ \A d \in Devices : /\ device'[d].step = device[d].step
                              /\ device'[d].revoked = device[d].revoked
                              /\ device'[d].marked = device[d].marked
    <3>1. CASE Reactivate
      BY <2>1, <3>1 DEF Reactivate, Device
    <3>2. CASE \E hard \in BOOLEAN : Deprovision(hard)
      <4>1. device' = [d \in Devices |->
                IF device[d].step = "recorded"
                THEN [device[d] EXCEPT !.cut = TRUE, !.back = FALSE] ELSE device[d]]
        BY <3>2 DEF Deprovision
      <4>2. ASSUME NEW d \in Devices, device[d].step = "recorded"
            PROVE  /\ device'[d] \in Device /\ device'[d].step = device[d].step
                   /\ device'[d].revoked = device[d].revoked
                   /\ device'[d].marked = device[d].marked
        <5>1. device[d] \in Device /\ device'[d] = [device[d] EXCEPT !.cut = TRUE, !.back = FALSE]
          BY <2>1, <4>1, <4>2
        <5> QED BY <5>1 DEF Device
      <4>3. ASSUME NEW d \in Devices, device[d].step # "recorded"
            PROVE  device'[d] = device[d]
        BY <4>1, <4>3
      <4>4. device' = [d \in Devices |-> device'[d]]
        BY <4>1
      <4> QED BY <2>1, <4>2, <4>3, <4>4
    <3> QED BY <3>1, <3>2
  <2> QED BY <2>2 DEF TypeInv, TypeOK, HasRow
<1>8. /\ status' \in {"active", "suspended", "deleted"} /\ member' \in BOOLEAN
      /\ owed' \subseteq Devices \cup {"directory"}
  BY DEF Deprovision, Reactivate, TypeInv, TypeOK
<1>9. \A w \in Workers : worker'[w].step # "idle" => event'[worker'[w].event].kind # "none"
  BY <1>4, <1>5 DEF TypeInv, TypeOK, EventShape
<1> QED BY <1>2, <1>3, <1>5, <1>6, <1>7, <1>8, <1>9 DEF TypeInv, TypeOK

\* Every step keeps the state well typed.
LEMMA TypeStep == TypeInv /\ [Next]_vars => TypeInv'
<1> SUFFICES ASSUME TypeInv, [Next]_vars PROVE TypeInv'
  OBVIOUS
<1>1. CASE (\E x \in Devices \cup {"directory"} : Notify(x)) \/ CompileACLSnapshot
  <2>1. UNCHANGED <<userVars, device, event, worker, boundVars>>
    BY <1>1 DEF Notify, CompileACLSnapshot
  <2>2. owed' \subseteq Devices \cup {"directory"} /\ acl' \in (SUBSET Devices) \cup {NoAcl}
    BY <1>1 DEF Notify, NotifyPolicyChange, CompileACLSnapshot, Authorized, TypeInv, TypeOK
  <2> QED BY <2>1, <2>2 DEF TypeInv, TypeOK, EventShape, HasRow, userVars, boundVars
<1>2. CASE Restart
  <2>1. /\ device' = [d \in Devices |-> IF device[d].step = "recorded" THEN device[d] ELSE NoDevice]
        /\ worker' = [w \in Workers |-> IdleWorker]
        /\ owed' = {} /\ acl' = NoAcl /\ UNCHANGED <<userVars, event, ops>>
    BY <1>2 DEF Restart
  <2>2. NoDevice \in Device /\ ~NoDevice.revoked /\ ~NoDevice.marked /\ IdleWorker \in Worker
        /\ IdleWorker.step = "idle"
    BY TrustAssumption DEF NoDevice, Device, IdleWorker, Worker
  <2>3. /\ device' \in [Devices -> Device]
        /\ \A d \in Devices : device'[d].revoked \/ device'[d].marked => HasRow(d)'
    BY <2>1, <2>2 DEF TypeInv, TypeOK, HasRow
  <2>4. worker' \in [Workers -> Worker] /\ \A w \in Workers : worker'[w].step = "idle"
    BY <2>1, <2>2
  <2>5. faults' \in 0..MaxFaults
    BY <1>2, TrustAssumption DEF Restart, TypeInv, TypeOK
  <2> QED BY <2>1, <2>3, <2>4, <2>5 DEF TypeInv, TypeOK, EventShape, userVars
<1>3. CASE UNCHANGED vars
  BY <1>3 DEF vars, userVars, boundVars, TypeInv, TypeOK, EventShape, HasRow
<1> QED BY <1>1, <1>2, <1>3, DeviceTypeStep, WorkerTypeStep, DirectoryTypeStep DEF Next

-----------------------------------------------------------------------------
(* The ACL *)

\* Authorized depends on the user and on three fields of a row.
LEMMA AuthorizedSame ==
    ASSUME UNCHANGED <<status, member>>,
           \A d \in Devices :
               (device'[d].step = "recorded" /\ ~device'[d].revoked)
                   <=> (device[d].step = "recorded" /\ ~device[d].revoked)
    PROVE  Authorized' = Authorized
BY DEF Authorized

\* A delivery that skips its notification, or marks its event done, leaves the
\* reason for a stale ACL in place.
LEMMA DeliveryOwes ==
    ASSUME OwedInv, NEW w \in Workers, Deliver(w) \/ HandlerFails(w)
    PROVE  AclIsOwed'
<1>t. /\ event \in [Events -> Event]
      /\ worker[w].step # "idle" => worker[w].event \in Events
  BY DEF OwedInv, TypeInv, TypeOK, EventShape
<1>k. ASSUME UNCHANGED <<userVars, owed, acl, device, event>>,
             \A v \in Workers \ {w} : worker'[v] = worker[v],
             worker[w].step # "updated", worker'[w].step # "handled"
      PROVE  AclIsOwed'
  <2>1. Authorized' = Authorized
    BY <1>k, AuthorizedSame DEF userVars
  <2>2. \A e \in Events : Handled(e)' => Handled(e)
    BY <1>k DEF Handled
  <2>3. ReEnrollDue => ReEnrollDue'
    BY <1>k, <2>2 DEF ReEnrollDue
  <2>4. (\E v \in Workers : worker[v].step = "updated") =>
            \E v \in Workers : worker'[v].step = "updated"
    BY <1>k
  <2> QED BY <1>k, <2>1, <2>3, <2>4 DEF OwedInv, AclIsOwed
<1>1. ASSUME NEW e \in Events, Claim(w, e) PROVE AclIsOwed'
  <2>1. [step |-> "claimed", event |-> e] \in Worker
    BY DEF Worker
  <2>2. /\ UNCHANGED <<workerRest, acl, device, event>> /\ worker[w].step = "idle"
        /\ worker' = [worker EXCEPT ![w] = [step |-> "claimed", event |-> e]]
    BY <1>1 DEF Claim
  <2> QED BY <1>k, <2>1, <2>2, WorkerType DEF OwedInv, workerRest
<1>2. CASE HandlerFails(w)
  <2>1. IdleWorker \in Worker /\ IdleWorker.step = "idle"
    BY DEF IdleWorker, Worker
  <2>2. /\ UNCHANGED <<workerRest, acl, device, event>> /\ worker[w].step = "claimed"
        /\ worker' = [worker EXCEPT ![w] = IdleWorker]
    BY <1>2 DEF HandlerFails
  <2> QED BY <1>k, <2>1, <2>2, WorkerType DEF OwedInv, workerRest
<1>3. CASE HandleReEnroll(w) \/ (HandleRevoke(w) /\ revokeUserDevices # {})
  <2>1. Step(w, "updated")
    BY <1>3 DEF HandleReEnroll, HandleRevoke
  <2>2. worker'[w].step = "updated"
    BY <2>1, StepType DEF OwedInv
  <2> QED BY <2>2 DEF AclIsOwed
<1>4. CASE HandleRevoke(w) /\ revokeUserDevices = {}
  <2>1. /\ Step(w, "handled") /\ UNCHANGED <<workerRest, event, acl>>
        /\ worker[w].step = "claimed" /\ event[worker[w].event].kind = "revoke"
        /\ device' = [d \in Devices |->
                         [device[d] EXCEPT !.revoked = device[d].revoked \/ d \in revokeUserDevices]]
    BY <1>4 DEF HandleRevoke, Handles
  <2>2. \A d \in Devices : (device'[d].step = "recorded" /\ ~device'[d].revoked)
                              <=> (device[d].step = "recorded" /\ ~device[d].revoked)
    BY <1>4, <2>1 DEF OwedInv, TypeInv, TypeOK, Device
  <2>3. Authorized' = Authorized
    BY <2>1, <2>2, AuthorizedSame DEF workerRest, userVars
  <2>4. /\ worker'[w].step = "handled" /\ worker'[w].event = worker[w].event
        /\ \A v \in Workers \ {w} : worker'[v] = worker[v]
    BY <2>1, StepType DEF OwedInv
  <2>5. \A e \in Events : event[e].kind = "re_enroll" /\ Handled(e)' => Handled(e)
    BY <2>1, <2>4 DEF Handled
  <2>6. ReEnrollDue => ReEnrollDue'
    BY <2>1, <2>5 DEF ReEnrollDue
  <2>7. (\E v \in Workers : worker[v].step = "updated") =>
            \E v \in Workers : worker'[v].step = "updated"
    BY <2>1, <2>4
  <2> QED BY <2>1, <2>3, <2>6, <2>7 DEF OwedInv, AclIsOwed, workerRest
<1>5. CASE HandlerNotifies(w)
  BY <1>5 DEF HandlerNotifies, NotifyPolicyChange, AclIsOwed
<1>6. CASE MarkDone(w)
  <2>1. /\ worker[w].step = "handled" /\ worker' = [worker EXCEPT ![w] = IdleWorker]
        /\ event' = [event EXCEPT ![worker[w].event].done = TRUE]
        /\ UNCHANGED <<workerRest, device, acl>>
    BY <1>6 DEF MarkDone
  <2>2. Authorized' = Authorized
    BY <2>1, AuthorizedSame DEF workerRest, userVars
  <2>3. IdleWorker \in Worker /\ IdleWorker.step = "idle"
    BY DEF IdleWorker, Worker
  <2>4. worker'[w] = IdleWorker /\ \A v \in Workers \ {w} : worker'[v] = worker[v]
    BY <2>1, <2>3, WorkerType DEF OwedInv
  <2>5. \A e \in Events : ~Handled(e) => e # worker[w].event /\ ~Handled(e)'
    BY <2>1, <2>3, <2>4 DEF Handled
  <2>6. ReEnrollDue => ReEnrollDue'
    BY <1>t, <2>1, <2>5 DEF ReEnrollDue
  <2>7. (\E v \in Workers : worker[v].step = "updated") =>
            \E v \in Workers : worker'[v].step = "updated"
    BY <2>1, <2>4
  <2> QED BY <2>1, <2>2, <2>6, <2>7 DEF OwedInv, AclIsOwed, workerRest
<1> QED BY <1>1, <1>2, <1>3, <1>4, <1>5, <1>6 DEF Deliver

\* Every step keeps the invariant.
LEMMA OwedStep == OwedInv /\ [Next]_vars => OwedInv'
<1> SUFFICES ASSUME OwedInv, [Next]_vars PROVE AclIsOwed'
  BY TypeStep DEF OwedInv
<1>k. ASSUME UNCHANGED <<userVars, event, worker, acl>>, Authorized' = Authorized, owed' = owed
      PROVE  AclIsOwed'
  BY <1>k DEF OwedInv, AclIsOwed, ReEnrollDue, Handled
<1>1. CASE (\E x \in Devices \cup {"directory"} : Notify(x)) \/ Restart
  BY <1>1 DEF Notify, NotifyPolicyChange, Restart, AclIsOwed
<1>2. CASE CompileACLSnapshot
  <2>1. Authorized' = Authorized
    BY <1>2, AuthorizedSame DEF CompileACLSnapshot, userVars
  <2> QED BY <1>2, <2>1 DEF CompileACLSnapshot, AclIsOwed
<1>3. ASSUME NEW d \in Devices,
             \/ authorizeDeviceIssuance(d) \/ insertClientDevice(d)
             \/ updateClientDeviceCert(d) \/ RevokeDevice(d)
      PROVE  AclIsOwed'
  <2>1. CASE d \in owed'
    BY <2>1 DEF AclIsOwed
  <2>2. CASE d \notin owed'
    <3>1. UNCHANGED <<deviceRest, owed>>
      BY <1>3, <2>2 DEF authorizeDeviceIssuance, insertClientDevice, updateClientDeviceCert,
                        RevokeDevice
    <3>2. \A c \in Devices : (device'[c].step = "recorded" /\ ~device'[c].revoked)
                                <=> (device[c].step = "recorded" /\ ~device[c].revoked)
      <4>1. device \in [Devices -> Device]
        BY DEF OwedInv, TypeInv, TypeOK
      <4>2. PICK rec : Row(d, rec) /\ rec.step # "recorded" /\ device[d].step # "recorded"
        <5>1. NoDevice.step = "none"
          BY DEF NoDevice
        <5>2. [NoDevice EXCEPT !.step = "authorized", !.gen = gen].step = "authorized"
          BY DEF NoDevice
        <5>3. [device[d] EXCEPT !.step = "inserted"].step = "inserted"
          BY <4>1 DEF Device
        <5> QED BY <1>3, <2>2, <5>1, <5>2, <5>3
              DEF authorizeDeviceIssuance, insertClientDevice, updateClientDeviceCert,
                  RevokeDevice
      <4> QED BY <4>1, <4>2 DEF Row
    <3>3. Authorized' = Authorized
      BY <3>1, <3>2, AuthorizedSame DEF deviceRest, userVars
    <3> QED BY <1>k, <3>1, <3>3 DEF deviceRest
  <2> QED BY <2>1, <2>2
<1>4. CASE \E hard \in BOOLEAN : Deprovision(hard)
  BY <1>4 DEF Deprovision, AclIsOwed
<1>5. CASE Reactivate
  <2>1. PICK e \in Events :
            e = ops + 1 /\ event' = [event EXCEPT ![e] = [kind |-> "re_enroll", done |-> FALSE]]
    <3>1. ops + 1 \in Events
      BY <1>5, TrustAssumption DEF Reactivate, Enqueue, OwedInv, TypeInv, TypeOK, Events
    <3>2. event' = [event EXCEPT ![ops + 1] = [kind |-> "re_enroll", done |-> FALSE]]
      BY <1>5 DEF Reactivate, Enqueue
    <3> QED BY <3>1, <3>2
  <2>2. event'[e].kind = "re_enroll" /\ ~event'[e].done
    BY <2>1 DEF OwedInv, TypeInv, TypeOK
  <2>3. event[e].kind = "none"
    BY <2>1 DEF OwedInv, TypeInv, TypeOK, EventShape, Events
  <2>4. ~Handled(e)'
    <3>1. worker' = worker
      BY <1>5 DEF Reactivate
    <3>2. \A w \in Workers : worker[w].step # "idle" => worker[w].event # e
      BY <2>3 DEF OwedInv, TypeInv, TypeOK
    <3> QED BY <3>1, <3>2 DEF Handled
  <2> QED BY <2>2, <2>4 DEF AclIsOwed, ReEnrollDue
<1>6. CASE UNCHANGED vars
  <2>1. Authorized' = Authorized
    BY <1>6, AuthorizedSame DEF vars, userVars
  <2> QED BY <1>6, <1>k, <2>1 DEF vars
<1> QED BY <1>1, <1>2, <1>3, <1>4, <1>5, <1>6, DeliveryOwes DEF Next

-----------------------------------------------------------------------------
(* The theorems *)

\* Every reachable state is well typed, for any devices, workers and bounds.
THEOREM TypeCorrect == Spec => []TypeOK
<1>1. TypeInv => TypeOK
  BY DEF TypeInv
<1> QED BY <1>1, TypeInit, TypeStep, PTL DEF Spec

\* A stale ACL is always owed a notification: by a call, by a delivery that has
\* updated, or by a re-enrolment event (device_trust_handler.go, service.go).
THEOREM StaleAclOwed == Spec => []StaleAclIsOwed
<1>1. Init => OwedInv
  BY TypeInit DEF OwedInv, Init, AclIsOwed
<1>2. OwedInv => StaleAclIsOwed
  BY DEF OwedInv, AclIsOwed, ReEnrollDue, StaleAclIsOwed
<1> QED BY <1>1, <1>2, OwedStep, PTL DEF Spec
=============================================================================
