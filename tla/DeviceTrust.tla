----------------------------- MODULE DeviceTrust -----------------------------
(***************************************************************************)
(* The devices of one user: enrolment (client/service.go), revocation by    *)
(* the owner or an administrator, suspension, deletion and reactivation of  *)
(* the user by a directory (scim/directory_service.go), and the two outbox  *)
(* events these commit, which revoke the user's devices and ask for their   *)
(* re-enrolment (client/device_trust_handler.go).                           *)
(*                                                                         *)
(* The outbox delivers each event at least once, to any of its workers, in  *)
(* any order; Outbox models how.  Of the ACL, the model keeps the set of    *)
(* devices the cached snapshot admits; PolicyDistribution models how a      *)
(* notification makes it current.                                           *)
(***************************************************************************)
EXTENDS Integers, FiniteSets

CONSTANTS
    Devices,   \* devices of the user
    Workers,   \* outbox deliveries that may run at once
    MaxOps,    \* bound: directory operations
    MaxFaults  \* bound: restarts, failed statements, expired leases

ASSUME TrustAssumption ==
    /\ Devices \cap Workers = {} /\ "directory" \notin Devices \cup Workers
    /\ MaxOps \in Nat /\ MaxFaults \in Nat

VARIABLES
    status,  \* users.status
    gen,     \* users.identity_generation
    member,  \* the user's group memberships exist
    device,  \* [Devices -> a client_devices row and the call that enrols it]
    event,   \* [1..MaxOps -> a device-trust event]
    worker,  \* [Workers -> a run of an event handler]
    owed,    \* calls that have committed and have yet to notify
    acl,     \* devices of the cached ACL snapshot, or NoAcl
    ops,     \* directory operations so far
    faults   \* faults so far

userVars == <<status, gen, member>>
boundVars == <<ops, faults>>
vars == <<userVars, device, event, worker, owed, acl, boundVars>>

-----------------------------------------------------------------------------
Events == 1..MaxOps
NoEvent == 0
NoAcl == {"stale"}

\* step: how far EnrollDevice is; gen: the generation of its access token;
\* revoked: revoked_at is set; marked: status = 're_enroll_required';
\* cut: history, the certificate was on record when the user was deprovisioned;
\* back: history, the user was reactivated after that.
NoDevice == [step |-> "none", gen |-> 0, revoked |-> FALSE, marked |-> FALSE,
             cut |-> FALSE, back |-> FALSE]
Device == [step : {"none", "authorized", "inserted", "recorded"}, gen : 0..MaxOps,
           revoked : BOOLEAN, marked : BOOLEAN, cut : BOOLEAN, back : BOOLEAN]

Event == [kind : {"none", "revoke", "re_enroll"}, done : BOOLEAN]
IdleWorker == [step |-> "idle", event |-> NoEvent]
Worker == [step : {"idle", "claimed", "updated", "handled"}, event : Events \cup {NoEvent}]

HasRow(d) == device[d].step \in {"inserted", "recorded"}

\* What ListActiveDeviceSPIFFEsForGroups selects.
Authorized ==
    {d \in Devices : /\ device[d].step = "recorded" /\ ~device[d].revoked
                     /\ status = "active" /\ member}

\* Every variable has its type; an event is claimed only once it exists, and
\* only a row can be revoked or marked.
TypeOK ==
    /\ status \in {"active", "suspended", "deleted"}
    /\ gen \in 0..MaxOps /\ member \in BOOLEAN
    /\ device \in [Devices -> Device]
    /\ \A d \in Devices : device[d].revoked \/ device[d].marked => HasRow(d)
    /\ event \in [Events -> Event]
    /\ worker \in [Workers -> Worker]
    /\ \A w \in Workers : worker[w].step # "idle" => event[worker[w].event].kind # "none"
    /\ owed \subseteq Devices \cup {"directory"}
    /\ acl \in (SUBSET Devices) \cup {NoAcl}
    /\ ops \in 0..MaxOps /\ faults \in 0..MaxFaults

Init ==
    /\ status = "active" /\ gen = 0 /\ member = TRUE
    /\ device = [d \in Devices |-> NoDevice]
    /\ event = [e \in Events |-> [kind |-> "none", done |-> FALSE]]
    /\ worker = [w \in Workers |-> IdleWorker]
    /\ owed = {} /\ acl = NoAcl
    /\ ops = 0 /\ faults = 0

-----------------------------------------------------------------------------
(* NotifyPolicyChange and the ACL compile *)

\* The cached snapshot is invalidated.
NotifyPolicyChange == acl' = NoAcl

Notify(x) ==
    /\ x \in owed
    /\ owed' = owed \ {x}
    /\ NotifyPolicyChange
    /\ UNCHANGED <<userVars, device, event, worker, boundVars>>

CompileACLSnapshot ==
    /\ acl = NoAcl
    /\ acl' = Authorized
    /\ UNCHANGED <<userVars, device, event, worker, owed, boundVars>>

-----------------------------------------------------------------------------
(* EnrollDevice *)

deviceRest == <<userVars, event, worker, acl, boundVars>>

Row(d, rec) == device' = [device EXCEPT ![d] = rec]

\* authorizeDeviceIssuance: an active user, a token of the current generation.
authorizeDeviceIssuance(d) ==
    /\ device[d].step = "none"
    /\ status = "active"
    /\ Row(d, [NoDevice EXCEPT !.step = "authorized", !.gen = gen])
    /\ UNCHANGED <<deviceRest, owed>>

insertClientDevice(d) ==
    /\ device[d].step = "authorized"
    /\ Row(d, [device[d] EXCEPT !.step = "inserted"])
    /\ UNCHANGED <<deviceRest, owed>>

\* updateClientDeviceCert: recorded only while the owner is active, else the
\* row is deleted and no certificate returned.
updateClientDeviceCert(d) ==
    /\ device[d].step = "inserted"
    /\ IF status = "active"
       THEN /\ Row(d, [device[d] EXCEPT !.step = "recorded"])
            /\ owed' = owed \cup {d}
       ELSE Row(d, NoDevice) /\ UNCHANGED owed
    /\ UNCHANGED deviceRest

\* RevokeDevice, by the owner or an administrator.
RevokeDevice(d) ==
    /\ device[d].step = "recorded" /\ d \notin owed
    /\ ~device[d].revoked
    /\ Row(d, [device[d] EXCEPT !.revoked = TRUE])
    /\ owed' = owed \cup {d}
    /\ UNCHANGED deviceRest

\* deviceGate, apart from RENEW_SOON.
deviceGate(d) ==
    CASE device[d].marked -> "RE_ENROLL_REQUIRED"
      [] ~device[d].marked /\ device[d].revoked -> "REVOKED"
      [] OTHER -> "NONE"

-----------------------------------------------------------------------------
(* The directory *)

Enqueue(kind) ==
    /\ ops < MaxOps
    /\ ops' = ops + 1
    /\ event' = [event EXCEPT ![ops + 1] = [kind |-> kind, done |-> FALSE]]

\* Deprovision: status, generation, memberships and event in one transaction;
\* the notification follows.
Deprovision(hard) ==
    /\ "directory" \notin owed
    /\ Enqueue("revoke")
    /\ status' = IF hard THEN "deleted" ELSE "suspended"
    /\ gen' = gen + 1
    /\ member' = (member /\ ~hard)
    /\ device' = [d \in Devices |->
           IF device[d].step = "recorded"
           THEN [device[d] EXCEPT !.cut = TRUE, !.back = FALSE] ELSE device[d]]
    /\ owed' = owed \cup {"directory"}
    /\ UNCHANGED <<worker, acl, faults>>

\* Reactivate: its event carries the notification.
Reactivate ==
    /\ "directory" \notin owed
    /\ Enqueue("re_enroll")
    /\ status' = "active"
    /\ device' = [d \in Devices |-> [device[d] EXCEPT !.back = device[d].cut]]
    /\ UNCHANGED <<gen, member, worker, owed, acl, faults>>

-----------------------------------------------------------------------------
(* The outbox's deliveries *)

workerRest == <<userVars, owed, ops>>

Claimed(e) == \E w \in Workers : worker[w].event = e

\* Fault: an event is taken before the transaction that writes it.
ClaimUnwritten(w, e) ==
    /\ worker[w].step = "idle" /\ ~event[e].done
    /\ worker' = [worker EXCEPT ![w] = [step |-> "claimed", event |-> e]]
    /\ UNCHANGED <<workerRest, device, event, acl, faults>>

\* A worker takes an event, which another may still be working on when that
\* one's lease has expired.
Claim(w, e) ==
    /\ worker[w].step = "idle"
    /\ event[e].kind # "none" /\ ~event[e].done
    /\ IF Claimed(e) THEN faults < MaxFaults /\ faults' = faults + 1
                     ELSE UNCHANGED faults
    /\ worker' = [worker EXCEPT ![w] = [step |-> "claimed", event |-> e]]
    /\ UNCHANGED <<workerRest, device, event, acl>>

Step(w, s) == worker' = [worker EXCEPT ![w].step = s]

Handles(w, kind) == worker[w].step = "claimed" /\ event[worker[w].event].kind = kind

\* Fault: only devices in good standing are revoked.
revokeUserDevicesUnmarked ==
    {d \in Devices : HasRow(d) /\ ~device[d].revoked /\ ~device[d].marked}

\* The rows revokeUserDevices updates.
revokeUserDevices == {d \in Devices : HasRow(d) /\ ~device[d].revoked}

\* Fault: the revoking handler leaves the notification to Deprovision.
HandleRevokeSilent(w) ==
    /\ Handles(w, "revoke")
    /\ device' = [d \in Devices |->
           [device[d] EXCEPT !.revoked = @ \/ d \in revokeUserDevices]]
    /\ Step(w, "handled")
    /\ UNCHANGED <<workerRest, event, acl, faults>>

\* DeviceTrustRevokeHandler.Handle up to its UPDATE; with no row updated it
\* returns at once.
HandleRevoke(w) ==
    /\ Handles(w, "revoke")
    /\ device' = [d \in Devices |->
           [device[d] EXCEPT !.revoked = @ \/ d \in revokeUserDevices]]
    /\ Step(w, IF revokeUserDevices = {} THEN "handled" ELSE "updated")
    /\ UNCHANGED <<workerRest, event, acl, faults>>

\* Fault: the re-enrolment mark is only for devices that are revoked already.
markUserDevicesRevoked == {d \in Devices : HasRow(d) /\ device[d].revoked}

\* The rows markUserDevicesReEnrollRequired updates.
markUserDevicesReEnrollRequired == {d \in Devices : HasRow(d)}

\* DeviceTrustReEnrollHandler.Handle up to its UPDATE.
HandleReEnroll(w) ==
    /\ Handles(w, "re_enroll")
    /\ device' = [d \in Devices |->
           [device[d] EXCEPT !.marked = @ \/ d \in markUserDevicesReEnrollRequired]]
    /\ Step(w, "updated")
    /\ UNCHANGED <<workerRest, event, acl, faults>>

\* Either handler's notification.
HandlerNotifies(w) ==
    /\ worker[w].step = "updated"
    /\ Step(w, "handled")
    /\ NotifyPolicyChange
    /\ UNCHANGED <<workerRest, device, event, faults>>

\* The handler has returned nil: the event is done.
MarkDone(w) ==
    /\ worker[w].step = "handled"
    /\ event' = [event EXCEPT ![worker[w].event].done = TRUE]
    /\ worker' = [worker EXCEPT ![w] = IdleWorker]
    /\ UNCHANGED <<workerRest, device, acl, faults>>

\* The UPDATE fails: the event is tried again later.
HandlerFails(w) ==
    /\ worker[w].step = "claimed"
    /\ faults < MaxFaults /\ faults' = faults + 1
    /\ worker' = [worker EXCEPT ![w] = IdleWorker]
    /\ UNCHANGED <<workerRest, device, event, acl>>

-----------------------------------------------------------------------------
\* The controller restarts: calls and deliveries are cut short and the cache is
\* gone; a row without a certificate authorizes nothing and is left out.
Restart ==
    /\ faults < MaxFaults /\ faults' = faults + 1
    /\ device' = [d \in Devices |->
           IF device[d].step = "recorded" THEN device[d] ELSE NoDevice]
    /\ worker' = [w \in Workers |-> IdleWorker]
    /\ owed' = {} /\ acl' = NoAcl
    /\ UNCHANGED <<userVars, event, ops>>

Deliver(w) ==
    \/ \E e \in Events : Claim(w, e)
    \/ HandleRevoke(w) \/ HandleReEnroll(w) \/ HandlerNotifies(w) \/ MarkDone(w)

Next ==
    \/ \E x \in Devices \cup {"directory"} : Notify(x)
    \/ CompileACLSnapshot
    \/ \E d \in Devices : \/ authorizeDeviceIssuance(d) \/ insertClientDevice(d)
                          \/ updateClientDeviceCert(d) \/ RevokeDevice(d)
    \/ \E hard \in BOOLEAN : Deprovision(hard)
    \/ Reactivate
    \/ \E w \in Workers : Deliver(w) \/ HandlerFails(w)
    \/ Restart

Spec == Init /\ [][Next]_vars

\* The workers run and calls reach their next line; nobody need enrol, revoke
\* or compile.
FairSpec ==
    /\ Spec
    /\ \A w \in Workers : WF_vars(Deliver(w))
    /\ \A x \in Devices \cup {"directory"} : WF_vars(Notify(x))

-----------------------------------------------------------------------------
(* Properties *)

\* The cached ACL differs from what the database authorizes only while a call
\* that made the difference has yet to notify, or the event that will is still
\* to be handled: a delivery that finds nothing left to revoke may skip its
\* notification, since the one that did the work still owes it or was cut short
\* together with the cache.
StaleAclIsOwed ==
    acl # NoAcl /\ acl # Authorized =>
        \/ owed # {}
        \/ \E w \in Workers : worker[w].step = "updated"
        \/ \E e \in Events : event[e].kind = "re_enroll" /\ ~event[e].done

\* Deprovisioning reaches every device that had its certificate by then,
\* whatever enrols, restarts or is delivered twice or out of order, and also
\* when the re-enrolment of a later reactivation is delivered first.
CutDevicesAreRevoked ==
    <>[](\A d \in Devices : device[d].cut => device[d].revoked)

\* "so the next 60s ACL poll's deviceGate reports RE_ENROLL_REQUIRED instead of
\* the terminal REVOKED": the devices of a reactivated user come to say so,
\* whichever of the two events is delivered last.
ReactivatedDevicesReEnroll ==
    <>[](\A d \in Devices : device[d].back => deviceGate(d) = "RE_ENROLL_REQUIRED")

\* "a suspension that lands while a certificate is being issued means no
\* certificate is returned" (issuance_authz.go): once the events are done, an
\* authorized device was enrolled under the user's current generation.
NoCertAcrossSuspension ==
    (\A e \in Events : event[e].kind # "none" => event[e].done) =>
        \A d \in Authorized : device[d].gen = gen
=============================================================================
