----------------------- MODULE ShieldResourcesProofs ------------------------
(* Proofs about ShieldResources, from one inductive invariant.  That a shield *)
(* applies exactly a published set needs that every published rule is for the *)
(* shield's own host, hence that an enforced row is bound to the shield on    *)
(* its host, hence that no verdict is about another host: the invariant goes  *)
(* once round the loop from the table through the wire and the shield back to *)
(* the table.                                                                 *)
EXTENDS ShieldResources, TLAPS

-----------------------------------------------------------------------------
(* The invariant *)

\* TypeOK, by the part of the system it is about.
StoreOK ==
    /\ row \in [Resources -> Row]
    /\ read \in [Resources -> Row \cup {NoRead}]
    /\ live \subseteq Shields /\ push \subseteq Shields
    /\ wanted \in [Resources -> {"protect", "unprotect", "delete"}]
    /\ ops \in 0..MaxOps

WireOK ==
    /\ published \in [Shields -> Seq(SUBSET Rule)]
    /\ builds \subseteq [shield : Shields, gen : Nat]
    /\ cache \in [Shields -> Msg \cup {NoMsg}]
    /\ inbox \in [Shields -> SUBSET Msg]

ShieldOK ==
    /\ active \in [Shields -> SUBSET Rule]
    /\ floor \in [Shields -> Nat]
    /\ fresh \in [Shields -> BOOLEAN]

BackOK ==
    /\ acks \subseteq Ack
    /\ drift \in [Shields -> 0..(DriftReports - 1)]
    /\ absent \in [Resources -> 0..(AbsentReports - 1)]
    /\ online \in BOOLEAN /\ lost \in BOOLEAN /\ faults \in 0..MaxFaults

\* Whatever is on its way to a shield, and what the shield has reached, is a
\* generation that was published for it.
Gens ==
    /\ \A b \in builds : b.gen \in 1..Len(published[b.shield])
    /\ \A s \in Shields :
          /\ cache[s] # NoMsg => cache[s].gen \in 1..Len(published[s])
          /\ \A m \in inbox[s] : m.gen \in 1..Len(published[s])
          /\ floor[s] <= Len(published[s])

\* Every published rule is for its shield's own host.
SoundPublished ==
    \A s \in Shields : \A g \in 1..Len(published[s]) : \A u \in published[s][g] : u.host = s

\* A shield enforces the set of the generation it has reached, or nothing.
ActiveIsReached ==
    \A s \in Shields : active[s] # {} => floor[s] >= 1 /\ active[s] = published[s][floor[s]]

\* The shield has reached a generation with this rule.
Reached(s, u) == s \in Shields /\ \E g \in 1..floor[s] : u \in published[s][g]

\* A verdict is about a rule the shield has reached, for its own host.
SoundAcks ==
    \A a \in acks : a.status # "unprotected" => a.rule.host = a.shield /\ Reached(a.shield, a.rule)

\* A row x of resource r whose last request was w.
SoundRow(r, x, w) ==
    /\ Enforced(x) => x.host = x.shield
    /\ x.status \in {"new", "unprotected"} \/ Removing(x) => w # "protect"
    /\ x.status \in {"protected", "failed"} =>
          Reached(x.shield, [id |-> r, host |-> x.host, port |-> x.port])

SoundRows == \A r \in Resources : SoundRow(r, row[r], wanted[r])

WireInv == WireOK /\ ShieldOK /\ Gens /\ SoundPublished /\ ActiveIsReached

ResourceInv == StoreOK /\ BackOK /\ WireInv /\ SoundAcks /\ SoundRows

-----------------------------------------------------------------------------
(* What the operators return *)

\* Acks about a set of rules.
LEMMA AcksForType ==
    ASSUME NEW s \in Shields, NEW rules \in SUBSET Rule,
           NEW status \in {"protected", "failed", "unprotected"}
    PROVE  \A a \in AcksFor(s, rules, status) :
               a \in Ack /\ a.shield = s /\ a.rule \in rules /\ a.status = status
BY DEF AcksFor, Ack

\* A verdict on a set of rules is about its rules.
LEMMA VerdictType ==
    ASSUME NEW s \in Shields, NEW rules \in SUBSET Rule, NEW verdicts \in Verdicts(s, rules)
    PROVE  \A a \in verdicts : a \in Ack /\ a.shield = s /\ a.rule \in rules
<1>1. PICK down \in SUBSET rules :
          verdicts = AcksFor(s, rules \ down, "protected") \cup AcksFor(s, down, "failed")
  BY DEF Verdicts
<1>2. rules \ down \in SUBSET Rule /\ down \in SUBSET Rule
  OBVIOUS
<1>3. \A a \in AcksFor(s, rules \ down, "protected") : a \in Ack /\ a.shield = s /\ a.rule \in rules
  BY <1>2, AcksForType
<1>4. \A a \in AcksFor(s, down, "failed") : a \in Ack /\ a.shield = s /\ a.rule \in rules
  BY <1>2, AcksForType
<1> QED BY <1>1, <1>3, <1>4

\* A row names a rule.
LEMMA RuleOfType ==
    ASSUME row \in [Resources -> Row], NEW r \in Resources
    PROVE  RuleOf(r) \in Rule /\ RuleOf(r).host = row[r].host
BY DEF RuleOf, Rule, Row

\* The desired set is of rules for the shield's own host, when the table is sound.
LEMMA DesiredType ==
    ASSUME ResourceInv, NEW s \in Shields
    PROVE  /\ Desired(s) \in SUBSET Rule /\ Removes(s) \in SUBSET Rule
           /\ \A u \in Desired(s) : u.host = s
<1>1. row \in [Resources -> Row]
  BY DEF ResourceInv, StoreOK
<1>2. Desired(s) \in SUBSET Rule /\ Removes(s) \in SUBSET Rule
  BY <1>1, RuleOfType DEF Desired, Removes
<1>3. ASSUME NEW r \in Resources, row[r].shield = s, Enforced(row[r]) PROVE RuleOf(r).host = s
  BY <1>1, <1>3, RuleOfType DEF ResourceInv, SoundRows, SoundRow
<1>4. \A u \in Desired(s) : u.host = s
  BY <1>3 DEF Desired
<1> QED BY <1>2, <1>4

\* A hard delete leaves a row.
LEMMA GoneType ==
    ASSUME row \in [Resources -> Row], NEW r \in Resources
    PROVE  Gone(r) \in Row /\ Gone(r).status = "gone"
BY DEF Gone, Row

\* Nothing is asked of a row that is gone or a tombstone.
LEMMA DeadRow ==
    ASSUME NEW r, NEW x, NEW w, x.status \in {"gone", "deleting"}
    PROVE  SoundRow(r, x, w) /\ SoundRow(r, x, w)'
BY DEF SoundRow, Enforced, Removing

-----------------------------------------------------------------------------
(* What a step leaves alone *)

\* Published generations stay, and floors do not go back.
Forward ==
    \A s \in Shields :
        /\ floor'[s] \in Nat /\ floor[s] <= floor'[s]
        /\ \A g \in 1..floor[s] : published'[s][g] = published[s][g]

\* What a shield has reached, it has reached for good.
LEMMA ReachedKept ==
    ASSUME ResourceInv, Forward, NEW s, NEW u, Reached(s, u)
    PROVE  Reached(s, u)'
<1>1. PICK g \in 1..floor[s] : s \in Shields /\ u \in published[s][g]
  BY DEF Reached
<1>2. floor[s] \in Nat
  BY <1>1 DEF ResourceInv, WireInv, ShieldOK
<1>3. g \in 1..floor'[s] /\ u \in published'[s][g]
  BY <1>1, <1>2 DEF Forward
<1> QED BY <1>1, <1>3 DEF Reached

\* A sound row stays sound.
LEMMA RowKept ==
    ASSUME ResourceInv, Forward, NEW r, NEW x, NEW w, SoundRow(r, x, w)
    PROVE  SoundRow(r, x, w)'
<1>1. x.status \in {"protected", "failed"} =>
          Reached(x.shield, [id |-> r, host |-> x.host, port |-> x.port])'
  BY ReachedKept DEF SoundRow
<1> QED BY <1>1 DEF SoundRow, Enforced, Removing

\* The table is sound after a step that leaves it alone.
LEMMA RowsKept ==
    ASSUME ResourceInv, Forward, UNCHANGED <<row, wanted>>
    PROVE  SoundRows'
<1>1. \A r \in Resources : SoundRow(r, row[r], wanted[r])
  BY DEF ResourceInv, SoundRows
<1>2. ASSUME NEW r \in Resources, NEW x, NEW w, SoundRow(r, x, w), row'[r] = x, wanted'[r] = w
      PROVE  SoundRow(r, row[r], wanted[r])'
  <2>1. SoundRow(r, x, w)'
    BY <1>2, RowKept
  <2> QED BY <1>2, <2>1 DEF SoundRow
<1>3. \A r \in Resources : SoundRow(r, row[r], wanted[r])'
  BY <1>1, <1>2
<1> QED BY <1>3 DEF SoundRows

\* Acks on their way stay sound.
LEMMA AcksKept ==
    ASSUME ResourceInv, Forward, acks' \subseteq acks
    PROVE  SoundAcks'
<1>1. ASSUME NEW a \in acks, a.status # "unprotected"
      PROVE  a.rule.host = a.shield /\ Reached(a.shield, a.rule)'
  BY <1>1, ReachedKept DEF ResourceInv, SoundAcks
<1> QED BY <1>1 DEF SoundAcks

\* A step that leaves the wire and the shields alone.
LEMMA WireKept ==
    ASSUME ResourceInv, UNCHANGED <<published, builds, cache, inbox, shld>>
    PROVE  WireInv' /\ Forward
<1>1. WireInv'
  BY DEF ResourceInv, WireInv, WireOK, ShieldOK, Gens, SoundPublished, ActiveIsReached, shld
<1>2. Forward
  BY DEF Forward, ResourceInv, WireInv, ShieldOK, shld
<1> QED BY <1>1, <1>2

-----------------------------------------------------------------------------
(* Admin operations *)

Wish == {"protect", "unprotect", "delete"}

\* The variables no admin operation touches.
adminRest == <<published, builds, cache, inbox, shld, back, online, lost, faults>>

\* A new row for one resource, and a new wish.
LEMMA RowSet ==
    ASSUME ResourceInv, Forward, NEW r \in Resources, NEW rec \in Row, NEW w \in Wish,
           row' = [row EXCEPT ![r] = rec],
           wanted' \in [Resources -> Wish], wanted'[r] = w,
           \A q \in Resources \ {r} : wanted'[q] = wanted[q],
           SoundRow(r, rec, w)
    PROVE  row' \in [Resources -> Row] /\ SoundRows'
<1>1. /\ row' \in [Resources -> Row] /\ row'[r] = rec
      /\ \A q \in Resources \ {r} : row'[q] = row[q]
  BY DEF ResourceInv, StoreOK
<1>2. ASSUME NEW q \in Resources, NEW x, NEW y, SoundRow(q, x, y), row'[q] = x, wanted'[q] = y
      PROVE  SoundRow(q, row[q], wanted[q])'
  <2>1. SoundRow(q, x, y)'
    BY <1>2, RowKept
  <2> QED BY <1>2, <2>1 DEF SoundRow
<1>3. SoundRow(r, row[r], wanted[r])'
  BY <1>1, <1>2
<1>4. \A q \in Resources \ {r} : SoundRow(q, row[q], wanted[q])
  BY DEF ResourceInv, SoundRows
<1>5. \A q \in Resources \ {r} : SoundRow(q, row[q], wanted[q])'
  BY <1>1, <1>2, <1>4
<1> QED BY <1>1, <1>3, <1>5 DEF SoundRows

\* What an operation that is not a delete does to the counters and the wish.
LEMMA AdminOpType ==
    ASSUME ResourceInv, NEW r \in Resources, NEW w \in Wish, AdminOp(r, w)
    PROVE  /\ wanted' \in [Resources -> Wish] /\ wanted'[r] = w
           /\ \A q \in Resources \ {r} : wanted'[q] = wanted[q]
           /\ ops' \in 0..MaxOps /\ UNCHANGED adminRest
<1>1. UNCHANGED adminRest /\ wanted' = [wanted EXCEPT ![r] = w]
  BY DEF AdminOp, adminRest
<1>2. ops' \in 0..MaxOps
  BY BoundsAssumption DEF AdminOp, ResourceInv, StoreOK
<1> QED BY <1>1, <1>2 DEF ResourceInv, StoreOK, Wish

\* What the answer of a delete does to the request and the wish.
LEMMA AnswerType ==
    ASSUME ResourceInv, NEW r \in Resources, NEW w \in Wish, Answer(r, w)
    PROVE  /\ wanted' \in [Resources -> Wish] /\ wanted'[r] = w
           /\ \A q \in Resources \ {r} : wanted'[q] = wanted[q]
           /\ read' \in [Resources -> Row \cup {NoRead}] /\ read[r] \in Row
           /\ UNCHANGED <<live, ops>> /\ UNCHANGED adminRest
<1>1. UNCHANGED <<live, ops>> /\ UNCHANGED adminRest /\ wanted' = [wanted EXCEPT ![r] = w]
  BY DEF Answer, adminRest
<1>2. read' \in [Resources -> Row \cup {NoRead}] /\ read[r] \in Row
  BY DEF Answer, ResourceInv, StoreOK
<1> QED BY <1>1, <1>2 DEF ResourceInv, StoreOK, Wish

\* The shield of a row is one that can be pushed to.
LEMMA BoundType == ASSUME NEW x \in Row PROVE Bound(x) \subseteq Shields
BY NamesAssumption DEF Bound, Row

\* The resolvers that create, protect, unprotect and update.
LEMMA ChangeStep ==
    ASSUME ResourceInv, NEW r \in Resources,
           \/ Create(r) \/ MarkProtecting(r) \/ MarkUnprotecting(r)
           \/ \E h \in Shields, p \in Ports : Update(r, h, p)
    PROVE  StoreOK' /\ SoundRows' /\ UNCHANGED adminRest
<1>t. /\ row[r] \in Row /\ wanted[r] \in Wish /\ SoundRow(r, row[r], wanted[r])
      /\ read \in [Resources -> Row \cup {NoRead}] /\ live \subseteq Shields /\ push \subseteq Shields
  BY DEF ResourceInv, StoreOK, SoundRows, Wish
<1>f. UNCHANGED adminRest => Forward
  BY WireKept DEF adminRest
<1>q. ASSUME NEW rec \in Row, row' = [row EXCEPT ![r] = rec], NEW w \in Wish, AdminOp(r, w),
             SoundRow(r, rec, w), push' \subseteq Shields, UNCHANGED <<read, live>>
      PROVE  StoreOK' /\ SoundRows' /\ UNCHANGED adminRest
  <2>1. /\ wanted' \in [Resources -> Wish] /\ wanted'[r] = w
        /\ \A q \in Resources \ {r} : wanted'[q] = wanted[q]
        /\ ops' \in 0..MaxOps /\ UNCHANGED adminRest
    BY <1>q, AdminOpType
  <2>2. row' \in [Resources -> Row] /\ SoundRows'
    BY <1>f, <1>q, <2>1, RowSet
  <2> QED BY <1>q, <1>t, <2>1, <2>2 DEF StoreOK, Wish
<1>1. CASE Create(r)
  <2> DEFINE sh == IF row[r].host \in live THEN row[r].host ELSE NoShield
             rec == [row[r] EXCEPT !.status = "unprotected", !.shield = sh]
  <2>1. rec \in Row /\ rec.status = "unprotected"
    BY <1>t DEF Row
  <2>2. row' = [row EXCEPT ![r] = rec]
    BY <1>1 DEF Create
  <2>3. /\ row[r].status = "new" /\ UNCHANGED <<adminRest, wanted, ops, read, live, push>>
    BY <1>1 DEF Create, adminRest, wire, hist
  <2> HIDE DEF rec
  <2>4. SoundRow(r, rec, wanted[r])
    BY <1>t, <2>1, <2>3 DEF SoundRow, Enforced, Removing
  <2>5. wanted' \in [Resources -> Wish] /\ wanted' = wanted
    BY <2>3 DEF ResourceInv, StoreOK, Wish
  <2>6. row' \in [Resources -> Row] /\ SoundRows'
    BY <1>f, <1>t, <2>1, <2>2, <2>3, <2>4, <2>5, RowSet
  <2>7. ops' \in 0..MaxOps
    BY <2>3 DEF ResourceInv, StoreOK
  <2> QED BY <1>t, <2>3, <2>5, <2>6, <2>7 DEF StoreOK, Wish
<1>2. CASE MarkProtecting(r)
  <2> DEFINE rec == [row[r] EXCEPT !.shield = row[r].host, !.status = "protecting", !.action = "apply"]
  <2>1. /\ rec \in Row /\ rec.status = "protecting" /\ rec.action = "apply"
        /\ rec.host = row[r].host /\ rec.shield = row[r].host
    BY <1>t DEF Row
  <2>2. row' = [row EXCEPT ![r] = rec]
    BY <1>2 DEF MarkProtecting
  <2>3. /\ AdminOp(r, "protect") /\ UNCHANGED <<read, live>> /\ push' = push \cup {row[r].host}
    BY <1>2 DEF MarkProtecting
  <2> HIDE DEF rec
  <2>4. SoundRow(r, rec, "protect")
    BY <2>1 DEF SoundRow, Enforced, Removing
  <2>5. push' \subseteq Shields /\ "protect" \in Wish
    BY <1>t, <2>3 DEF Row, Wish
  <2> QED BY <1>q, <2>1, <2>2, <2>3, <2>4, <2>5
<1>3. CASE MarkUnprotecting(r)
  <2> DEFINE st == IF ShieldGone(row[r]) THEN "unprotected" ELSE "protecting"
             rec == [row[r] EXCEPT !.status = st, !.action = "remove"]
  <2>1. st \in {"unprotected", "protecting"}
    OBVIOUS
  <2>2. row' = [row EXCEPT ![r] = rec]
    BY <1>3 DEF MarkUnprotecting
  <2> HIDE DEF st
  <2>3. rec \in Row /\ rec.status = st /\ rec.action = "remove"
    BY <1>t, <2>1 DEF Row
  <2> HIDE DEF rec
  <2>4. AdminOp(r, "unprotect") /\ UNCHANGED <<read, live>>
    BY <1>3 DEF MarkUnprotecting
  <2>5. SoundRow(r, rec, "unprotect")
    BY <2>1, <2>3 DEF SoundRow, Enforced, Removing
  <2>6. push' \subseteq Shields /\ "unprotect" \in Wish
    BY <1>3, <1>t, BoundType DEF MarkUnprotecting, Wish
  <2> QED BY <1>q, <2>2, <2>3, <2>4, <2>5, <2>6
<1>4. ASSUME NEW h \in Shields, NEW p \in Ports, Update(r, h, p)
      PROVE  StoreOK' /\ SoundRows' /\ UNCHANGED adminRest
  <2> DEFINE moved == Enforced(row[r]) /\ h # row[r].host
  <2>1. /\ AdminOp(r, wanted[r]) /\ UNCHANGED <<read, live>>
        /\ row[r].status \notin {"new", "gone", "deleting"} /\ ~Removing(row[r])
    BY <1>4 DEF Update
  <2>2. push' \subseteq Shields
    <3>1. push' = push \cup (IF Enforced(row[r]) THEN Bound(row[r]) ELSE {})
                      \cup (IF moved THEN {h} ELSE {})
      BY <1>4 DEF Update
    <3> QED BY <1>t, <3>1, BoundType
  <2>3. CASE Enforced(row[r])
    <3> DEFINE sh == IF h # row[r].host THEN h ELSE row[r].shield
               rec == [row[r] EXCEPT !.host = h, !.port = p, !.shield = sh,
                                     !.status = "protecting", !.action = "apply"]
    <3>1. sh \in Shields \cup {NoShield} /\ (row[r].host = row[r].shield => sh = h)
      BY <1>t DEF Row
    <3>2. row' = [row EXCEPT ![r] = rec]
      BY <1>4, <2>3 DEF Update
    <3> HIDE DEF sh
    <3>3. /\ rec \in Row /\ rec.status = "protecting" /\ rec.action = "apply"
          /\ rec.host = h /\ rec.shield = sh
      BY <1>t, <3>1 DEF Row
    <3> HIDE DEF rec
    <3>4. row[r].host = row[r].shield
      BY <1>t, <2>3 DEF SoundRow
    <3>5. SoundRow(r, rec, wanted[r])
      BY <3>1, <3>3, <3>4 DEF SoundRow, Enforced, Removing
    <3> QED BY <1>q, <1>t, <2>1, <2>2, <3>2, <3>3, <3>5
  <2>4. CASE ~Enforced(row[r])
    <3> DEFINE rec == [row[r] EXCEPT !.host = h, !.port = p]
    <3>1. row' = [row EXCEPT ![r] = rec]
      <4>1. row' = [row EXCEPT ![r].host = h, ![r].port = p, ![r].shield = row[r].shield,
                               ![r].status = row[r].status, ![r].action = row[r].action]
        BY <1>4, <2>4 DEF Update
      <4>2. [row[r] EXCEPT !.host = h, !.port = p, !.shield = row[r].shield,
                           !.status = row[r].status, !.action = row[r].action] = rec
        BY <1>t DEF Row
      <4>3. row' = [row EXCEPT ![r] = [row[r] EXCEPT !.host = h, !.port = p, !.shield = row[r].shield,
                                        !.status = row[r].status, !.action = row[r].action]]
        BY <4>1
      <4> QED BY <4>2, <4>3
    <3>2. rec \in Row /\ rec.status = row[r].status /\ rec.action = row[r].action
      BY <1>t DEF Row
    <3> HIDE DEF rec
    <3>3. row[r].status = "unprotected"
      BY <1>t, <2>1, <2>4 DEF Row, Enforced, Removing
    <3>4. wanted[r] # "protect"
      BY <1>t, <3>3 DEF SoundRow
    <3>5. SoundRow(r, rec, wanted[r])
      BY <3>2, <3>3, <3>4 DEF SoundRow, Enforced, Removing
    <3> QED BY <1>q, <1>t, <2>1, <2>2, <3>1, <3>2, <3>5
  <2> QED BY <2>3, <2>4
<1> QED BY <1>1, <1>2, <1>3, <1>4

\* The requests that delete, and the sweeper.
LEMMA DeleteStep ==
    ASSUME ResourceInv, NEW r \in Resources,
           \/ GetByID(r) \/ MarkDeleting(r) \/ DeleteIfShieldGone(r)
           \/ DeleteRow(r) \/ ForceDeleteRow(r) \/ DeleteRefused(r) \/ SweepTombstone(r)
    PROVE  StoreOK' /\ SoundRows' /\ UNCHANGED adminRest
<1>t. /\ row[r] \in Row /\ wanted[r] \in Wish /\ SoundRow(r, row[r], wanted[r])
      /\ wanted \in [Resources -> Wish] /\ row \in [Resources -> Row]
      /\ read \in [Resources -> Row \cup {NoRead}] /\ live \subseteq Shields /\ push \subseteq Shields
      /\ ops \in 0..MaxOps
  BY DEF ResourceInv, StoreOK, SoundRows, Wish
<1>f. UNCHANGED adminRest => Forward
  BY WireKept DEF adminRest
<1>g. Gone(r) \in Row /\ Gone(r).status = "gone"
  BY <1>t, GoneType
<1>d. ASSUME Answer(r, "delete"), push' \subseteq Shields, NEW rec \in Row,
             row' = [row EXCEPT ![r] = rec], rec.status \in {"gone", "deleting"}
      PROVE  StoreOK' /\ SoundRows' /\ UNCHANGED adminRest
  <2>1. /\ wanted' \in [Resources -> Wish] /\ wanted'[r] = "delete" /\ "delete" \in Wish
        /\ \A q \in Resources \ {r} : wanted'[q] = wanted[q]
        /\ read' \in [Resources -> Row \cup {NoRead}]
        /\ UNCHANGED <<live, ops>> /\ UNCHANGED adminRest
    BY <1>d, AnswerType DEF Wish
  <2>2. SoundRow(r, rec, "delete")
    BY <1>d, DeadRow
  <2>3. row' \in [Resources -> Row] /\ SoundRows'
    BY <1>d, <1>f, <2>1, <2>2, RowSet
  <2> QED BY <1>d, <1>t, <2>1, <2>3 DEF StoreOK, Wish
<1>b. ASSUME Answer(r, "delete") PROVE Bound(read[r]) \subseteq Shields
  BY <1>b, AnswerType, BoundType DEF Wish
<1>1. CASE GetByID(r)
  <2>1. /\ read' = [read EXCEPT ![r] = row[r]]
        /\ UNCHANGED <<adminRest, row, wanted, live, push>>
    BY <1>1 DEF GetByID, adminRest, wire, hist
  <2>2. ops' \in 0..MaxOps
    BY <1>1, <1>t, BoundsAssumption DEF GetByID
  <2>3. read' \in [Resources -> Row \cup {NoRead}]
    BY <1>t, <2>1
  <2>4. SoundRows'
    BY <1>f, <2>1, RowsKept
  <2> QED BY <1>t, <2>1, <2>2, <2>3, <2>4 DEF StoreOK, Wish
<1>2. CASE MarkDeleting(r)
  <2>1. Answer(r, "delete")
    BY <1>2 DEF MarkDeleting
  <2>2. CASE ShieldGone(row[r])
    <3>1. row' = [row EXCEPT ![r] = Gone(r)] /\ push' = push
      BY <1>2, <2>2 DEF MarkDeleting
    <3> QED BY <1>d, <1>g, <1>t, <2>1, <3>1
  <2>3. CASE ~ShieldGone(row[r])
    <3> DEFINE rec == [row[r] EXCEPT !.status = "deleting", !.action = "remove"]
    <3>1. rec \in Row /\ rec.status = "deleting"
      BY <1>t DEF Row
    <3>2. row' = [row EXCEPT ![r] = rec] /\ push' = push \cup Bound(read[r])
      BY <1>2, <2>3 DEF MarkDeleting
    <3> HIDE DEF rec
    <3> QED BY <1>b, <1>d, <1>t, <2>1, <3>1, <3>2
  <2> QED BY <2>2, <2>3
<1>3. CASE DeleteIfShieldGone(r) \/ DeleteRow(r)
  <2>1. Answer(r, "delete") /\ row' = [row EXCEPT ![r] = Gone(r)] /\ push' = push
    BY <1>3 DEF DeleteIfShieldGone, DeleteRow
  <2> QED BY <1>d, <1>g, <1>t, <2>1
<1>4. CASE ForceDeleteRow(r)
  <2>1. /\ Answer(r, "delete") /\ row' = [row EXCEPT ![r] = Gone(r)]
        /\ push' = push \cup Bound(read[r])
    BY <1>4 DEF ForceDeleteRow
  <2> QED BY <1>b, <1>d, <1>g, <1>t, <2>1
<1>5. CASE DeleteRefused(r)
  <2>1. Answer(r, wanted[r]) /\ UNCHANGED <<row, push>>
    BY <1>5 DEF DeleteRefused
  <2>2. /\ read' \in [Resources -> Row \cup {NoRead}]
        /\ UNCHANGED <<live, ops>> /\ UNCHANGED adminRest
    BY <1>t, <2>1, AnswerType
  <2>3. wanted' = wanted
    BY <1>t, <2>1 DEF Answer
  <2>4. SoundRows'
    BY <1>f, <2>1, <2>2, <2>3, RowsKept
  <2> QED BY <1>t, <2>1, <2>2, <2>3, <2>4 DEF StoreOK, Wish
<1>6. CASE SweepTombstone(r)
  <2>1. /\ row' = [row EXCEPT ![r] = Gone(r)] /\ push' = push \cup Bound(row[r])
        /\ UNCHANGED <<adminRest, wanted, read, live, ops>>
    BY <1>6 DEF SweepTombstone, adminRest, hist
  <2>2. SoundRow(r, Gone(r), wanted[r])
    BY <1>g, DeadRow
  <2>3. row' \in [Resources -> Row] /\ SoundRows'
    BY <1>f, <1>g, <1>t, <2>1, <2>2, RowSet
  <2> QED BY <1>t, <2>1, <2>3, BoundType DEF StoreOK, Wish
<1> QED BY <1>1, <1>2, <1>3, <1>4, <1>5, <1>6

\* Every admin operation keeps the invariant.
LEMMA AdminStep ==
    ASSUME ResourceInv, NEW r \in Resources, Admin(r) \/ SweepTombstone(r)
    PROVE  ResourceInv'
<1>1. StoreOK' /\ SoundRows' /\ UNCHANGED adminRest
  BY ChangeStep, DeleteStep DEF Admin
<1>2. WireInv' /\ Forward
  BY <1>1, WireKept DEF adminRest
<1>3. SoundAcks'
  BY <1>1, <1>2, AcksKept DEF adminRest, back
<1>4. BackOK'
  BY <1>1 DEF ResourceInv, BackOK, adminRest, back
<1> QED BY <1>1, <1>2, <1>3, <1>4 DEF ResourceInv

-----------------------------------------------------------------------------
(* Acks and reports *)

\* An ack the guarded UPDATE accepts is about the row's current rule.
LEMMA RecordAckStep ==
    ASSUME ResourceInv, NEW a \in acks, RecordAck(a)
    PROVE  ResourceInv'
<1> DEFINE r == a.rule.id
<1>t. /\ a \in Ack /\ r \in Resources /\ row[r] \in Row /\ wanted[r] \in Wish
      /\ row \in [Resources -> Row] /\ wanted \in [Resources -> Wish]
      /\ SoundRow(r, row[r], wanted[r])
  BY DEF ResourceInv, StoreOK, BackOK, SoundRows, Wish, Ack, Rule
<1>1. /\ acks' = acks \ {a}
      /\ UNCHANGED <<read, live, wire, shld, drift, absent, online, hist, ops, faults>>
  BY DEF RecordAck
<1>2. WireInv' /\ Forward
  BY <1>1, WireKept DEF wire
<1>3. SoundAcks'
  BY <1>1, <1>2, AcksKept
<1>4. row' \in [Resources -> Row] /\ SoundRows'
  <2>k. CASE row' = row
    BY <1>1, <1>2, <1>t, <2>k, RowsKept DEF hist
  <2>q. ASSUME NEW rec \in Row, row' = [row EXCEPT ![r] = rec], SoundRow(r, rec, wanted[r])
        PROVE  row' \in [Resources -> Row] /\ SoundRows'
    <3>1. wanted' = wanted
      BY <1>1 DEF hist
    <3> QED BY <1>2, <1>t, <2>q, <3>1, RowSet
  <2>1. CASE row' = [row EXCEPT ![r] = Gone(r)]
    <3>1. Gone(r) \in Row /\ SoundRow(r, Gone(r), wanted[r])
      BY <1>t, GoneType, DeadRow
    <3> QED BY <2>1, <2>q, <3>1
  <2>2. CASE Accepts(row[r], a) /\ row' = [row EXCEPT ![r].status = a.status]
    <3> DEFINE rec == [row[r] EXCEPT !.status = a.status]
    <3>1. /\ rec \in Row /\ rec.status = a.status /\ rec.action = row[r].action
          /\ rec.host = row[r].host /\ rec.port = row[r].port /\ rec.shield = row[r].shield
      BY <1>t DEF Row, Ack
    <3>2. row' = [row EXCEPT ![r] = rec]
      BY <2>2
    <3> HIDE DEF rec
    <3>3. CASE a.status = "unprotected"
      <4>1. wanted[r] # "protect"
        BY <1>t, <2>2, <3>3 DEF Accepts, SoundRow
      <4>2. SoundRow(r, rec, wanted[r])
        BY <3>1, <3>3, <4>1 DEF SoundRow, Enforced, Removing
      <4> QED BY <2>q, <3>1, <3>2, <4>2
    <3>4. CASE a.status # "unprotected"
      <4>1. a.rule.host = a.shield /\ Reached(a.shield, a.rule)
        BY <3>4 DEF ResourceInv, SoundAcks
      <4>2. rec.shield = a.shield /\ rec.host = a.rule.host /\ rec.port = a.rule.port
        BY <2>2, <3>1, <3>4 DEF Accepts
      <4>3. [id |-> r, host |-> rec.host, port |-> rec.port] = a.rule
        BY <1>t, <4>2 DEF Ack, Rule
      <4>4. a.status \in {"protected", "failed"}
        BY <1>t, <3>4 DEF Ack
      <4>5. SoundRow(r, rec, wanted[r])
        BY <3>1, <4>1, <4>2, <4>3, <4>4 DEF SoundRow, Enforced, Removing
      <4> QED BY <2>q, <3>1, <3>2, <4>5
    <3> QED BY <3>3, <3>4
  <2>3. \/ row' = row \/ row' = [row EXCEPT ![r] = Gone(r)]
        \/ (Accepts(row[r], a) /\ row' = [row EXCEPT ![r].status = a.status])
    BY DEF RecordAck
  <2> QED BY <2>k, <2>1, <2>2, <2>3
<1>5. StoreOK'
  BY <1>1, <1>4 DEF ResourceInv, StoreOK, wire, hist
<1>6. BackOK'
  BY <1>1 DEF ResourceInv, BackOK, hist
<1> QED BY <1>2, <1>3, <1>4, <1>5, <1>6 DEF ResourceInv

\* A state report.
LEMMA ReconcileStep ==
    ASSUME ResourceInv, NEW s \in Shields, ReconcileShield(s)
    PROVE  ResourceInv'
<1>1. UNCHANGED <<read, live, published, builds, cache, inbox, shld, acks, online, hist, ops, faults>>
  BY DEF ReconcileShield
<1>2. WireInv' /\ Forward
  BY <1>1, WireKept
<1>3. SoundAcks'
  BY <1>1, <1>2, AcksKept
<1>t. row \in [Resources -> Row] /\ wanted' = wanted
  BY <1>1 DEF ResourceInv, StoreOK, hist
<1>4. PICK reap \in SUBSET Resources :
          row' = [r \in Resources |-> IF r \in reap THEN Gone(r) ELSE row[r]]
  BY DEF ReconcileShield
<1>5. row' \in [Resources -> Row]
  BY <1>t, <1>4, GoneType
<1>6. SoundRows'
  <2>1. ASSUME NEW r \in Resources, NEW x, NEW w, SoundRow(r, x, w), row'[r] = x, wanted'[r] = w
        PROVE  SoundRow(r, row[r], wanted[r])'
    <3>1. SoundRow(r, x, w)'
      BY <1>2, <2>1, RowKept
    <3> QED BY <2>1, <3>1 DEF SoundRow
  <2>2. ASSUME NEW r \in Resources PROVE SoundRow(r, row[r], wanted[r])'
    <3>1. CASE r \in reap
      BY <1>t, <1>4, <2>1, <3>1, GoneType, DeadRow
    <3>2. CASE r \notin reap
      <4>1. row'[r] = row[r] /\ SoundRow(r, row[r], wanted[r])
        BY <1>4, <3>2 DEF ResourceInv, SoundRows
      <4> QED BY <1>t, <2>1, <4>1
    <3> QED BY <3>1, <3>2
  <2> QED BY <2>2 DEF SoundRows
<1>7. StoreOK'
  <2>1. push' \subseteq Shields
    BY DEF ReconcileShield, ResourceInv, StoreOK
  <2> QED BY <1>1, <1>5, <2>1 DEF ResourceInv, StoreOK, hist
<1>8. drift' \in [Shields -> 0..(DriftReports - 1)]
  <2>1. drift \in [Shields -> 0..(DriftReports - 1)]
    BY DEF ResourceInv, BackOK
  <2>2. PICK n : /\ drift' = [drift EXCEPT ![s] = n]
                 /\ n = 0 \/ (n = drift[s] + 1 /\ ~ResyncDue(s))
    BY DEF ReconcileShield
  <2>3. n \in 0..(DriftReports - 1)
    BY <2>1, <2>2, ReportsAssumption DEF ResyncDue
  <2> QED BY <2>1, <2>2, <2>3
<1>9. absent' \in [Resources -> 0..(AbsentReports - 1)]
  <2>1. absent \in [Resources -> 0..(AbsentReports - 1)]
    BY DEF ResourceInv, BackOK
  <2>2. PICK deleting \in SUBSET Resources, missing \in SUBSET Resources :
            absent' = [r \in Resources |->
                IF r \in missing \ {q \in missing : absent[q] + 1 >= AbsentReports}
                THEN absent[r] + 1 ELSE IF r \in deleting THEN 0 ELSE absent[r]]
    BY DEF ReconcileShield
  <2>3. ASSUME NEW r \in Resources PROVE absent'[r] \in 0..(AbsentReports - 1)
    <3>1. absent[r] \in 0..(AbsentReports - 1)
      BY <2>1
    <3> QED BY <2>2, <3>1, ReportsAssumption
  <2> QED BY <2>2, <2>3
<1>10. BackOK'
  BY <1>1, <1>8, <1>9 DEF ResourceInv, BackOK, hist
<1> QED BY <1>2, <1>3, <1>6, <1>7, <1>10 DEF ResourceInv

-----------------------------------------------------------------------------
(* Snapshots *)

\* BuildShieldSnapshot keeps every generation, and has one when it is done.
LEMMA NextPublishedType ==
    ASSUME ResourceInv, NEW s \in Shields
    PROVE  /\ NextPublished(s) \in Seq(SUBSET Rule)
           /\ Len(NextPublished(s)) \in Nat /\ Len(NextPublished(s)) >= 1
           /\ Len(published[s]) \in Nat /\ Len(published[s]) <= Len(NextPublished(s))
           /\ \A g \in 1..Len(published[s]) : NextPublished(s)[g] = published[s][g]
           /\ \A g \in 1..Len(NextPublished(s)) : \A u \in NextPublished(s)[g] : u.host = s
<1>1. published[s] \in Seq(SUBSET Rule) /\ Len(published[s]) \in Nat
  BY DEF ResourceInv, WireInv, WireOK
<1>2. Desired(s) \in SUBSET Rule /\ \A u \in Desired(s) : u.host = s
  BY DesiredType
<1>3. \A g \in 1..Len(published[s]) : \A u \in published[s][g] : u.host = s
  BY DEF ResourceInv, WireInv, SoundPublished
<1>4. CASE NextPublished(s) = published[s] /\ published[s] # <<>>
  <2>1. Len(published[s]) >= 1
    BY <1>1, <1>4
  <2> QED BY <1>1, <1>3, <1>4, <2>1
<1>5. CASE NextPublished(s) = Append(published[s], Desired(s))
  <2>1. /\ Append(published[s], Desired(s)) \in Seq(SUBSET Rule)
        /\ Len(Append(published[s], Desired(s))) = Len(published[s]) + 1
    BY <1>1, <1>2
  <2>2. \A g \in 1..Len(published[s]) : Append(published[s], Desired(s))[g] = published[s][g]
    BY <1>1, <1>2
  <2>3. Append(published[s], Desired(s))[Len(published[s]) + 1] = Desired(s)
    BY <1>1, <1>2
  <2>4. ASSUME NEW g \in 1..(Len(published[s]) + 1), NEW u \in NextPublished(s)[g] PROVE u.host = s
    <3>1. g \in 1..Len(published[s]) \/ g = Len(published[s]) + 1
      BY <1>1
    <3> QED BY <1>2, <1>3, <1>5, <2>2, <2>3, <2>4, <3>1
  <2> QED BY <1>1, <1>5, <2>1, <2>2, <2>4
<1> QED BY <1>4, <1>5 DEF NextPublished

\* A new build.
LEMMA BuildStep ==
    ASSUME ResourceInv, NEW s \in Shields, BuildShieldSnapshot(s)
    PROVE  ResourceInv'
<1> DEFINE next == NextPublished(s)
<1>n. /\ next \in Seq(SUBSET Rule) /\ Len(next) \in Nat /\ Len(next) >= 1
      /\ Len(published[s]) \in Nat /\ Len(published[s]) <= Len(next)
      /\ \A g \in 1..Len(published[s]) : next[g] = published[s][g]
      /\ \A g \in 1..Len(next) : \A u \in next[g] : u.host = s
  BY NextPublishedType
<1>1. /\ push' = push \ {s} /\ published' = [published EXCEPT ![s] = next]
      /\ builds' = builds \cup {[shield |-> s, gen |-> Len(next)]}
      /\ UNCHANGED <<store, cache, inbox, shld, back, online, hist, ops, faults>>
  BY DEF BuildShieldSnapshot
<1> HIDE DEF next
<1>t. /\ WireOK /\ ShieldOK /\ Gens /\ SoundPublished /\ ActiveIsReached
  BY DEF ResourceInv, WireInv
<1>2. /\ published' \in [Shields -> Seq(SUBSET Rule)] /\ published'[s] = next
      /\ \A t \in Shields \ {s} : published'[t] = published[t]
  BY <1>n, <1>1, <1>t DEF WireOK
<1>3. \A t \in Shields : /\ Len(published[t]) \in Nat /\ Len(published'[t]) \in Nat
                          /\ Len(published[t]) <= Len(published'[t])
                          /\ \A g \in 1..Len(published[t]) : published'[t][g] = published[t][g]
  <2>1. ASSUME NEW t \in Shields
        PROVE  /\ Len(published[t]) \in Nat /\ Len(published'[t]) \in Nat
               /\ Len(published[t]) <= Len(published'[t])
               /\ \A g \in 1..Len(published[t]) : published'[t][g] = published[t][g]
    <3>1. CASE t = s
      BY <1>n, <1>2, <3>1
    <3>2. CASE t # s
      <4>1. published'[t] = published[t] /\ Len(published[t]) \in Nat
        BY <1>2, <1>t, <3>2 DEF WireOK
      <4> QED BY <4>1
    <3> QED BY <3>1, <3>2
  <2> QED BY <2>1
<1>4. \A t \in Shields : floor[t] \in Nat /\ floor[t] <= Len(published[t]) /\ floor'[t] = floor[t]
                          /\ active'[t] = active[t]
  BY <1>1, <1>t DEF ShieldOK, Gens, shld
<1>5. Forward
  BY <1>3, <1>4 DEF Forward
<1>6. WireOK' /\ ShieldOK'
  <2>1. [shield |-> s, gen |-> Len(next)] \in [shield : Shields, gen : Nat]
    BY <1>n
  <2> QED BY <1>1, <1>2, <1>t, <2>1 DEF WireOK, ShieldOK, shld
<1>7. Gens'
  <2>1. \A b \in builds' : b.gen \in 1..Len(published'[b.shield])
    <3>1. ASSUME NEW b \in builds PROVE b.gen \in 1..Len(published'[b.shield])
      <4>1. b.shield \in Shields /\ b.gen \in 1..Len(published[b.shield])
        BY <1>t DEF WireOK, Gens
      <4> QED BY <1>3, <4>1
    <3>2. Len(next) \in 1..Len(published'[s])
      BY <1>n, <1>2
    <3> QED BY <1>1, <3>1, <3>2
  <2>2. ASSUME NEW t \in Shields
        PROVE  /\ cache'[t] # NoMsg => cache'[t].gen \in 1..Len(published'[t])
               /\ \A m \in inbox'[t] : m.gen \in 1..Len(published'[t])
               /\ floor'[t] <= Len(published'[t])
    <3>1. /\ cache'[t] = cache[t] /\ inbox'[t] = inbox[t]
      BY <1>1
    <3>2. /\ cache[t] # NoMsg => cache[t].gen \in 1..Len(published[t])
          /\ \A m \in inbox[t] : m.gen \in 1..Len(published[t])
      BY <1>t DEF Gens
    <3>3. \A g \in 1..Len(published[t]) : g \in 1..Len(published'[t])
      BY <1>3
    <3>4. floor'[t] <= Len(published'[t])
      BY <1>3, <1>4
    <3> QED BY <3>1, <3>2, <3>3, <3>4
  <2> QED BY <2>1, <2>2 DEF Gens
<1>8. SoundPublished'
  BY <1>n, <1>2, <1>t DEF SoundPublished
<1>9. ActiveIsReached'
  <2>1. ASSUME NEW t \in Shields, active'[t] # {}
        PROVE  floor'[t] >= 1 /\ active'[t] = published'[t][floor'[t]]
    <3>1. floor[t] >= 1 /\ active[t] = published[t][floor[t]]
      BY <1>4, <1>t, <2>1 DEF ActiveIsReached
    <3>2. floor[t] \in 1..Len(published[t])
      BY <1>3, <1>4, <3>1
    <3> QED BY <1>3, <1>4, <3>1, <3>2
  <2> QED BY <2>1 DEF ActiveIsReached
<1>10. SoundAcks'
  BY <1>1, <1>5, AcksKept DEF back
<1>11. SoundRows'
  BY <1>1, <1>5, RowsKept DEF store, hist
<1>12. StoreOK' /\ BackOK'
  BY <1>1 DEF ResourceInv, StoreOK, BackOK, store, back, hist
<1> QED BY <1>6, <1>7, <1>8, <1>9, <1>10, <1>11, <1>12 DEF ResourceInv, WireInv

\* What is on its way may be dropped, or replaced by generations that were
\* published; rules may be lost.
LEMMA DeliveryStep ==
    ASSUME ResourceInv, UNCHANGED <<row, read, wanted, published, floor>>,
           live' \subseteq live, push' \subseteq Shields, ops' \in 0..MaxOps,
           builds' \subseteq builds,
           cache' \in [Shields -> Msg \cup {NoMsg}], inbox' \in [Shields -> SUBSET Msg],
           \A s \in Shields :
               /\ cache'[s] # NoMsg => cache'[s].gen \in 1..Len(published[s])
               /\ \A m \in inbox'[s] : m.gen \in 1..Len(published[s]),
           fresh' \in [Shields -> BOOLEAN], active' \in [Shields -> SUBSET Rule],
           \A s \in Shields : active'[s] \in {active[s], {}},
           acks' \subseteq acks,
           drift' \in [Shields -> 0..(DriftReports - 1)],
           absent' \in [Resources -> 0..(AbsentReports - 1)],
           online' \in BOOLEAN, lost' \in BOOLEAN, faults' \in 0..MaxFaults
    PROVE  ResourceInv'
<1>t. StoreOK /\ BackOK /\ WireOK /\ ShieldOK /\ Gens /\ SoundPublished /\ ActiveIsReached
  BY DEF ResourceInv, WireInv
<1>1. StoreOK'
  BY <1>t DEF StoreOK
<1>2. BackOK'
  BY <1>t DEF BackOK
<1>3. WireOK' /\ ShieldOK'
  BY <1>t DEF WireOK, ShieldOK
<1>4. Gens' /\ SoundPublished'
  BY <1>t DEF Gens, SoundPublished
<1>5. ActiveIsReached'
  BY <1>t DEF ActiveIsReached
<1>6. Forward
  BY <1>t DEF Forward, ShieldOK
<1>7. SoundAcks' /\ SoundRows'
  BY <1>6, AcksKept, RowsKept
<1> QED BY <1>1, <1>2, <1>3, <1>4, <1>5, <1>7 DEF ResourceInv, WireInv

\* The steps between the controller, the connector and the shield's stream.
LEMMA WireStep ==
    ASSUME ResourceInv,
           \/ \E s \in Shields : RevokeShield(s) \/ PushOffline(s)
           \/ \E b \in builds : SignResourceSet(b) \/ SendFails(b)
    PROVE  ResourceInv'
<1>t. /\ live \subseteq Shields /\ push \subseteq Shields /\ ops \in 0..MaxOps
      /\ builds \subseteq [shield : Shields, gen : Nat]
      /\ cache \in [Shields -> Msg \cup {NoMsg}] /\ inbox \in [Shields -> SUBSET Msg]
      /\ \A b \in builds : b.gen \in 1..Len(published[b.shield])
      /\ \A s \in Shields :
           /\ cache[s] # NoMsg => cache[s].gen \in 1..Len(published[s])
           /\ \A m \in inbox[s] : m.gen \in 1..Len(published[s])
  BY DEF ResourceInv, StoreOK, WireInv, WireOK, Gens
<1>s. /\ fresh \in [Shields -> BOOLEAN] /\ active \in [Shields -> SUBSET Rule]
      /\ drift \in [Shields -> 0..(DriftReports - 1)]
      /\ absent \in [Resources -> 0..(AbsentReports - 1)]
      /\ online \in BOOLEAN /\ lost \in BOOLEAN /\ faults \in 0..MaxFaults
  BY DEF ResourceInv, BackOK, WireInv, ShieldOK
<1>1. ASSUME NEW s \in Shields, RevokeShield(s) PROVE ResourceInv'
  <2>1. /\ live' = live \ {s} /\ cache' = [cache EXCEPT ![s] = NoMsg]
        /\ inbox' = [inbox EXCEPT ![s] = {}]
        /\ UNCHANGED <<row, read, published, push, builds, shld, back, online, hist, faults>>
    BY <1>1 DEF RevokeShield
  <2>2. ops' \in 0..MaxOps
    BY <1>1, <1>t, BoundsAssumption DEF RevokeShield
  <2>3. /\ cache' \in [Shields -> Msg \cup {NoMsg}] /\ inbox' \in [Shields -> SUBSET Msg]
        /\ \A t \in Shields : cache'[t] \in {cache[t], NoMsg} /\ inbox'[t] \subseteq inbox[t]
    BY <1>t, <2>1
  <2>4. \A t \in Shields : /\ cache'[t] # NoMsg => cache'[t].gen \in 1..Len(published[t])
                           /\ \A m \in inbox'[t] : m.gen \in 1..Len(published[t])
    BY <1>t, <2>3
  <2> QED BY <1>s, <1>t, <2>1, <2>2, <2>3, <2>4, DeliveryStep DEF shld, back, hist
<1>2. ASSUME NEW s \in Shields, PushOffline(s) PROVE ResourceInv'
  <2>1. /\ push' = push \ {s}
        /\ UNCHANGED <<store, published, builds, cache, inbox, shld, back, online, hist, ops, faults>>
    BY <1>2 DEF PushOffline
  <2> QED BY <1>s, <1>t, <2>1, DeliveryStep DEF store, shld, back, hist
<1>3. ASSUME NEW b \in builds, SendFails(b) PROVE ResourceInv'
  <2>1. /\ builds' = builds \ {b} /\ lost' = TRUE
        /\ UNCHANGED <<store, published, push, cache, inbox, shld, back, online, wanted, ops>>
    BY <1>3 DEF SendFails
  <2>2. faults' \in 0..MaxFaults
    BY <1>3, <1>s, BoundsAssumption DEF SendFails
  <2> QED BY <1>s, <1>t, <2>1, <2>2, DeliveryStep DEF store, shld, back
<1>4. ASSUME NEW b \in builds, SignResourceSet(b) PROVE ResourceInv'
  <2>m. PICK m : m = [gen |-> b.gen, removes |-> Removes(b.shield)]
    OBVIOUS
  <2>1. b.shield \in Shields /\ b.gen \in Nat /\ b.gen \in 1..Len(published[b.shield])
    BY <1>t
  <2>2. m \in Msg /\ m.gen = b.gen
    BY <2>1, <2>m, DesiredType DEF Msg
  <2>3. \/ PushSnapshot(b.shield, m)
        \/ UNCHANGED <<cache, inbox>>
    BY <1>4, <2>m DEF SignResourceSet
  <2>4. /\ cache' \in [Shields -> Msg \cup {NoMsg}] /\ inbox' \in [Shields -> SUBSET Msg]
        /\ \A t \in Shields : /\ cache'[t] = cache[t] \/ (t = b.shield /\ cache'[t] = m)
                              /\ inbox'[t] = inbox[t] \/ (t = b.shield /\ inbox'[t] = inbox[t] \cup {m})
    <3>1. CASE PushSnapshot(b.shield, m)
      BY <1>t, <2>1, <2>2, <3>1 DEF PushSnapshot
    <3>2. CASE UNCHANGED <<cache, inbox>>
      BY <1>t, <3>2
    <3> QED BY <2>3, <3>1, <3>2
  <2>5. \A t \in Shields : /\ cache'[t] # NoMsg => cache'[t].gen \in 1..Len(published[t])
                           /\ \A n \in inbox'[t] : n.gen \in 1..Len(published[t])
    <3>1. ASSUME NEW t \in Shields
          PROVE  /\ cache'[t] # NoMsg => cache'[t].gen \in 1..Len(published[t])
                 /\ \A n \in inbox'[t] : n.gen \in 1..Len(published[t])
      <4>1. CASE t = b.shield
        <5>1. m.gen \in 1..Len(published[t])
          BY <2>1, <2>2, <4>1
        <5>2. cache'[t] \in {cache[t], m}
          BY <2>4
        <5>3. \A n \in inbox'[t] : n \in inbox[t] \/ n = m
          BY <2>4
        <5>4. /\ cache[t] # NoMsg => cache[t].gen \in 1..Len(published[t])
              /\ \A n \in inbox[t] : n.gen \in 1..Len(published[t])
          BY <1>t
        <5> QED BY <5>1, <5>2, <5>3, <5>4
      <4>2. CASE t # b.shield
        <5>1. cache'[t] = cache[t] /\ inbox'[t] = inbox[t]
          BY <2>4, <4>2
        <5> QED BY <1>t, <5>1
      <4> QED BY <4>1, <4>2
    <3> QED BY <3>1
  <2>6. /\ builds' = builds \ {b}
        /\ UNCHANGED <<store, published, push, shld, back, online, hist, ops, faults>>
    BY <1>4 DEF SignResourceSet
  <2>7. /\ UNCHANGED <<row, read, live, wanted, published, push, floor, fresh, active, acks, drift,
                       absent, online, lost, ops, faults>>
        /\ builds' \subseteq builds
    BY <2>6 DEF store, shld, back, hist
  <2>8. /\ cache' \in [Shields -> Msg \cup {NoMsg}] /\ inbox' \in [Shields -> SUBSET Msg]
        /\ live' \subseteq live /\ push' \subseteq Shields /\ ops' \in 0..MaxOps
        /\ acks' \subseteq acks /\ \A t \in Shields : active'[t] \in {active[t], {}}
    BY <1>t, <2>4, <2>7
  <2>9. /\ fresh' \in [Shields -> BOOLEAN] /\ active' \in [Shields -> SUBSET Rule]
        /\ drift' \in [Shields -> 0..(DriftReports - 1)]
        /\ absent' \in [Resources -> 0..(AbsentReports - 1)]
        /\ online' \in BOOLEAN /\ lost' \in BOOLEAN /\ faults' \in 0..MaxFaults
    BY <1>s, <2>7
  <2> QED BY <2>5, <2>7, <2>8, <2>9, DeliveryStep
<1> QED BY <1>1, <1>2, <1>3, <1>4

\* The faults.
LEMMA FaultStep ==
    ASSUME ResourceInv,
           \/ ConnectorDisconnects \/ ConnectorConnects \/ ControllerRestarts
           \/ \E s \in Shields, restarted \in BOOLEAN : ShieldReconnects(s, restarted)
    PROVE  ResourceInv'
<1>t. /\ live \subseteq Shields /\ push \subseteq Shields /\ ops \in 0..MaxOps
      /\ cache \in [Shields -> Msg \cup {NoMsg}] /\ inbox \in [Shields -> SUBSET Msg]
      /\ \A s \in Shields :
           /\ cache[s] # NoMsg => cache[s].gen \in 1..Len(published[s])
           /\ \A m \in inbox[s] : m.gen \in 1..Len(published[s])
  BY DEF ResourceInv, StoreOK, WireInv, WireOK, Gens
<1>s. /\ fresh \in [Shields -> BOOLEAN] /\ active \in [Shields -> SUBSET Rule]
      /\ drift \in [Shields -> 0..(DriftReports - 1)]
      /\ absent \in [Resources -> 0..(AbsentReports - 1)]
      /\ online \in BOOLEAN /\ lost \in BOOLEAN /\ faults \in 0..MaxFaults
  BY DEF ResourceInv, BackOK, WireInv, ShieldOK
<1>f. ASSUME Fault
      PROVE  faults' \in 0..MaxFaults /\ UNCHANGED <<row, read, live, published, wanted, ops>>
  BY <1>f, <1>s, BoundsAssumption DEF Fault, store
<1>1. CASE ConnectorDisconnects
  <2>1. /\ Fault /\ online' \in BOOLEAN /\ acks' \subseteq acks
        /\ UNCHANGED <<push, builds, cache, inbox, floor, fresh, active, drift, absent, lost>>
    BY <1>1 DEF ConnectorDisconnects, shld
  <2> QED BY <1>f, <1>s, <1>t, <2>1, DeliveryStep
<1>2. CASE ConnectorConnects
  <2>1. /\ online' \in BOOLEAN /\ push' \subseteq Shields
        /\ UNCHANGED <<row, read, live, published, builds, cache, inbox, floor, fresh, active, acks,
                       drift, absent, wanted, lost, ops, faults>>
    BY <1>2, <1>t DEF ConnectorConnects, store, shld, back, hist
  <2> QED BY <1>s, <1>t, <2>1, DeliveryStep
<1>3. CASE ControllerRestarts
  <2>1. /\ Fault /\ push' = {} /\ builds' = {} /\ online' \in BOOLEAN
        /\ drift' = [s \in Shields |-> 0] /\ absent' = [r \in Resources |-> 0]
        /\ UNCHANGED <<cache, inbox, floor, fresh, active, acks, lost>>
    BY <1>3 DEF ControllerRestarts, shld
  <2>2. /\ drift' \in [Shields -> 0..(DriftReports - 1)]
        /\ absent' \in [Resources -> 0..(AbsentReports - 1)]
    BY <2>1, ReportsAssumption
  <2>3. push' \subseteq Shields /\ builds' \subseteq builds
    BY <2>1
  <2> QED BY <1>f, <1>s, <1>t, <2>1, <2>2, <2>3, DeliveryStep
<1>4. ASSUME NEW s \in Shields, NEW restarted \in BOOLEAN, ShieldReconnects(s, restarted)
      PROVE  ResourceInv'
  <2>1. /\ Fault /\ inbox' = [inbox EXCEPT ![s] = {cache[s]} \ {NoMsg}]
        /\ lost' \in BOOLEAN
        /\ UNCHANGED <<push, builds, cache, acks, drift, absent, online, floor>>
    BY <1>4, <1>s DEF ShieldReconnects, back, shld
  <2>2. /\ inbox' \in [Shields -> SUBSET Msg]
        /\ \A t \in Shields : inbox'[t] = inbox[t] \/ inbox'[t] = {cache[t]} \ {NoMsg}
    BY <1>t, <2>1
  <2>3. \A t \in Shields : \A m \in inbox'[t] : m.gen \in 1..Len(published[t])
    BY <1>t, <2>2
  <2>4. /\ fresh' \in [Shields -> BOOLEAN] /\ active' \in [Shields -> SUBSET Rule]
        /\ \A t \in Shields : active'[t] \in {active[t], {}}
    <3>1. CASE restarted
      BY <1>4, <1>s, <3>1 DEF ShieldReconnects
    <3>2. CASE ~restarted
      BY <1>4, <1>s, <3>2 DEF ShieldReconnects, shld
    <3> QED BY <3>1, <3>2
  <2>5. \A t \in Shields : cache'[t] # NoMsg => cache'[t].gen \in 1..Len(published[t])
    BY <1>t, <2>1
  <2> QED BY <1>f, <1>s, <1>t, <2>1, <2>2, <2>3, <2>4, <2>5, DeliveryStep
<1> QED BY <1>1, <1>2, <1>3, <1>4

-----------------------------------------------------------------------------
(* The shield *)

\* New acks about rules the shield has reached.
LEMMA NewAcks ==
    ASSUME ResourceInv, Forward, NEW new, acks' \subseteq acks \cup new,
           \A a \in new : a.status # "unprotected" =>
               a.rule.host = a.shield /\ Reached(a.shield, a.rule)'
    PROVE  SoundAcks'
<1>1. ASSUME NEW a \in acks, a.status # "unprotected"
      PROVE  a.rule.host = a.shield /\ Reached(a.shield, a.rule)'
  BY <1>1, ReachedKept DEF ResourceInv, SoundAcks
<1> QED BY <1>1 DEF SoundAcks

\* A health check.
LEMMA HealthStep ==
    ASSUME ResourceInv, NEW s \in Shields, HealthCheck(s)
    PROVE  ResourceInv'
<1>1. PICK verdicts \in Verdicts(s, active[s]) : acks' = acks \cup verdicts
  BY DEF HealthCheck
<1>2. /\ active[s] # {}
      /\ UNCHANGED <<store, wire, shld, drift, absent, online, hist, ops, faults>>
  BY DEF HealthCheck
<1>3. WireInv' /\ Forward
  BY <1>2, WireKept DEF wire
<1>4. active[s] \in SUBSET Rule /\ floor[s] \in Nat /\ floor[s] <= Len(published[s])
      /\ floor[s] >= 1 /\ active[s] = published[s][floor[s]] /\ published[s] \in Seq(SUBSET Rule)
  BY <1>2 DEF ResourceInv, WireInv, WireOK, ShieldOK, Gens, ActiveIsReached
<1>5. \A a \in verdicts : a \in Ack /\ a.shield = s /\ a.rule \in active[s]
  BY <1>4, VerdictType
<1>6. ASSUME NEW u \in active[s] PROVE u.host = s /\ Reached(s, u)
  <2>1. floor[s] \in 1..floor[s] /\ floor[s] \in 1..Len(published[s])
    BY <1>4
  <2>2. u.host = s
    BY <1>4, <2>1 DEF ResourceInv, WireInv, SoundPublished
  <2> QED BY <1>4, <2>1, <2>2 DEF Reached
<1>7. \A a \in verdicts : a.rule.host = a.shield /\ Reached(a.shield, a.rule)'
  BY <1>3, <1>5, <1>6, ReachedKept
<1>8. SoundAcks'
  BY <1>1, <1>3, <1>7, NewAcks
<1>9. SoundRows'
  BY <1>2, <1>3, RowsKept DEF store, hist
<1>10. StoreOK'
  BY <1>2 DEF ResourceInv, StoreOK, store, wire, hist
<1>11. BackOK'
  BY <1>1, <1>2, <1>5 DEF ResourceInv, BackOK, hist
<1> QED BY <1>3, <1>8, <1>9, <1>10, <1>11 DEF ResourceInv

\* What a shield does with a set: it keeps what it has, or moves on to exactly
\* the set of a published generation that is not older.
LEMMA ApplyMoves ==
    ASSUME ResourceInv, NEW s \in Shields, NEW m \in inbox[s], ApplySignedResourceSet(s, m)
    PROVE  /\ m.gen \in 1..Len(published[s])
           /\ \/ UNCHANGED shld
              \/ /\ floor[s] <= m.gen
                 /\ active' = [active EXCEPT ![s] = published[s][m.gen]]
                 /\ floor' = [floor EXCEPT ![s] = m.gen]
                 /\ fresh' = [fresh EXCEPT ![s] = FALSE]
           /\ \E new \in SUBSET Ack :
                 /\ acks' = acks \cup new
                 /\ \A a \in new : a.status # "unprotected" =>
                       ~UNCHANGED shld /\ a.shield = s /\ a.rule \in published[s][m.gen]
<1> DEFINE rules == published[s][m.gen]
           valid == {u \in rules : u.host = s}
           removed == AcksFor(s, m.removes, "unprotected")
<1>1. m.gen \in 1..Len(published[s]) /\ m \in Msg
  BY DEF ResourceInv, WireInv, WireOK, Gens
<1>2. rules \in SUBSET Rule /\ \A u \in rules : u.host = s
  BY <1>1 DEF ResourceInv, WireInv, WireOK, SoundPublished
<1>3. valid = rules /\ rules \ valid = {}
  BY <1>2
<1>4. \A a \in removed : a \in Ack /\ a.status = "unprotected"
  BY <1>1, AcksForType DEF Msg
<1>5. AcksFor(s, {}, "failed") = {}
  BY DEF AcksFor
<1>n. floor \in [Shields -> Nat] /\ fresh \in [Shields -> BOOLEAN] /\ m.gen \in Nat
  BY <1>1 DEF ResourceInv, WireInv, ShieldOK, Msg
<1>6. CASE UNCHANGED <<shld, acks>>
  <2>1. acks' = acks \cup {}
    BY <1>6
  <2>2. \E new \in SUBSET Ack :
            /\ acks' = acks \cup new
            /\ \A a \in new : a.status # "unprotected" =>
                  ~UNCHANGED shld /\ a.shield = s /\ a.rule \in published[s][m.gen]
    <3> WITNESS {} \in SUBSET Ack
    <3> QED BY <2>1
  <2> QED BY <1>1, <1>6, <2>2
<1>7. CASE acks' = acks \cup removed /\ UNCHANGED shld
  <2>1. \E new \in SUBSET Ack :
            /\ acks' = acks \cup new
            /\ \A a \in new : a.status # "unprotected" =>
                  ~UNCHANGED shld /\ a.shield = s /\ a.rule \in published[s][m.gen]
    <3> HIDE DEF removed
    <3>1. removed \in SUBSET Ack
      BY <1>4
    <3> WITNESS removed \in SUBSET Ack
    <3> QED BY <1>4, <1>7
  <2> QED BY <1>1, <1>7, <2>1
<1>8. ASSUME ~Stale(s, m), ~(m.gen = floor[s] /\ ~fresh[s]),
             NEW verdicts \in Verdicts(s, valid),
             acks' = acks \cup removed \cup verdicts \cup AcksFor(s, rules \ valid, "failed"),
             active' = [active EXCEPT ![s] = valid],
             floor' = [floor EXCEPT ![s] = m.gen],
             fresh' = [fresh EXCEPT ![s] = FALSE]
      PROVE  /\ floor[s] <= m.gen
             /\ active' = [active EXCEPT ![s] = published[s][m.gen]]
             /\ \E new \in SUBSET Ack :
                   /\ acks' = acks \cup new
                   /\ \A a \in new : a.status # "unprotected" =>
                         ~UNCHANGED shld /\ a.shield = s /\ a.rule \in published[s][m.gen]
  <2>1. floor[s] <= m.gen
    BY <1>8, <1>n DEF Stale
  <2>2. ~UNCHANGED shld
    <3>1. CASE m.gen # floor[s]
      BY <1>8, <1>n, <3>1 DEF shld
    <3>2. CASE fresh[s]
      BY <1>8, <1>n, <3>2 DEF shld
    <3> QED BY <1>8, <3>1, <3>2
  <2>3. \A a \in verdicts : a \in Ack /\ a.shield = s /\ a.rule \in published[s][m.gen]
    BY <1>2, <1>3, <1>8, VerdictType
  <2>4. acks' = acks \cup (removed \cup verdicts)
    BY <1>3, <1>5, <1>8
  <2>5. \E new \in SUBSET Ack :
            /\ acks' = acks \cup new
            /\ \A a \in new : a.status # "unprotected" =>
                  ~UNCHANGED shld /\ a.shield = s /\ a.rule \in published[s][m.gen]
    <3> HIDE DEF removed
    <3>1. removed \cup verdicts \in SUBSET Ack
      BY <1>4, <2>3
    <3> WITNESS removed \cup verdicts \in SUBSET Ack
    <3> QED BY <1>4, <2>2, <2>3, <2>4
  <2> QED BY <1>3, <1>8, <2>1, <2>5
<1>9. \/ UNCHANGED <<shld, acks>>
      \/ acks' = acks \cup removed /\ UNCHANGED shld
      \/ /\ ~Stale(s, m) /\ ~(m.gen = floor[s] /\ ~fresh[s])
         /\ \E verdicts \in Verdicts(s, valid) :
               acks' = acks \cup removed \cup verdicts \cup AcksFor(s, rules \ valid, "failed")
         /\ active' = [active EXCEPT ![s] = valid]
         /\ floor' = [floor EXCEPT ![s] = m.gen]
         /\ fresh' = [fresh EXCEPT ![s] = FALSE]
  BY DEF ApplySignedResourceSet
<1> QED BY <1>1, <1>6, <1>7, <1>8, <1>9

\* A set reaches the shield.
LEMMA ApplyStep ==
    ASSUME ResourceInv, NEW s \in Shields, NEW m \in inbox[s], ApplySignedResourceSet(s, m)
    PROVE  ResourceInv'
<1>t. /\ WireOK /\ ShieldOK /\ Gens /\ SoundPublished /\ ActiveIsReached
  BY DEF ResourceInv, WireInv
<1>m. m.gen \in 1..Len(published[s])
  BY ApplyMoves
<1>1. /\ inbox' = [inbox EXCEPT ![s] = inbox[s] \ {m}]
      /\ UNCHANGED <<store, published, push, builds, cache, drift, absent, online, hist, ops, faults>>
  BY DEF ApplySignedResourceSet
<1>2. /\ \A t \in Shields : floor'[t] \in Nat /\ floor[t] <= floor'[t] /\ floor'[t] <= Len(published[t])
      /\ ShieldOK' /\ ActiveIsReached'
  <2>p. published \in [Shields -> Seq(SUBSET Rule)] /\ published' = published
    BY <1>1, <1>t DEF WireOK
  <2>f. floor \in [Shields -> Nat] /\ \A t \in Shields : floor[t] <= Len(published[t])
    BY <1>t DEF ShieldOK, Gens
  <2>1. CASE UNCHANGED shld
    <3>1. UNCHANGED <<active, floor, fresh>>
      BY <2>1 DEF shld
    <3> QED BY <1>t, <2>f, <2>p, <3>1 DEF ShieldOK, ActiveIsReached
  <2>2. CASE /\ floor[s] <= m.gen
             /\ active' = [active EXCEPT ![s] = published[s][m.gen]]
             /\ floor' = [floor EXCEPT ![s] = m.gen]
             /\ fresh' = [fresh EXCEPT ![s] = FALSE]
    <3>1. m.gen \in Nat /\ m.gen >= 1 /\ m.gen <= Len(published[s])
          /\ published[s][m.gen] \in SUBSET Rule
      BY <1>m, <2>p
    <3>2. /\ floor'[s] = m.gen /\ active'[s] = published[s][m.gen]
          /\ \A t \in Shields \ {s} : floor'[t] = floor[t] /\ active'[t] = active[t]
      BY <1>t, <2>2 DEF ShieldOK
    <3>3. ShieldOK'
      BY <1>t, <2>2, <3>1 DEF ShieldOK
    <3>4. ActiveIsReached'
      BY <1>t, <2>p, <3>1, <3>2 DEF ActiveIsReached
    <3>5. \A t \in Shields : floor'[t] \in Nat /\ floor[t] <= floor'[t] /\ floor'[t] <= Len(published[t])
      BY <2>2, <2>f, <3>1, <3>2
    <3> QED BY <3>3, <3>4, <3>5
  <2> QED BY <2>1, <2>2, ApplyMoves
<1>3. Forward
  BY <1>1, <1>2 DEF Forward
<1>4. WireOK' /\ Gens' /\ SoundPublished'
  <2>1. inbox' \in [Shields -> SUBSET Msg] /\ \A t \in Shields : inbox'[t] \subseteq inbox[t]
    BY <1>1, <1>t DEF WireOK
  <2> QED BY <1>1, <1>2, <1>t, <2>1 DEF WireOK, Gens, SoundPublished
<1>5. PICK new \in SUBSET Ack :
          /\ acks' = acks \cup new
          /\ \A a \in new : a.status # "unprotected" =>
                ~UNCHANGED shld /\ a.shield = s /\ a.rule \in published[s][m.gen]
  BY ApplyMoves
<1>6. SoundAcks'
  <2>1. ASSUME NEW a \in new, a.status # "unprotected"
        PROVE  a.rule.host = a.shield /\ Reached(a.shield, a.rule)'
    <3>1. a.shield = s /\ a.rule \in published[s][m.gen] /\ ~UNCHANGED shld
      BY <1>5, <2>1
    <3>2. a.rule.host = s
      BY <1>m, <1>t, <3>1 DEF SoundPublished
    <3>3. floor' = [floor EXCEPT ![s] = m.gen]
      BY <3>1, ApplyMoves
    <3>4. floor'[s] = m.gen /\ m.gen \in 1..m.gen
      BY <1>m, <1>t, <3>3 DEF ShieldOK
    <3>5. published' = published
      BY <1>1
    <3> QED BY <3>1, <3>2, <3>4, <3>5 DEF Reached
  <2> QED BY <1>3, <1>5, <2>1, NewAcks
<1>7. SoundRows'
  BY <1>1, <1>3, RowsKept DEF store, hist
<1>8. StoreOK'
  BY <1>1 DEF ResourceInv, StoreOK, store, hist
<1>9. BackOK'
  BY <1>1, <1>5 DEF ResourceInv, BackOK, hist
<1> QED BY <1>2, <1>4, <1>6, <1>7, <1>8, <1>9 DEF ResourceInv, WireInv

-----------------------------------------------------------------------------
(* The invariant *)

\* Every step keeps the invariant.
LEMMA InvStep == ResourceInv /\ [Next]_vars => ResourceInv'
<1> SUFFICES ASSUME ResourceInv, [Next]_vars PROVE ResourceInv'
  OBVIOUS
<1>1. CASE UNCHANGED vars
  <2>1. WireInv' /\ Forward
    BY <1>1, WireKept DEF vars, wire
  <2>2. SoundAcks' /\ SoundRows'
    BY <1>1, <2>1, AcksKept, RowsKept DEF vars, back, store, hist
  <2>3. StoreOK' /\ BackOK'
    BY <1>1 DEF ResourceInv, StoreOK, BackOK, vars, store, wire, back, hist
  <2> QED BY <2>1, <2>2, <2>3 DEF ResourceInv
<1> QED BY <1>1, AdminStep, RecordAckStep, ReconcileStep, BuildStep, WireStep, FaultStep,
           HealthStep, ApplyStep DEF Next

\* An empty table, or one that has been enforced for some time, is sound.
LEMMA InvInit == Init => ResourceInv
<1> SUFFICES ASSUME Init PROVE ResourceInv
  OBVIOUS
<1>1. PICK at \in [Resources -> Shields \X {CHOOSE p \in Ports : TRUE}], standing \in BOOLEAN :
        LET rule(r) == [id |-> r, host |-> at[r][1], port |-> at[r][2]]
            set(s)  == {rule(r) : r \in {q \in Resources : at[q][1] = s}}
            on(s)   == standing /\ set(s) # {}
        IN  /\ row = [r \in Resources |->
                        [status |-> IF standing THEN "protected" ELSE "new",
                         action |-> IF standing THEN "apply" ELSE "remove",
                         shield |-> IF standing THEN at[r][1] ELSE NoShield,
                         host   |-> at[r][1],
                         port   |-> at[r][2]]]
            /\ wanted = [r \in Resources |->
                            IF standing THEN "protect" ELSE "unprotect"]
            /\ published = [s \in Shields |-> IF on(s) THEN <<set(s)>> ELSE <<>>]
            /\ active = [s \in Shields |-> IF on(s) THEN set(s) ELSE {}]
            /\ floor = [s \in Shields |-> IF on(s) THEN 1 ELSE 0]
            /\ fresh = [s \in Shields |-> ~on(s)]
            /\ cache = [s \in Shields |-> IF on(s) THEN [gen |-> 1, removes |-> {}]
                                                   ELSE NoMsg]
  BY DEF Init
<1> DEFINE rule(r) == [id |-> r, host |-> at[r][1], port |-> at[r][2]]
           set(s)  == {rule(r) : r \in {q \in Resources : at[q][1] = s}}
           on(s)   == standing /\ set(s) # {}
<1>2. /\ row = [r \in Resources |->
                   [status |-> IF standing THEN "protected" ELSE "new",
                    action |-> IF standing THEN "apply" ELSE "remove",
                    shield |-> IF standing THEN at[r][1] ELSE NoShield,
                    host   |-> at[r][1], port |-> at[r][2]]]
      /\ wanted = [r \in Resources |-> IF standing THEN "protect" ELSE "unprotect"]
  BY <1>1
<1>3. /\ published = [s \in Shields |-> IF on(s) THEN <<set(s)>> ELSE <<>>]
      /\ active = [s \in Shields |-> IF on(s) THEN set(s) ELSE {}]
      /\ floor = [s \in Shields |-> IF on(s) THEN 1 ELSE 0]
      /\ fresh = [s \in Shields |-> ~on(s)]
      /\ cache = [s \in Shields |-> IF on(s) THEN [gen |-> 1, removes |-> {}] ELSE NoMsg]
  BY <1>1
<1>4. /\ read = [r \in Resources |-> NoRead] /\ live = Shields /\ push = {} /\ builds = {}
      /\ inbox = [s \in Shields |-> {}] /\ acks = {} /\ drift = [s \in Shields |-> 0]
      /\ absent = [r \in Resources |-> 0] /\ online = TRUE /\ lost = FALSE /\ ops = 0 /\ faults = 0
  BY DEF Init
<1>5. \A r \in Resources : at[r][1] \in Shields /\ at[r][2] \in Ports
  <2>1. (CHOOSE p \in Ports : TRUE) \in Ports
    BY NamesAssumption
  <2> QED BY <2>1
<1>6. \A r \in Resources : rule(r) \in Rule /\ rule(r).host = at[r][1] /\ rule(r).id = r
  BY <1>5 DEF Rule
<1>7. \A s : set(s) \in SUBSET Rule /\ \A u \in set(s) : u.host = s
  BY <1>6
<1>8. \A r \in Resources : rule(r) \in set(at[r][1])
  OBVIOUS
<1>9. StoreOK
  <2>1. row \in [Resources -> Row]
    BY <1>2, <1>5 DEF Row
  <2>2. wanted \in [Resources -> {"protect", "unprotect", "delete"}]
    BY <1>2
  <2> QED BY <1>4, <2>1, <2>2, BoundsAssumption DEF StoreOK
<1>10. BackOK
  <2>1. drift \in [Shields -> 0..(DriftReports - 1)] /\ absent \in [Resources -> 0..(AbsentReports - 1)]
    BY <1>4, ReportsAssumption
  <2>2. faults \in 0..MaxFaults
    BY <1>4, BoundsAssumption
  <2> QED BY <1>4, <2>1, <2>2 DEF BackOK
<1>11. \A s : on(s) \in BOOLEAN
  OBVIOUS
<1>12. ASSUME NEW r \in Resources, standing PROVE on(at[r][1])
  BY <1>8, <1>12
<1> HIDE DEF on, set
<1>13. ASSUME NEW s \in Shields
       PROVE  /\ on(s) => /\ published[s] = <<set(s)>> /\ active[s] = set(s) /\ floor[s] = 1
                          /\ cache[s] = [gen |-> 1, removes |-> {}]
              /\ ~on(s) => /\ published[s] = <<>> /\ active[s] = {} /\ floor[s] = 0
                           /\ cache[s] = NoMsg
  BY <1>3
<1>14. WireOK
  <2>1. \A s : <<set(s)>> \in Seq(SUBSET Rule) /\ <<>> \in Seq(SUBSET Rule)
    BY <1>7
  <2>2. [gen |-> 1, removes |-> {}] \in Msg
    BY DEF Msg
  <2>3. published \in [Shields -> Seq(SUBSET Rule)]
    BY <1>3, <2>1
  <2>4. cache \in [Shields -> Msg \cup {NoMsg}]
    BY <1>3, <2>2
  <2> QED BY <1>4, <2>3, <2>4 DEF WireOK
<1>15. ShieldOK
  BY <1>3, <1>7, <1>11 DEF ShieldOK
<1>16. \A s \in Shields : on(s) => Len(published[s]) = 1 /\ published[s][1] = set(s)
  <2>1. \A x : Len(<<x>>) = 1 /\ <<x>>[1] = x
    OBVIOUS
  <2> QED BY <1>13, <2>1
<1>17. \A s \in Shields : ~on(s) => Len(published[s]) = 0
  BY <1>13
<1>18. Gens
  <2>1. ASSUME NEW s \in Shields
        PROVE  /\ cache[s] # NoMsg => cache[s].gen \in 1..Len(published[s])
               /\ floor[s] <= Len(published[s])
    BY <1>13, <1>16, <1>17
  <2> QED BY <1>4, <2>1 DEF Gens
<1>19. SoundPublished
  <2>1. ASSUME NEW s \in Shields, NEW g \in 1..Len(published[s]), NEW u \in published[s][g]
        PROVE  u.host = s
    <3>1. on(s) /\ g = 1
      BY <1>11, <1>16, <1>17
    <3> QED BY <1>7, <1>16, <2>1, <3>1
  <2> QED BY <2>1 DEF SoundPublished
<1>20. ActiveIsReached
  BY <1>11, <1>13, <1>16 DEF ActiveIsReached
<1>21. SoundAcks
  BY <1>4 DEF SoundAcks
<1>22. SoundRows
  <2>1. ASSUME NEW r \in Resources PROVE SoundRow(r, row[r], wanted[r])
    <3>1. CASE standing
      <4>1. /\ row[r].status = "protected" /\ row[r].shield = at[r][1] /\ row[r].host = at[r][1]
            /\ row[r].port = at[r][2]
        BY <1>2, <3>1
      <4>2. on(at[r][1]) /\ at[r][1] \in Shields
        BY <1>5, <1>12, <3>1
      <4>3. floor[at[r][1]] = 1 /\ published[at[r][1]][1] = set(at[r][1])
        BY <1>13, <1>16, <4>2
      <4>4. Reached(at[r][1], rule(r))
        BY <1>8, <4>2, <4>3 DEF Reached
      <4> QED BY <4>1, <4>4 DEF SoundRow, Removing
    <3>2. CASE ~standing
      <4>1. row[r].status = "new" /\ wanted[r] = "unprotect"
        BY <1>2, <3>2
      <4> QED BY <4>1 DEF SoundRow, Enforced, Removing
    <3> QED BY <3>1, <3>2
  <2> QED BY <2>1 DEF SoundRows
<1> QED BY <1>9, <1>10, <1>14, <1>15, <1>18, <1>19, <1>20, <1>21, <1>22 DEF ResourceInv, WireInv

-----------------------------------------------------------------------------
(* The theorems *)

\* Every reachable state is well typed, for any resources, shields and bounds.
THEOREM TypeCorrect == Spec => []TypeOK
<1>1. ResourceInv => TypeOK
  BY DEF ResourceInv, WireInv, StoreOK, WireOK, ShieldOK, BackOK, TypeOK
<1> QED BY <1>1, InvInit, InvStep, PTL DEF Spec

\* No ack, however late and from whichever shield, undoes a protect (RecordAck).
THEOREM ProtectNotUndone == Spec => []NoUnaskedUnprotect
<1>1. ResourceInv => NoUnaskedUnprotect
  BY DEF ResourceInv, SoundRows, SoundRow, NoUnaskedUnprotect
<1> QED BY <1>1, InvInit, InvStep, PTL DEF Spec

\* A resource shown as protected or failed is bound to a shield that has reached
\* a generation with its current rule (RecordAck, Update).
THEOREM VerdictsReached == Spec => []VerdictReachedShield
<1>1. ResourceInv => VerdictReachedShield
  BY DEF ResourceInv, SoundRows, SoundRow, Reached, RuleOf, VerdictReachedShield
<1> QED BY <1>1, InvInit, InvStep, PTL DEF Spec

\* A sound start is one of the abstract replica.
LEMMA ReplicaInit == Init => Replica!Init
<1> SUFFICES ASSUME Init, NEW s \in Shields
             PROVE  /\ floor[s] \in 0..Len(published[s])
                    /\ active[s] = IF floor[s] = 0 THEN {} ELSE published[s][floor[s]]
  BY DEF Replica!Init
<1>1. floor[s] \in Nat /\ Len(published[s]) \in Nat /\ floor[s] <= Len(published[s])
  BY InvInit DEF ResourceInv, WireInv, WireOK, ShieldOK, Gens
<1>2. \E rules : \/ floor[s] = 1 /\ active[s] = rules /\ published[s] = <<rules>>
                 \/ floor[s] = 0 /\ active[s] = {}
  <2>1. PICK at \in [Resources -> Shields \X {CHOOSE p \in Ports : TRUE}], standing \in BOOLEAN :
          LET rule(r) == [id |-> r, host |-> at[r][1], port |-> at[r][2]]
              set(t)  == {rule(r) : r \in {q \in Resources : at[q][1] = t}}
              on(t)   == standing /\ set(t) # {}
          IN  /\ published = [t \in Shields |-> IF on(t) THEN <<set(t)>> ELSE <<>>]
              /\ active = [t \in Shields |-> IF on(t) THEN set(t) ELSE {}]
              /\ floor = [t \in Shields |-> IF on(t) THEN 1 ELSE 0]
    BY ZenonT(60) DEF Init
  <2> DEFINE set == {[id |-> r, host |-> at[r][1], port |-> at[r][2]] :
                         r \in {q \in Resources : at[q][1] = s}}
             on == standing /\ set # {}
  <2>2. /\ published[s] = IF on THEN <<set>> ELSE <<>>
        /\ active[s] = IF on THEN set ELSE {}
        /\ floor[s] = IF on THEN 1 ELSE 0
    BY <2>1
  <2> HIDE DEF set, on
  <2> QED BY <2>2
<1>3. \A rules : <<rules>>[1] = rules
  OBVIOUS
<1>4. (floor[s] = 1 /\ active[s] = published[s][1]) \/ (floor[s] = 0 /\ active[s] = {})
  BY <1>2, <1>3
<1>5. floor[s] \in 0..Len(published[s])
  BY <1>1
<1>6. CASE floor[s] = 1 /\ active[s] = published[s][1]
  BY <1>5, <1>6
<1>7. CASE floor[s] = 0 /\ active[s] = {}
  BY <1>5, <1>7
<1> QED BY <1>4, <1>6, <1>7

\* Every step is a publication, a move to a newer set, a restart, or none of
\* these for the abstract replica.
LEMMA ReplicaStep == ResourceInv /\ [Next]_vars => [Replica!Next]_(Replica!vars)
<1> SUFFICES ASSUME ResourceInv, Next PROVE [Replica!Next]_(Replica!vars)
  BY DEF vars, wire, shld, Replica!vars
<1>s. UNCHANGED <<published, floor, active>> => [Replica!Next]_(Replica!vars)
  BY DEF Replica!vars
<1>1. ASSUME NEW s \in Shields, BuildShieldSnapshot(s) PROVE [Replica!Next]_(Replica!vars)
  <2>1. published' = [published EXCEPT ![s] = NextPublished(s)] /\ UNCHANGED <<floor, active>>
    BY <1>1 DEF BuildShieldSnapshot, shld
  <2>2. CASE NextPublished(s) = published[s]
    <3>1. published' = published
      BY <2>1, <2>2 DEF ResourceInv, WireInv, WireOK
    <3> QED BY <1>s, <2>1, <3>1
  <2>3. CASE NextPublished(s) # published[s]
    <3>1. /\ NextPublished(s) = Append(published[s], Desired(s))
          /\ published[s] # <<>> => Desired(s) # published[s][Len(published[s])]
      BY <2>3 DEF NextPublished
    <3>2. Desired(s) \in SUBSET Rule
      BY DesiredType
    <3>3. Replica!Publish(s)
      BY <2>1, <3>1, <3>2 DEF Replica!Publish
    <3> QED BY <3>3 DEF Replica!Next
  <2> QED BY <2>2, <2>3
<1>2. ASSUME NEW s \in Shields, NEW m \in inbox[s], ApplySignedResourceSet(s, m)
      PROVE  [Replica!Next]_(Replica!vars)
  <2>1. m.gen \in 1..Len(published[s]) /\ published' = published
    BY <1>2, ApplyMoves DEF ApplySignedResourceSet
  <2>2. CASE UNCHANGED shld
    BY <1>s, <2>1, <2>2 DEF shld
  <2>3. CASE /\ floor[s] <= m.gen
             /\ active' = [active EXCEPT ![s] = published[s][m.gen]]
             /\ floor' = [floor EXCEPT ![s] = m.gen]
    <3>1. floor[s] \in Nat /\ m.gen >= floor[s]
      BY <2>1, <2>3 DEF ResourceInv, WireInv, ShieldOK
    <3>2. Replica!Take(s)
      BY <2>1, <2>3, <3>1 DEF Replica!Take
    <3> QED BY <3>2 DEF Replica!Next
  <2> QED BY <1>2, <2>2, <2>3, ApplyMoves
<1>3. ASSUME NEW s \in Shields, NEW restarted \in BOOLEAN, ShieldReconnects(s, restarted)
      PROVE  [Replica!Next]_(Replica!vars)
  <2>1. published' = published /\ floor' = floor
    BY <1>3 DEF ShieldReconnects, Fault, shld
  <2>2. CASE active' = [active EXCEPT ![s] = {}]
    <3>1. Replica!Restart(s)
      BY <2>1, <2>2 DEF Replica!Restart
    <3> QED BY <3>1 DEF Replica!Next
  <2>3. CASE active' = active
    BY <1>s, <2>1, <2>3
  <2> QED BY <1>3, <2>2, <2>3 DEF ShieldReconnects, shld
<1>4. ASSUME NEW r \in Resources, Admin(r) \/ SweepTombstone(r) PROVE [Replica!Next]_(Replica!vars)
  <2>1. UNCHANGED adminRest
    BY <1>4, ChangeStep, DeleteStep DEF Admin
  <2> QED BY <1>s, <2>1 DEF adminRest, shld
<1>5. CASE \/ \E s \in Shields : \/ RevokeShield(s) \/ PushOffline(s)
                                 \/ HealthCheck(s) \/ ReconcileShield(s)
           \/ \E b \in builds : SignResourceSet(b) \/ SendFails(b)
           \/ \E a \in acks : RecordAck(a)
           \/ ConnectorDisconnects \/ ConnectorConnects \/ ControllerRestarts
  <2>1. UNCHANGED <<published, shld>>
    BY <1>5 DEF RevokeShield, PushOffline, HealthCheck, ReconcileShield, SignResourceSet, SendFails,
                RecordAck, ConnectorDisconnects, ConnectorConnects, ControllerRestarts, Fault, wire
  <2> QED BY <1>s, <2>1 DEF shld
<1> QED BY <1>1, <1>2, <1>3, <1>4, <1>5 DEF Next

\* What a shield enforces is a set some generation was built from, never one
\* older than a set it enforced before: the signed sets implement the abstract
\* versioned replica (BuildShieldSnapshot, admit_resource_set).
THEOREM ImplementsReplica == Spec => FollowsGenerations
BY InvInit, InvStep, ReplicaInit, ReplicaStep, PTL DEF Spec, FollowsGenerations, Replica!Spec
=============================================================================
