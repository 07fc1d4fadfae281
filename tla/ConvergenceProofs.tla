-------------------------- MODULE ConvergenceProofs --------------------------
(***************************************************************************)
(* Proofs about Convergence, for any fleet, any policies and any bounds;   *)
(* and, from the invariant of CheckinSessionsProofs, about the overlapping *)
(* sessions that MCFleet puts beside it.                                   *)
(***************************************************************************)
EXTENDS MCFleet, NaturalsInduction, WellFoundedInduction, TLAPS

-----------------------------------------------------------------------------
(* The horizon                                                             *)

\* A non-empty set of natural numbers has a least element.
LEMMA LeastElement ==
    ASSUME NEW S \in SUBSET Nat, S # {}
    PROVE  \E s \in S : \A r \in S : s <= r
<1>1. PICK s \in S : \A r \in S : <<r, s>> \notin OpToRel(<, Nat)
  BY WFMin, NatLessThanWellFounded, Zenon
<1>2. \A r \in S : ~ (r < s)
  BY <1>1, Zenon DEF OpToRel
<1>3. \A r \in S : s <= r
  BY <1>2
<1> QED
  BY <1>3

\* deployment.next_transition returns an instant after the one asked about and
\* no later than any scheduled deployment still to come.
LEMMA HorizonIsNext ==
    ASSUME TypeOK
    PROVE  /\ NextTransition(now) \in Schedule
           /\ \A r \in Transitions(now) : NextTransition(now) <= r
<1> DEFINE S == Transitions(now) \cup {Never}
<1>1. S \in SUBSET Schedule /\ S # {}
  BY BoundAssumption DEF TypeOK, Transitions, Schedule, Never
<1>2. S \in SUBSET Nat
  BY <1>1, BoundAssumption DEF Schedule, Never
<1>3. \E s \in S : \A r \in S : s <= r
  BY <1>1, <1>2, LeastElement
<1>4. NextTransition(now) \in S /\ \A r \in S : NextTransition(now) <= r
  BY <1>3 DEF NextTransition
<1> QED
  BY <1>1, <1>4

\* Until the horizon, what a device should have does not change by the
\* calendar alone.
LEMMA HorizonIsQuiet ==
    ASSUME TypeOK, NEW d \in Device, NEW R \in SUBSET Policy, NEW h \in Host,
           NEW t \in Time, now <= t, t < NextTransition(now)
    PROVE  Resolve(d, R, t, h) = Resolve(d, R, now, h)
<1>1. \A p \in R : p \notin archived => (IsLive(p, t) <=> IsLive(p, now))
  <2> SUFFICES ASSUME NEW p \in R, p \notin archived, p \in pending
               PROVE  at[p] <= t <=> at[p] <= now
    BY DEF IsLive
  <2>1. at[p] \in Int /\ now \in Int /\ t \in Int /\ NextTransition(now) \in Int
    BY HorizonIsNext, BoundAssumption DEF TypeOK, Schedule, Time, Never
  <2>2. at[p] > now => at[p] \in Transitions(now)
    BY DEF Transitions
  <2>3. at[p] > now => NextTransition(now) <= at[p]
    BY <2>2, HorizonIsNext
  <2> QED
    BY <2>1, <2>3
<1>2. Assignments(d, R, t) = Assignments(d, R, now)
  BY <1>1 DEF Assignments
<1> QED
  BY <1>2 DEF Resolve

-----------------------------------------------------------------------------
(* Types                                                                   *)

LEMMA ResolveType ==
    ASSUME TypeOK, NEW d \in Device, NEW R \in SUBSET Policy, NEW h \in Host,
           NEW t \in Time
    PROVE  Resolve(d, R, t, h) \in Payload
<1>1. Assignments(d, R, t) \subseteq Unit
  BY DEF Assignments, Unit
<1>2. {<<u, rev[u]>> : u \in Assignments(d, R, t)} \subseteq Unit \X Nat
  BY <1>1 DEF TypeOK
<1> QED
  BY <1>2 DEF Resolve, Payload, TypeOK

LEMMA RefreshType ==
    ASSUME TypeOK, NEW d \in Device, NEW R \in SUBSET Policy, NEW h \in Host,
           Refresh(d, R, h)
    PROVE  /\ version' \in [Device -> Nat]
           /\ payload' \in [Device -> Payload]
           /\ stale' \subseteq Device
           /\ horizon' \in [Device -> Schedule]
<1>1. Resolve(d, R, now, h) \in Payload
  BY ResolveType DEF TypeOK
<1>2. NextTransition(now) \in Schedule
  BY HorizonIsNext
<1> QED
  BY <1>1, <1>2 DEF Refresh, TypeOK

LEMMA SettleType ==
    ASSUME TypeOK, NEW d \in Device, NEW h \in Host, Settle(d, h)
    PROVE  /\ version' \in [Device -> Nat]
           /\ payload' \in [Device -> Payload]
           /\ stale' \subseteq Device
           /\ horizon' \in [Device -> Schedule]
<1>1. reach[d] \in SUBSET Policy
  BY DEF TypeOK
<1>2. CASE Cached(d) /\ payload[d].host = h
  BY <1>2 DEF Settle, cacheRow, TypeOK
<1>3. CASE ~(Cached(d) /\ payload[d].host = h)
  BY <1>1, <1>3, RefreshType DEF Settle
<1> QED
  BY <1>2, <1>3

LEMMA AffectedType ==
    ASSUME TypeOK, NEW u \in Unit
    PROVE  Affected(u) \subseteq Device
  BY DEF Affected, TypeOK

LEMMA ConstantsType ==
    /\ NoDocument \in Document
    /\ NoRequest \in Request
    /\ NoReply \in Reply
    /\ Never \in Schedule
  BY FactAssumption, BoundAssumption
     DEF NoDocument, Nothing, Document, Payload, NoRequest, Request, NoReply,
         Reply, Never, Schedule

\* Every step keeps every variable in its type.
LEMMA OperatorType ==
    ASSUME TypeOK, Operator
    PROVE  TypeOK'
<1> USE BoundAssumption
<1> USE DEF NotTheDevice, Edit, Invalidate, facts, agent, wire, cacheRow
<1>1. ASSUME NEW u \in Unit, Publish(u)
      PROVE  TypeOK'
  BY <1>1, AffectedType DEF TypeOK, Publish
<1>2. ASSUME NEW u \in Unit, AddSection(u)
      PROVE  TypeOK'
  BY <1>2 DEF TypeOK, AddSection
<1>3. ASSUME NEW p \in Policy, NEW D \in SUBSET Device, SetTargets(p, D)
      PROVE  TypeOK'
  <2>1. Affected(p) \subseteq Device
    BY AffectedType DEF Unit
  <2>2. reach' \in [Device -> SUBSET Policy]
    BY <1>3 DEF SetTargets, TypeOK
  <2> QED
    BY <1>3, <2>1, <2>2 DEF TypeOK, SetTargets
<1>4. ASSUME NEW p \in Policy, NEW when \in Schedule, Hold(p, when)
      PROVE  TypeOK'
  <2>1. Affected(p) \subseteq Device
    BY AffectedType DEF Unit
  <2> QED
    BY <1>4, <2>1 DEF TypeOK, Hold
<1>5. ASSUME NEW p \in Policy, Archive(p)
      PROVE  TypeOK'
  <2>1. Affected(p) \subseteq Device
    BY AffectedType DEF Unit
  <2>2. reach' \in [Device -> SUBSET Policy]
    BY <1>5 DEF Archive, TypeOK
  <2> QED
    BY <1>5, <2>1, <2>2 DEF TypeOK, Archive
<1>6. ASSUME NEW p \in Policy, Restore(p)
      PROVE  TypeOK'
  <2>1. Affected(p) \subseteq Device
    BY AffectedType DEF Unit
  <2> QED
    BY <1>6, <2>1 DEF TypeOK, Restore
<1>7. ASSUME NEW p \in Policy, Activate(p)
      PROVE  TypeOK'
  <2>1. Affected(p) \subseteq Device
    BY AffectedType DEF Unit
  <2> QED
    BY <1>7, <2>1 DEF TypeOK, Activate
<1>8. ASSUME NEW d \in Device, Engage(d)
      PROVE  TypeOK'
  <2>1. rev' \in [Unit -> Nat]
    BY <1>8 DEF TypeOK, Engage, Unit
  <2> QED
    BY <1>8, <2>1 DEF TypeOK, Engage
<1>9. ASSUME NEW d \in Device, Clear(d)
      PROVE  TypeOK'
  BY <1>9 DEF TypeOK, Clear
<1>10. ASSUME NEW d \in Device, ReadEffective(d)
       PROVE  TypeOK'
  <2>1. reach[d] \in SUBSET Policy /\ seenHost[d] \in Host
    BY DEF TypeOK
  <2>2. Refresh(d, reach[d], seenHost[d])
    BY <1>10 DEF ReadEffective
  <2> QED
    BY <1>10, <2>1, <2>2, RefreshType DEF TypeOK, ReadEffective, admin
<1>11. ASSUME EditCatalog
       PROVE  TypeOK'
  BY <1>11 DEF TypeOK, EditCatalog
<1> QED
  BY <1>1, <1>2, <1>3, <1>4, <1>5, <1>6, <1>7, <1>8, <1>9, <1>10, <1>11
     DEF Operator

LEMMA RecordType ==
    ASSUME TypeOK, NEW d \in Device, NEW m \in Request, Record(d, m)
    PROVE  /\ acked' \in [Device -> Nat]
           /\ seenHost' \in [Device -> Host] /\ seenBuild' \in [Device -> Build]
           /\ version' \in [Device -> Nat]
           /\ payload' \in [Device -> Payload]
           /\ stale' \subseteq Device
           /\ horizon' \in [Device -> Schedule]
           /\ confirmed' \subseteq Device
           /\ UNCHANGED <<admin, facts, agent, now, edits>>
<1>1. m.host \in Host /\ m.build \in Build /\ m.applied \in Nat
  BY DEF Request
<1>2. Settle(d, m.host)
  BY DEF Record, Confirm
<1>3. Larger(acked[d], m.applied) \in Nat
  BY <1>1 DEF Larger, TypeOK
<1> QED
  BY <1>1, <1>2, <1>3, SettleType DEF Record, Confirm, TypeOK

LEMMA DeviceStepType ==
    ASSUME TypeOK, NEW d \in Device, DeviceStep(d)
    PROVE  TypeOK'
<1> USE BoundAssumption, FactAssumption, ConstantsType
<1>1. ASSUME NEW h \in Host, HostChange(d, h)
      PROVE  TypeOK'
  BY <1>1 DEF TypeOK, HostChange, Fact, Edit, admin, row, agent, wire
<1>2. ASSUME NEW b \in Build, AgentUpgrade(d, b)
      PROVE  TypeOK'
  BY <1>2 DEF TypeOK, AgentUpgrade, Fact, Edit, admin, row, agent, wire
<1>3. ASSUME NEW T \in SUBSET Policy, Reenroll(d, T)
      PROVE  TypeOK'
  <2>1. reach[d] \cup T \in SUBSET Policy /\ seenHost[d] \in Host
    BY DEF TypeOK
  <2>2. Refresh(d, reach[d] \cup T, seenHost[d])
    BY <1>3 DEF Reenroll, Forget
  <2>3. /\ version' \in [Device -> Nat]
        /\ payload' \in [Device -> Payload]
        /\ stale' \subseteq Device
        /\ horizon' \in [Device -> Schedule]
    BY <2>1, <2>2, RefreshType
  <2>4. reach' \in [Device -> SUBSET Policy]
    BY <1>3, <2>1 DEF Reenroll, Forget, TypeOK
  <2>5. edits' \in Nat
    BY <1>3 DEF Reenroll, Forget, Edit, TypeOK
  <2> QED
    BY <1>3, <2>3, <2>4, <2>5 DEF TypeOK, Reenroll, Forget
<1>4. CASE Send(d)
  <2>1. request' \in [Device -> Request]
    BY <1>4 DEF Send, TypeOK, Request
  <2> QED
    BY <1>4, <2>1 DEF TypeOK, Send, admin, row, facts, agent
<1>5. CASE Checkin(d)
  <2>1. request[d] \in Request
    BY DEF TypeOK
  <2>2. Record(d, request[d])
    BY <1>5 DEF Checkin
  <2>3. Built(d) \in Document
    BY <2>1, <2>2, RecordType DEF Built, Document
  <2>4. reply' \in [Device -> Reply]
    <3>1. version'[d] \in Nat
      BY <2>1, <2>2, RecordType
    <3>2. /\ [version |-> version'[d], bundle |-> TRUE, document |-> Built(d)] \in Reply
          /\ [version |-> version'[d], bundle |-> FALSE, document |-> NoDocument] \in Reply
      BY <2>3, <3>1 DEF Reply
    <3> QED
      BY <1>5, <3>2 DEF Checkin, TypeOK
  <2> QED
    BY <1>5, <2>1, <2>2, <2>4, RecordType
       DEF TypeOK, Checkin, admin, facts, agent
<1>6. CASE GiveUp(d)
  BY <1>6 DEF TypeOK, GiveUp, admin, row, facts, agent
<1>7. CASE LoseReply(d)
  BY <1>7 DEF TypeOK, LoseReply, admin, row, facts, agent
<1>8. CASE Deliver(d)
  <2>1. reply[d].version \in Nat /\ reply[d].document \in Document
    BY DEF TypeOK, Reply
  <2> QED
    BY <1>8, <2>1 DEF TypeOK, Deliver, admin, row, facts
<1>9. CASE Apply(d)
  BY <1>9 DEF TypeOK, Apply, admin, row, facts, wire
<1>10. ASSUME NEW m \in late[d], LateCheckin(d, m)
       PROVE  TypeOK'
  <2>1. m \in Request
    BY DEF TypeOK
  <2>2. Record(d, m)
    BY <1>10 DEF LateCheckin
  <2>3. late' \in [Device -> SUBSET Request]
    BY <1>10 DEF LateCheckin, TypeOK
  <2> QED
    BY <1>10, <2>1, <2>2, <2>3, RecordType
       DEF TypeOK, LateCheckin, admin, facts, agent
<1> QED
  BY <1>1, <1>2, <1>3, <1>4, <1>5, <1>6, <1>7, <1>8, <1>9, <1>10 DEF DeviceStep

LEMMA StepType == TypeOK /\ [Next]_vars => TypeOK'
<1> SUFFICES ASSUME TypeOK, [Next]_vars PROVE TypeOK'
  OBVIOUS
<1>1. CASE Operator
  BY <1>1, OperatorType
<1>2. CASE Sweep
  <2>1. Due \subseteq Policy /\ UNION {Affected(p) : p \in Due} \subseteq Device
    BY AffectedType DEF Due, TypeOK, Unit
  <2> QED
    BY <1>2, <2>1 DEF TypeOK, Sweep, Invalidate, NotTheDevice, facts, agent, wire
<1>3. CASE Tick
  BY <1>3, BoundAssumption
     DEF TypeOK, Tick, Time, admin, row, facts, agent, wire
<1>4. ASSUME NEW d \in Device, DeviceStep(d)
      PROVE  TypeOK'
  BY <1>4, DeviceStepType
<1>5. CASE UNCHANGED vars
  BY <1>5 DEF TypeOK, vars, admin, row, facts, agent, wire
<1> QED
  BY <1>1, <1>2, <1>3, <1>4, <1>5 DEF Next

LEMMA InitType == Init => TypeOK
<1> SUFFICES ASSUME Init PROVE TypeOK
  OBVIOUS
<1>1. payload \in [Device -> Payload]
  BY FactAssumption DEF Init, Payload, Unit
<1>2. rev \in [Unit -> Nat] /\ at \in [Policy -> Schedule] /\ now \in Time
  BY BoundAssumption, ConstantsType DEF Init, Time
<1> QED
  BY <1>1, <1>2, FactAssumption, BoundAssumption, ConstantsType DEF Init, TypeOK

\* Every variable stays in its type.
THEOREM TypeCorrect == Spec => []TypeOK
  BY InitType, StepType, PTL DEF Spec

-----------------------------------------------------------------------------
(* Versions: what the two ends of an exchange can rely on                  *)

\* What a request says was so when it was sent and can only have been
\* overtaken; what an answer says is no newer than the server.
Exchanges ==
    \A d \in Device :
        /\ version[d] >= 1
        /\ phase[d] = "waiting" =>
              request[d].held = held[d] /\ request[d].applied <= applied[d]
        /\ \A m \in late[d] : m.applied <= applied[d]
        /\ phase[d] = "replied" =>
              /\ held[d] <= reply[d].version
              /\ 1 <= reply[d].version /\ reply[d].version <= version[d]
              /\ ~reply[d].bundle => reply[d].version = held[d]

Agreement == TypeOK /\ Exchanges /\ AckedWasApplied /\ VersionBinding

\* A recompute moves the version by one if the payload moved, and not at all
\* if it did not; and it touches one device.
LEMMA RefreshMoves ==
    ASSUME TypeOK, NEW d \in Device, NEW R, NEW h, Refresh(d, R, h)
    PROVE  /\ \/ version'[d] = version[d] /\ payload'[d] = payload[d]
              \/ version'[d] = version[d] + 1
           /\ \A e \in Device \ {d} :
                 version'[e] = version[e] /\ payload'[e] = payload[e]
  BY DEF Refresh, TypeOK

LEMMA SettleMoves ==
    ASSUME TypeOK, NEW d \in Device, NEW h, Settle(d, h)
    PROVE  /\ \/ version'[d] = version[d] /\ payload'[d] = payload[d]
              \/ version'[d] = version[d] + 1
           /\ \A e \in Device \ {d} :
                 version'[e] = version[e] /\ payload'[e] = payload[e]
<1>1. CASE UNCHANGED cacheRow
  BY <1>1 DEF cacheRow
<1>2. CASE Refresh(d, reach[d], h)
  BY <1>2, RefreshMoves
<1> QED
  BY <1>1, <1>2 DEF Settle

\* Steps of operators, of the clock and of the sweeper disturb none of it.
LEMMA QuietAgreement ==
    ASSUME Agreement, TypeOK',
           UNCHANGED <<version, acked, payload, agent, wire>>
    PROVE  Agreement'
  BY DEF Agreement, Exchanges, AckedWasApplied, VersionBinding, agent, wire

\* A step that settles d and leaves its exchange alone.
LEMMA SettledAgreement ==
    ASSUME Agreement, TypeOK', NEW d \in Device,
           \/ version'[d] = version[d] /\ payload'[d] = payload[d]
           \/ version'[d] = version[d] + 1,
           \A e \in Device \ {d} :
               version'[e] = version[e] /\ payload'[e] = payload[e],
           \A e \in Device : acked'[e] <= applied[e],
           \A e \in Device : late'[e] \subseteq late[e],
           UNCHANGED <<agent, phase, request, reply>>
    PROVE  Agreement'
<1> USE DEF agent
<1>1. \A e \in Device : /\ version[e] \in Nat /\ version'[e] \in Nat
                        /\ held[e] \in Nat /\ applied[e] \in Nat
                        /\ reply[e].version \in Nat
  BY DEF Agreement, TypeOK, Reply
<1>2. Exchanges'
  BY <1>1 DEF Agreement, Exchanges
<1>3. AckedWasApplied'
  BY <1>1 DEF Agreement, AckedWasApplied
<1>4. VersionBinding'
  BY <1>1 DEF Agreement, Exchanges, AckedWasApplied, VersionBinding
<1> QED
  BY <1>2, <1>3, <1>4 DEF Agreement

LEMMA CheckinAgreement ==
    ASSUME Agreement, TypeOK', NEW d \in Device, Checkin(d)
    PROVE  Agreement'
<1> DEFINE m == request[d]
<1>1. /\ m \in Request /\ m.held = held[d] /\ m.applied <= applied[d]
      /\ phase[d] = "waiting"
  BY DEF Agreement, Exchanges, TypeOK, Checkin
<1>2. /\ \/ version'[d] = version[d] /\ payload'[d] = payload[d]
         \/ version'[d] = version[d] + 1
      /\ \A e \in Device \ {d} :
            version'[e] = version[e] /\ payload'[e] = payload[e]
  BY SettleMoves DEF Agreement, Checkin, Record, Confirm
<1>3. UNCHANGED <<held, document, applied, running, late>>
  BY DEF Checkin, Record, Confirm, agent
<1>4. \A e \in Device \ {d} :
         phase'[e] = phase[e] /\ request'[e] = request[e] /\ reply'[e] = reply[e]
  BY DEF Checkin, Agreement, TypeOK
<1>5. /\ phase'[d] = "replied" /\ reply'[d].version = version'[d]
      /\ reply'[d].bundle => reply'[d].document.payload = payload'[d]
      /\ ~reply'[d].bundle => m.held = version'[d]
  BY DEF Checkin, Built, Agreement, TypeOK
<1>6. \A e \in Device : /\ version[e] \in Nat /\ version'[e] \in Nat
                        /\ held[e] \in Nat /\ applied[e] \in Nat
                        /\ acked[e] \in Nat /\ reply[e].version \in Nat
                        /\ reply[e].bundle \in BOOLEAN
  BY DEF Agreement, TypeOK, Reply
<1>7. m.applied \in Nat
  BY <1>1 DEF Request
<1>8. \A e \in Device : acked'[e] <= applied[e]
  BY <1>1, <1>6, <1>7
     DEF Checkin, Record, Confirm, Larger, Agreement, AckedWasApplied, TypeOK
<1>9. held[d] <= version[d] /\ applied[d] <= version[d]
  BY <1>6 DEF Agreement, AckedWasApplied
<1>10. Exchanges'
  <2> SUFFICES ASSUME NEW e \in Device PROVE Exchanges!(e)'
    BY DEF Exchanges
  <2>1. CASE e = d
    BY <2>1, <1>1, <1>2, <1>3, <1>5, <1>6, <1>9 DEF Agreement, Exchanges
  <2>2. CASE e # d
    BY <2>2, <1>2, <1>3, <1>4 DEF Agreement, Exchanges
  <2> QED
    BY <2>1, <2>2
<1>11. AckedWasApplied'
  BY <1>2, <1>3, <1>6, <1>8 DEF Agreement, AckedWasApplied
<1>12. VersionBinding'
  <2> SUFFICES ASSUME NEW e \in Device PROVE VersionBinding!(e)'
    BY DEF VersionBinding
  <2>1. CASE e = d
    BY <2>1, <1>1, <1>2, <1>3, <1>5, <1>6, <1>9 DEF Agreement, VersionBinding
  <2>2. CASE e # d
    BY <2>2, <1>2, <1>3, <1>4 DEF Agreement, VersionBinding
  <2> QED
    BY <2>1, <2>2
<1> QED
  BY <1>10, <1>11, <1>12 DEF Agreement

LEMMA DeviceAgreement ==
    ASSUME Agreement, TypeOK', NEW d \in Device, DeviceStep(d)
    PROVE  Agreement'
<1> USE DEF agent
<1>0. \A e \in Device : /\ version[e] \in Nat /\ held[e] \in Nat
                        /\ applied[e] \in Nat /\ acked[e] \in Nat
                        /\ reply[e].version \in Nat
                        /\ reply[e].bundle \in BOOLEAN
  BY DEF Agreement, TypeOK, Reply
<1>1. ASSUME NEW h \in Host, HostChange(d, h)
      PROVE  Agreement'
  BY <1>1, QuietAgreement DEF HostChange, Fact, row, wire
<1>2. ASSUME NEW b \in Build, AgentUpgrade(d, b)
      PROVE  Agreement'
  BY <1>2, QuietAgreement DEF AgentUpgrade, Fact, row, wire
<1>3. ASSUME NEW T \in SUBSET Policy, Reenroll(d, T)
      PROVE  Agreement'
  <2>1. /\ \/ version'[d] = version[d] /\ payload'[d] = payload[d]
           \/ version'[d] = version[d] + 1
        /\ \A e \in Device \ {d} :
              version'[e] = version[e] /\ payload'[e] = payload[e]
    BY <1>3, RefreshMoves DEF Reenroll, Forget, Agreement
  <2>2. \A e \in Device \ {d} :
           /\ acked'[e] = acked[e] /\ held'[e] = held[e]
           /\ document'[e] = document[e] /\ applied'[e] = applied[e]
           /\ running'[e] = running[e] /\ phase'[e] = phase[e]
           /\ request'[e] = request[e] /\ reply'[e] = reply[e]
           /\ late'[e] = late[e]
    BY <1>3 DEF Reenroll, Forget, Agreement, TypeOK
  <2>3. /\ acked'[d] = 0 /\ held'[d] = 0 /\ applied'[d] = 0
        /\ phase'[d] = "idle" /\ late'[d] = {}
    BY <1>3 DEF Reenroll, Forget, Agreement, TypeOK
  <2>4. version[d] >= 1
    BY DEF Agreement, Exchanges
  <2>5. Exchanges'
    BY <1>0, <2>1, <2>2, <2>3, <2>4 DEF Agreement, Exchanges
  <2>6. AckedWasApplied'
    BY <1>0, <2>1, <2>2, <2>3, <2>4 DEF Agreement, AckedWasApplied
  <2>7. VersionBinding'
    BY <1>0, <2>1, <2>2, <2>3, <2>4 DEF Agreement, VersionBinding
  <2> QED
    BY <2>5, <2>6, <2>7 DEF Agreement
<1>4. CASE Send(d)
  <2>1. /\ \A e \in Device \ {d} : request'[e] = request[e] /\ phase'[e] = phase[e]
        /\ phase'[d] = "waiting"
        /\ request'[d].held = held[d] /\ request'[d].applied = applied[d]
    BY <1>4 DEF Send, Agreement, TypeOK
  <2> QED
    BY <1>4, <1>0, <2>1
       DEF Send, row, Agreement, Exchanges, AckedWasApplied, VersionBinding
<1>5. CASE Checkin(d)
  BY <1>5, CheckinAgreement
<1>6. CASE GiveUp(d)
  <2>1. /\ \A e \in Device \ {d} :
              /\ phase'[e] = phase[e] /\ request'[e] = request[e]
              /\ late'[e] = late[e]
        /\ phase'[d] = "idle" /\ late'[d] = late[d] \cup {request[d]}
        /\ phase[d] = "waiting"
    BY <1>6 DEF GiveUp, Agreement, TypeOK
  <2> QED
    BY <1>6, <1>0, <2>1
       DEF GiveUp, row, Agreement, Exchanges, AckedWasApplied, VersionBinding
<1>7. CASE LoseReply(d)
  <2>1. /\ \A e \in Device \ {d} : phase'[e] = phase[e] /\ reply'[e] = reply[e]
        /\ phase'[d] = "idle"
    BY <1>7 DEF LoseReply, Agreement, TypeOK
  <2> QED
    BY <1>7, <1>0, <2>1
       DEF LoseReply, row, Agreement, Exchanges, AckedWasApplied, VersionBinding
<1>8. CASE Deliver(d)
  <2>1. \A e \in Device \ {d} :
           /\ phase'[e] = phase[e] /\ reply'[e] = reply[e]
           /\ held'[e] = held[e] /\ document'[e] = document[e]
    BY <1>8 DEF Deliver, Agreement, TypeOK
  <2>2. /\ phase[d] = "replied" /\ phase'[d] = "idle"
        /\ held'[d] = reply[d].version
        /\ document'[d] = IF reply[d].bundle THEN reply[d].document ELSE document[d]
    BY <1>8 DEF Deliver, Agreement, TypeOK
  <2>3. UNCHANGED <<version, acked, payload, applied, running, request, late>>
    BY <1>8 DEF Deliver, row
  <2>4. Exchanges'
    BY <1>0, <2>1, <2>2, <2>3 DEF Agreement, Exchanges
  <2>5. AckedWasApplied'
    BY <1>0, <2>1, <2>2, <2>3 DEF Agreement, Exchanges, AckedWasApplied
  <2>6. VersionBinding'
    BY <1>0, <2>1, <2>2, <2>3 DEF Agreement, VersionBinding
  <2> QED
    BY <2>4, <2>5, <2>6 DEF Agreement
<1>9. CASE Apply(d)
  <2>1. /\ \A e \in Device \ {d} :
              applied'[e] = applied[e] /\ running'[e] = running[e]
        /\ applied'[d] = held[d] /\ running'[d] = document[d]
    BY <1>9 DEF Apply, Agreement, TypeOK
  <2>2. applied[d] <= held[d]
    BY DEF Agreement, AckedWasApplied
  <2>3. UNCHANGED <<version, acked, payload, held, document, wire>>
    BY <1>9 DEF Apply, row
  <2>4. \A e \in Device : \A m \in late[e] : m.applied \in Nat
    BY DEF Agreement, TypeOK, Request
  <2>5. \A e \in Device : request[e].applied \in Nat
    BY DEF Agreement, TypeOK, Request
  <2>6. Exchanges'
    BY <1>0, <2>1, <2>2, <2>3, <2>4, <2>5 DEF Agreement, Exchanges, wire
  <2>7. AckedWasApplied'
    BY <1>0, <2>1, <2>2, <2>3 DEF Agreement, AckedWasApplied
  <2>8. VersionBinding'
    BY <1>0, <2>1, <2>2, <2>3 DEF Agreement, VersionBinding, wire
  <2> QED
    BY <2>6, <2>7, <2>8 DEF Agreement
<1>10. ASSUME NEW m \in late[d], LateCheckin(d, m)
       PROVE  Agreement'
  <2>1. m \in Request /\ m.applied \in Nat /\ m.applied <= applied[d]
    BY DEF Agreement, Exchanges, TypeOK, Request
  <2>2. \A e \in Device : acked'[e] <= applied[e]
    BY <1>0, <1>10, <2>1
       DEF LateCheckin, Record, Confirm, Larger, Agreement, AckedWasApplied, TypeOK
  <2>3. \A e \in Device : late'[e] \subseteq late[e]
    BY <1>10 DEF LateCheckin, Agreement, TypeOK
  <2>4. Settle(d, m.host) /\ UNCHANGED <<agent, phase, request, reply>>
    BY <1>10 DEF LateCheckin, Record, Confirm
  <2>5. /\ \/ version'[d] = version[d] /\ payload'[d] = payload[d]
           \/ version'[d] = version[d] + 1
        /\ \A e \in Device \ {d} :
              version'[e] = version[e] /\ payload'[e] = payload[e]
    BY <2>4, SettleMoves DEF Agreement
  <2> QED
    BY <2>2, <2>3, <2>4, <2>5, SettledAgreement
<1> QED
  BY <1>1, <1>2, <1>3, <1>4, <1>5, <1>6, <1>7, <1>8, <1>9, <1>10 DEF DeviceStep

LEMMA OperatorAgreement ==
    ASSUME Agreement, TypeOK', Operator
    PROVE  Agreement'
<1>1. CASE UNCHANGED <<version, acked, payload, agent, wire>>
  BY <1>1, QuietAgreement
<1>2. ASSUME NEW d \in Device, ReadEffective(d)
      PROVE  Agreement'
  <2>1. /\ Refresh(d, reach[d], seenHost[d])
        /\ UNCHANGED <<acked, agent, phase, request, reply, late>>
    BY <1>2 DEF ReadEffective, wire
  <2>2. /\ \/ version'[d] = version[d] /\ payload'[d] = payload[d]
           \/ version'[d] = version[d] + 1
        /\ \A e \in Device \ {d} :
              version'[e] = version[e] /\ payload'[e] = payload[e]
    BY <2>1, RefreshMoves DEF Agreement
  <2>3. \A e \in Device : acked'[e] <= applied[e]
    BY <2>1 DEF Agreement, AckedWasApplied
  <2> QED
    BY <2>1, <2>2, <2>3, SettledAgreement
<1>3. \/ UNCHANGED <<version, acked, payload, agent, wire>>
      \/ \E d \in Device : ReadEffective(d)
  BY DEF Operator, Publish, AddSection, SetTargets, Hold, Archive, Restore,
         Activate, Engage, Clear, EditCatalog, NotTheDevice, Invalidate, cacheRow
<1> QED
  BY <1>1, <1>2, <1>3

LEMMA StepAgreement == Agreement /\ [Next]_vars => Agreement'
<1> SUFFICES ASSUME Agreement, [Next]_vars PROVE Agreement'
  OBVIOUS
<1>0. TypeOK'
  BY StepType DEF Agreement
<1>1. CASE Operator
  BY <1>0, <1>1, OperatorAgreement
<1>2. CASE Sweep \/ Tick \/ UNCHANGED vars
  BY <1>0, <1>2, QuietAgreement
     DEF Sweep, Tick, vars, NotTheDevice, Invalidate, row
<1>3. ASSUME NEW d \in Device, DeviceStep(d)
      PROVE  Agreement'
  BY <1>0, <1>3, DeviceAgreement
<1> QED
  BY <1>1, <1>2, <1>3 DEF Next

LEMMA InitAgreement == Init => Agreement
<1> SUFFICES ASSUME Init PROVE Agreement
  OBVIOUS
<1> QED
  BY InitType DEF Init, Agreement, Exchanges, AckedWasApplied, VersionBinding

LEMMA AlwaysAgreement == Spec => []Agreement
  BY InitAgreement, StepAgreement, PTL DEF Spec

\* Whatever is lost, late or repeated, and whoever is wiped: the server never
\* believes more applied than was, and no device is ahead of its server.
THEOREM NothingIsAhead == Spec => []AckedWasApplied
  BY AlwaysAgreement, PTL DEF Agreement

\* One version of one device is one payload, at every place that carries it.
THEOREM OneVersionOnePayload == Spec => []VersionBinding
  BY AlwaysAgreement, PTL DEF Agreement

-----------------------------------------------------------------------------
(* The cache                                                               *)

\* A cache row that is not stale answers every instant up to its horizon, not
\* only the present one: the strengthening that a tick of the clock needs.
RowHolds(d) ==
    \A t \in Time : (now <= t /\ t < horizon[d]) =>
        MissesOnlySections(payload[d], Compute(d, t))

CacheHolds == \A d \in Device \ stale : RowHolds(d)

\* Two payloads that differ in sections only compose with a third.
LEMMA MissesTransitive ==
    ASSUME NEW a, NEW b, NEW c, MissesOnlySections(a, b), MissesOnlySections(b, c)
    PROVE  MissesOnlySections(a, c)
  BY DEF MissesOnlySections

Units(A, f) == {i[1] : i \in {<<v, f[v]>> : v \in A}}

\* The units of a set of items are the units it was built from.
LEMMA UnitsOfItems ==
    ASSUME NEW A, NEW f
    PROVE  Units(A, f) = A
<1> USE DEF Units
<1>1. ASSUME NEW x \in A
      PROVE  x \in {i[1] : i \in {<<v, f[v]>> : v \in A}}
  <2>1. <<x, f[x]>> \in {<<v, f[v]>> : v \in A} /\ <<x, f[x]>>[1] = x
    OBVIOUS
  <2> QED
    BY <2>1
<1>2. ASSUME NEW x \in {i[1] : i \in {<<v, f[v]>> : v \in A}}
      PROVE  x \in A
  <2>1. PICK v \in A : x = <<v, f[v]>>[1]
    BY <1>2
  <2> QED
    BY <2>1
<1> QED
  BY <1>1, <1>2

\* What a device should have depends on what is assigned to it, and on nothing
\* a step does elsewhere.
LEMMA SameInputs ==
    ASSUME NEW d \in Device, NEW t,
           Assignments(d, reach[d], t)' = Assignments(d, reach[d], t),
           \A u \in Assignments(d, reach[d], t) : rev'[u] = rev[u],
           catalog' = catalog, seenHost'[d] = seenHost[d]
    PROVE  Compute(d, t)' = Compute(d, t)
  BY DEF Compute, Resolve

\* A row left alone, under inputs left alone.
LEMMA SameRow ==
    ASSUME NEW d \in Device, RowHolds(d), now' = now,
           payload'[d] = payload[d], horizon'[d] = horizon[d],
           \A t \in Time : Compute(d, t)' = Compute(d, t)
    PROVE  RowHolds(d)'
  BY DEF RowHolds

\* A row just computed holds until its horizon.
LEMMA FreshRow ==
    ASSUME TypeOK, NEW d \in Device, NEW R \in SUBSET Policy, NEW h \in Host,
           Refresh(d, R, h), UNCHANGED <<rev, archived, pending, at, catalog,
                                         breached, now>>,
           reach'[d] = R, seenHost'[d] = h
    PROVE  RowHolds(d)'
<1> SUFFICES ASSUME NEW t \in Time, now <= t, t < NextTransition(now)
             PROVE  MissesOnlySections(Resolve(d, R, now, h), Compute(d, t)')
  BY DEF RowHolds, Refresh, TypeOK
<1>1. Compute(d, t)' = Resolve(d, R, t, h)
  BY DEF Compute, Resolve, Assignments, IsLive
<1>2. Resolve(d, R, t, h) = Resolve(d, R, now, h)
  BY HorizonIsQuiet
<1> QED
  BY <1>1, <1>2 DEF MissesOnlySections

\* An operator's step spares only the rows whose device it does not touch.
LEMMA OperatorCache ==
    ASSUME TypeOK, CacheHolds, Operator
    PROVE  CacheHolds'
<1> USE DEF NotTheDevice, Invalidate
<1> SUFFICES ASSUME NEW e \in Device, e \notin stale'
             PROVE  RowHolds(e)'
  BY DEF CacheHolds
<1>0. ASSUME e \notin stale
      PROVE  RowHolds(e)
  BY <1>0 DEF CacheHolds
<1>1. reach[e] \subseteq Policy /\ Reserved \notin reach[e]
  BY ProfileAssumption DEF TypeOK
<1>2. ASSUME NEW u \in Unit, Publish(u)
      PROVE  RowHolds(e)'
  <2>1. e \notin stale /\ e \notin Affected(u)
    BY <1>2 DEF Publish
  <2>2. \A t \in Time : u \notin Assignments(e, reach[e], t)
    BY <1>1, <2>1 DEF Affected, Assignments
  <2>3. \A t \in Time : \A v \in Assignments(e, reach[e], t) : rev'[v] = rev[v]
    BY <1>1, <1>2, <2>2 DEF Publish, TypeOK, Assignments, Unit
  <2>4. \A t \in Time : Compute(e, t)' = Compute(e, t)
    BY <1>2, <2>3, SameInputs DEF Publish, Assignments, IsLive
  <2> QED
    BY <1>0, <1>2, <2>1, <2>4, SameRow DEF Publish
<1>3. ASSUME NEW u \in Unit, AddSection(u)
      PROVE  RowHolds(e)'
  <2>1. e \notin stale
    BY <1>3 DEF AddSection, cacheRow
  <2>2. ASSUME NEW t \in Time
        PROVE  MissesOnlySections(Compute(e, t), Compute(e, t)')
    <3> DEFINE A == Assignments(e, reach[e], t)
    <3>1. Assignments(e, reach[e], t)' = A
      BY <1>3 DEF AddSection, Assignments, IsLive
    <3>2. A \subseteq Unit
      BY <1>1 DEF Assignments, Unit
    <3>3. \A v \in A : v \notin Growing => rev'[v] = rev[v]
      <4>1. \A v \in A : e \in Affected(v)
        BY ProfileAssumption, <1>1 DEF Assignments, Affected, TypeOK
      <4> QED
        BY <1>3, <3>2, <4>1 DEF AddSection, TypeOK
    <3>4. /\ Compute(e, t).items = {<<v, rev[v]>> : v \in A}
          /\ Compute(e, t)'.items = {<<v, rev'[v]>> : v \in A}
          /\ Compute(e, t).catalog = Compute(e, t)'.catalog
          /\ Compute(e, t).host = Compute(e, t)'.host
      BY <1>3, <3>1 DEF Compute, Resolve, AddSection
    <3> HIDE DEF A
    <3>5. Units(A, rev) = A /\ Units(A, rev') = A
      BY UnitsOfItems
    <3>6. {i \in {<<v, rev[v]>> : v \in A} : i[1] \notin Growing} =
          {i \in {<<v, rev'[v]>> : v \in A} : i[1] \notin Growing}
      BY <3>3
    <3> QED
      BY <3>4, <3>5, <3>6 DEF Units, MissesOnlySections
  <2> QED
    BY <1>0, <1>3, <2>1, <2>2, MissesTransitive
       DEF RowHolds, AddSection, cacheRow
<1>4. ASSUME NEW p \in Policy, NEW D \in SUBSET Device, SetTargets(p, D)
      PROVE  RowHolds(e)'
  <2>1. e \notin stale /\ e \notin D /\ e \notin Affected(p)
    BY <1>4 DEF SetTargets
  <2>2. reach'[e] = reach[e]
    BY <1>4, <2>1, ProfileAssumption DEF SetTargets, Affected
  <2>3. \A t \in Time : Compute(e, t)' = Compute(e, t)
    BY <1>4, <2>2, SameInputs DEF SetTargets, Assignments, IsLive
  <2> QED
    BY <1>0, <1>4, <2>1, <2>3, SameRow DEF SetTargets
<1>5. ASSUME NEW p \in Policy, NEW when \in Schedule, Hold(p, when)
      PROVE  RowHolds(e)'
  <2>1. e \notin stale /\ p \notin reach[e]
    BY <1>5, ProfileAssumption DEF Hold, Affected
  <2>2. \A t \in Time : Assignments(e, reach[e], t)' = Assignments(e, reach[e], t)
    <3>1. \A q \in reach[e], t \in Time : IsLive(q, t)' <=> IsLive(q, t)
      BY <1>1, <1>5, <2>1 DEF Hold, IsLive, TypeOK
    <3>2. reach' = reach /\ archived' = archived /\ breached' = breached
      BY <1>5 DEF Hold
    <3> QED
      BY <3>1, <3>2 DEF Assignments
  <2>3. \A t \in Time : Compute(e, t)' = Compute(e, t)
    BY <1>5, <2>2, SameInputs DEF Hold
  <2> QED
    BY <1>0, <1>5, <2>1, <2>3, SameRow DEF Hold
<1>6. ASSUME NEW p \in Policy, Archive(p)
      PROVE  RowHolds(e)'
  <2>1. e \notin stale /\ p \notin reach[e]
    BY <1>6, ProfileAssumption DEF Archive, Affected
  <2>2. reach'[e] = reach[e]
    BY <1>6, <2>1 DEF Archive
  <2>3. \A t \in Time : Assignments(e, reach[e], t)' = Assignments(e, reach[e], t)
    BY <1>6, <2>1, <2>2 DEF Archive, Assignments, IsLive
  <2>4. \A t \in Time : Compute(e, t)' = Compute(e, t)
    BY <1>6, <2>3, SameInputs DEF Archive
  <2> QED
    BY <1>0, <1>6, <2>1, <2>4, SameRow DEF Archive
<1>7. ASSUME NEW p \in Policy, Restore(p)
      PROVE  RowHolds(e)'
  <2>1. e \notin stale /\ p \notin reach[e]
    BY <1>7, ProfileAssumption DEF Restore, Affected
  <2>2. \A t \in Time : Assignments(e, reach[e], t)' = Assignments(e, reach[e], t)
    BY <1>7, <2>1 DEF Restore, Assignments, IsLive
  <2>3. \A t \in Time : Compute(e, t)' = Compute(e, t)
    BY <1>7, <2>2, SameInputs DEF Restore
  <2> QED
    BY <1>0, <1>7, <2>1, <2>3, SameRow DEF Restore
<1>8. ASSUME NEW p \in Policy, Activate(p)
      PROVE  RowHolds(e)'
  <2>1. e \notin stale /\ p \notin reach[e]
    BY <1>8, ProfileAssumption DEF Activate, Affected
  <2>2. \A t \in Time : Assignments(e, reach[e], t)' = Assignments(e, reach[e], t)
    BY <1>8, <2>1 DEF Activate, Assignments, IsLive
  <2>3. \A t \in Time : Compute(e, t)' = Compute(e, t)
    BY <1>8, <2>2, SameInputs DEF Activate
  <2> QED
    BY <1>0, <1>8, <2>1, <2>3, SameRow DEF Activate
<1>9. ASSUME NEW d \in Device, Engage(d)
      PROVE  RowHolds(e)'
  <2>1. e \notin stale /\ e # d /\ (frozen # catalog => e \notin breached)
    BY <1>9 DEF Engage
  <2>2. \A t \in Time : Assignments(e, reach[e], t)' = Assignments(e, reach[e], t)
    BY <1>9, <2>1 DEF Engage, Assignments, IsLive
  <2>3. \A t \in Time : \A v \in Assignments(e, reach[e], t) : rev'[v] = rev[v]
    BY <1>1, <1>9, <2>1 DEF Engage, Assignments, TypeOK, Unit
  <2>4. \A t \in Time : Compute(e, t)' = Compute(e, t)
    BY <1>9, <2>2, <2>3, SameInputs DEF Engage
  <2> QED
    BY <1>0, <1>9, <2>1, <2>4, SameRow DEF Engage
<1>10. ASSUME NEW d \in Device, Clear(d)
       PROVE  RowHolds(e)'
  <2>1. e \notin stale /\ e # d
    BY <1>10 DEF Clear
  <2>2. \A t \in Time : Assignments(e, reach[e], t)' = Assignments(e, reach[e], t)
    BY <1>10, <2>1 DEF Clear, Assignments, IsLive
  <2>3. \A t \in Time : Compute(e, t)' = Compute(e, t)
    BY <1>10, <2>2, SameInputs DEF Clear
  <2> QED
    BY <1>0, <1>10, <2>1, <2>3, SameRow DEF Clear
<1>11. ASSUME NEW d \in Device, ReadEffective(d)
       PROVE  RowHolds(e)'
  <2>1. Refresh(d, reach[d], seenHost[d]) /\ UNCHANGED <<admin, seenHost, now>>
    BY <1>11 DEF ReadEffective
  <2>2. CASE e = d
    BY <2>1, <2>2, FreshRow DEF TypeOK, admin
  <2>3. CASE e # d
    <3>1. e \notin stale /\ payload'[e] = payload[e] /\ horizon'[e] = horizon[e]
      BY <2>1, <2>3 DEF Refresh, TypeOK
    <3>2. \A t \in Time : Compute(e, t)' = Compute(e, t)
      BY <2>1 DEF Compute, Resolve, Assignments, IsLive, admin
    <3> QED
      BY <1>0, <2>1, <3>1, <3>2, SameRow
  <2> QED
    BY <2>2, <2>3
<1>12. ~EditCatalog
  BY DEF EditCatalog
<1> QED
  BY <1>2, <1>3, <1>4, <1>5, <1>6, <1>7, <1>8, <1>9, <1>10, <1>11, <1>12
     DEF Operator

\* Steps that touch neither the inputs nor the rows.
LEMMA QuietCache ==
    ASSUME CacheHolds, UNCHANGED <<admin, cacheRow, seenHost, now>>
    PROVE  CacheHolds'
<1> SUFFICES ASSUME NEW e \in Device, e \notin stale'
             PROVE  RowHolds(e)'
  BY DEF CacheHolds
<1>1. RowHolds(e)
  BY DEF CacheHolds, cacheRow
<1>2. \A t \in Time : Compute(e, t)' = Compute(e, t)
  BY DEF Compute, Resolve, Assignments, IsLive, admin
<1> QED
  BY <1>1, <1>2, SameRow DEF cacheRow

\* A check-in either finds the row good and computed for the host it reports,
\* or computes it again.
LEMMA RecordCache ==
    ASSUME TypeOK, CacheHolds, NEW d \in Device, NEW m \in Request, Record(d, m)
    PROVE  CacheHolds'
<1> SUFFICES ASSUME NEW e \in Device, e \notin stale'
             PROVE  RowHolds(e)'
  BY DEF CacheHolds
<1>0. /\ Settle(d, m.host) /\ UNCHANGED <<admin, now>>
      /\ seenHost' = [seenHost EXCEPT ![d] = m.host]
      /\ m.host \in Host /\ reach[d] \in SUBSET Policy
  BY DEF Record, Confirm, Request, TypeOK
<1>1. CASE e # d
  <2>1. /\ payload'[e] = payload[e] /\ horizon'[e] = horizon[e]
        /\ e \notin stale /\ seenHost'[e] = seenHost[e]
    BY <1>0, <1>1 DEF Settle, Refresh, cacheRow, TypeOK
  <2>2. \A t \in Time : Compute(e, t)' = Compute(e, t)
    BY <1>0, <2>1 DEF Compute, Resolve, Assignments, IsLive, admin
  <2> QED
    BY <1>0, <2>1, <2>2, SameRow DEF CacheHolds
<1>2. CASE e = d /\ Cached(d) /\ payload[d].host = m.host
  <2>1. UNCHANGED cacheRow
    BY <1>0, <1>2 DEF Settle
  <2>2. RowHolds(d)
    BY <1>2 DEF CacheHolds, Cached
  <2> SUFFICES ASSUME NEW t \in Time, now <= t, t < horizon[d]
               PROVE  MissesOnlySections(payload[d], Compute(d, t)')
    BY <1>0, <1>2, <2>1 DEF RowHolds, cacheRow
  <2>3. MissesOnlySections(payload[d], Compute(d, t))
    BY <2>2 DEF RowHolds
  <2>4. /\ Compute(d, t)'.items = Compute(d, t).items
        /\ Compute(d, t)'.catalog = Compute(d, t).catalog
        /\ Compute(d, t)'.host = m.host
    BY <1>0 DEF Compute, Resolve, Assignments, IsLive, admin, TypeOK
  <2> QED
    BY <1>2, <2>3, <2>4 DEF MissesOnlySections
<1>3. CASE e = d /\ ~(Cached(d) /\ payload[d].host = m.host)
  <2>1. Refresh(d, reach[d], m.host)
    BY <1>0, <1>3 DEF Settle
  <2>2. reach'[d] = reach[d] /\ seenHost'[d] = m.host
    BY <1>0 DEF admin, TypeOK
  <2> QED
    BY <1>0, <1>3, <2>1, <2>2, FreshRow DEF admin
<1> QED
  BY <1>1, <1>2, <1>3

LEMMA DeviceCache ==
    ASSUME TypeOK, CacheHolds, NEW d \in Device, DeviceStep(d)
    PROVE  CacheHolds'
<1>1. ASSUME NEW T \in SUBSET Policy, Reenroll(d, T)
      PROVE  CacheHolds'
  <2> SUFFICES ASSUME NEW e \in Device, e \notin stale'
               PROVE  RowHolds(e)'
    BY DEF CacheHolds
  <2>1. /\ Refresh(d, reach[d] \cup T, seenHost[d])
        /\ UNCHANGED <<rev, archived, pending, at, catalog, breached, now, seenHost>>
        /\ reach' = [reach EXCEPT ![d] = reach[d] \cup T]
    BY <1>1 DEF Reenroll, Forget
  <2>2. reach'[d] = reach[d] \cup T /\ reach[d] \cup T \in SUBSET Policy
    BY <2>1 DEF TypeOK
  <2>3. CASE e = d
    BY <2>1, <2>2, <2>3, FreshRow DEF TypeOK
  <2>4. CASE e # d
    <3>1. /\ payload'[e] = payload[e] /\ horizon'[e] = horizon[e]
          /\ e \notin stale /\ reach'[e] = reach[e]
      BY <2>1, <2>4 DEF Refresh, TypeOK
    <3>2. \A t \in Time : Compute(e, t)' = Compute(e, t)
      BY <2>1, <3>1 DEF Compute, Resolve, Assignments, IsLive
    <3> QED
      BY <2>1, <3>1, <3>2, SameRow DEF CacheHolds
  <2> QED
    BY <2>3, <2>4
<1>2. CASE Checkin(d)
  <2>1. request[d] \in Request
    BY DEF TypeOK
  <2> QED
    BY <1>2, <2>1, RecordCache DEF Checkin
<1>3. ASSUME NEW m \in late[d], LateCheckin(d, m)
      PROVE  CacheHolds'
  <2>1. m \in Request
    BY DEF TypeOK
  <2> QED
    BY <1>3, <2>1, RecordCache DEF LateCheckin
<1>4. CASE UNCHANGED <<admin, cacheRow, seenHost, now>>
  BY <1>4, QuietCache
<1>5. \/ UNCHANGED <<admin, cacheRow, seenHost, now>>
      \/ \E T \in SUBSET Policy : Reenroll(d, T)
      \/ Checkin(d)
      \/ \E m \in late[d] : LateCheckin(d, m)
  BY DEF DeviceStep, HostChange, AgentUpgrade, Fact, Send, GiveUp, LoseReply,
         Deliver, Apply, row, cacheRow
<1> QED
  BY <1>1, <1>2, <1>3, <1>4, <1>5

LEMMA SweepCache ==
    ASSUME TypeOK, CacheHolds, Sweep
    PROVE  CacheHolds'
<1> SUFFICES ASSUME NEW e \in Device, e \notin stale'
             PROVE  RowHolds(e)'
  BY DEF CacheHolds
<1>1. /\ e \notin stale
      /\ \A p \in Due : p \notin reach[e]
      /\ pending' = pending \ Due
      /\ UNCHANGED <<rev, archived, at, reach, catalog, breached, seenHost,
                     payload, horizon, now>>
  BY ProfileAssumption
     DEF Sweep, Invalidate, Affected, NotTheDevice, Due, TypeOK
<1>2. \A p \in reach[e], t \in Time : IsLive(p, t)' <=> IsLive(p, t)
  BY <1>1 DEF IsLive
<1>3. \A t \in Time : Compute(e, t)' = Compute(e, t)
  BY <1>1, <1>2 DEF Compute, Resolve, Assignments
<1> QED
  BY <1>1, <1>3, SameRow DEF CacheHolds

LEMMA TickCache ==
    ASSUME TypeOK, CacheHolds, Tick
    PROVE  CacheHolds'
<1> SUFFICES ASSUME NEW e \in Device, e \notin stale
             PROVE  RowHolds(e)'
  BY DEF CacheHolds, Tick, row
<1>1. RowHolds(e)
  BY DEF CacheHolds
<1>2. \A t \in Time : Compute(e, t)' = Compute(e, t)
  BY DEF Tick, row, admin, Compute, Resolve, Assignments, IsLive
<1>3. /\ payload'[e] = payload[e] /\ horizon'[e] = horizon[e]
      /\ \A t \in Time : now' <= t => now <= t
  BY BoundAssumption DEF Tick, row, TypeOK, Time
<1> QED
  BY <1>1, <1>2, <1>3 DEF RowHolds

LEMMA InitCache == Init => CacheHolds
<1> SUFFICES ASSUME Init, NEW d \in Device, NEW t \in Time
             PROVE  payload[d] = Compute(d, t)
  BY DEF CacheHolds, RowHolds, MissesOnlySections
<1>1. Assignments(d, reach[d], t) = reach[d]
  BY DEF Init, Assignments, IsLive
<1>2. reach[d] \subseteq Unit
  BY DEF Init, Unit
<1>3. {<<u, rev[u]>> : u \in reach[d]} = {<<p, 1>> : p \in reach[d]}
  BY <1>2 DEF Init
<1> QED
  BY <1>1, <1>3 DEF Init, Compute, Resolve

LEMMA AlwaysCacheHolds == Spec => [](TypeOK /\ CacheHolds)
<1>1. Init => TypeOK /\ CacheHolds
  BY InitType, InitCache
<1>2. TypeOK /\ CacheHolds /\ [Next]_vars => (TypeOK /\ CacheHolds)'
  <2> SUFFICES ASSUME TypeOK, CacheHolds, [Next]_vars PROVE CacheHolds'
    BY StepType
  <2>1. CASE UNCHANGED vars
    BY <2>1, QuietCache DEF vars, row, cacheRow
  <2> QED
    BY <2>1, OperatorCache, DeviceCache, SweepCache, TickCache DEF Next
<1> QED
  BY <1>1, <1>2, PTL DEF Spec

LEMMA NowHolds ==
    ASSUME TypeOK, CacheHolds, NEW d \in Device, Cached(d)
    PROVE  MissesOnlySections(payload[d], Compute(d, now))
<1>1. now \in Time /\ now <= now /\ now < horizon[d]
  BY BoundAssumption DEF TypeOK, Cached, Expired, Time, Schedule, Never
<1> QED
  BY <1>1 DEF CacheHolds, RowHolds, Cached

\* However sections are added, a served row misses nothing but sections.
THEOREM CacheMissesOnlySections == Spec => []FreshButForSections
<1>1. TypeOK /\ CacheHolds => FreshButForSections
  BY NowHolds DEF FreshButForSections
<1> QED
  BY <1>1, AlwaysCacheHolds, PTL

\* With no section added by a one-section endpoint there is nothing to miss.
LEMMA NothingMissed ==
    ASSUME Growing = {}, NEW a \in Payload, NEW b \in Payload,
           MissesOnlySections(a, b)
    PROVE  a = b
<1>1. a.items = b.items /\ a.catalog = b.catalog /\ a.host = b.host
  BY DEF MissesOnlySections
<1> QED
  BY <1>1 DEF Payload

LEMMA NowCurrent ==
    ASSUME Growing = {}, TypeOK, CacheHolds, NEW d \in Device, Cached(d)
    PROVE  payload[d] = Compute(d, now)
<1>1. payload[d] \in Payload
  BY DEF TypeOK
<1>2. Compute(d, now) \in Payload
  BY ResolveType DEF TypeOK, Compute
<1> QED
  BY <1>1, <1>2, NowHolds, NothingMissed

\* If sections are only ever added through the composite editor, a served row
\* is what a recompute would give.
THEOREM CacheIsCurrent ==
    ASSUME Growing = {}
    PROVE  Spec => []FreshMeansCurrent
<1>1. TypeOK /\ CacheHolds => FreshMeansCurrent
  BY NowCurrent DEF FreshMeansCurrent
<1> QED
  BY <1>1, AlwaysCacheHolds, PTL

-----------------------------------------------------------------------------
(* Confirmation of a breach                                                *)

LEMMA RecordConfirms ==
    ASSUME Growing = {}, TypeOK, TypeOK', CacheHolds, AckedWasApplied',
           VersionBinding', NEW d \in Device, NEW m \in Request, Record(d, m),
           NEW e \in confirmed' \ confirmed
    PROVE  running[e].payload.items = {<<Reserved, rev[Reserved]>>}
<1>1. /\ e = d /\ d \in breached /\ acked'[d] = version'[d]
      /\ UNCHANGED <<admin, agent, now>>
      /\ Settle(d, m.host)
      /\ m.host \in Host
      /\ seenHost'[d] = m.host
  BY DEF Record, Confirm, Request, TypeOK
<1>2. acked'[d] <= applied'[d] /\ applied'[d] <= held'[d] /\ held'[d] <= version'[d]
  BY DEF AckedWasApplied
<1>3. acked'[d] \in Nat /\ applied'[d] \in Nat /\ held'[d] \in Nat /\ version'[d] \in Nat
  BY DEF TypeOK
<1>4. applied'[d] = version'[d]
  BY <1>1, <1>2, <1>3
<1>5. running[d].payload = payload'[d]
  BY <1>1, <1>4 DEF VersionBinding, agent
<1>6. payload'[d].items = Compute(d, now)'.items
  <2>1. CASE Cached(d) /\ payload[d].host = m.host
    <3>1. payload'[d] = payload[d]
      BY <1>1, <2>1 DEF Settle, cacheRow
    <3>2. payload[d] = Compute(d, now)
      BY <2>1, NowCurrent
    <3> QED
      BY <1>1, <3>1, <3>2 DEF Compute, Resolve, Assignments, IsLive, admin
  <2>2. CASE ~(Cached(d) /\ payload[d].host = m.host)
    <3>1. payload'[d] = Resolve(d, reach[d], now, m.host)
      BY <1>1, <2>2 DEF Settle, Refresh, TypeOK
    <3> QED
      BY <1>1, <3>1 DEF Compute, Resolve, Assignments, IsLive, admin
  <2> QED
    BY <2>1, <2>2
<1>7. Compute(d, now)'.items = {<<Reserved, rev[Reserved]>>}
  BY <1>1 DEF Compute, Resolve, Assignments, admin
<1> QED
  BY <1>1, <1>5, <1>6, <1>7

\* A breach is confirmed only by a device that runs exactly the breach profile.
THEOREM ConfirmationIsEarned ==
    ASSUME Growing = {}
    PROVE  Spec => ConfirmedIsEarned
<1>1. ASSUME Agreement, Agreement', CacheHolds, [Next]_vars,
             NEW e \in confirmed' \ confirmed
      PROVE  running[e].payload.items = {<<Reserved, rev[Reserved]>>}
  <2>1. TypeOK /\ TypeOK' /\ AckedWasApplied' /\ VersionBinding'
    BY <1>1 DEF Agreement
  <2>2. \E d \in Device : Checkin(d) \/ \E m \in late[d] : LateCheckin(d, m)
    BY <1>1 DEF Next, Operator, DeviceStep, Publish, AddSection, SetTargets,
       Archive, Restore, Hold, Activate, Sweep, Engage, Clear, EditCatalog,
       ReadEffective, Tick, HostChange, AgentUpgrade, Fact, Reenroll, Forget, Send,
       GiveUp, LoseReply, Deliver, Apply, vars
  <2>3. PICK d \in Device, m \in Request : Record(d, m)
    BY <2>1, <2>2 DEF Checkin, LateCheckin, TypeOK
  <2> QED
    BY <1>1, <2>1, <2>3, RecordConfirms
<1>2. Agreement /\ Agreement' /\ (TypeOK /\ CacheHolds) /\ [Next]_vars => EarnedStep
  BY <1>1 DEF EarnedStep
<1> QED
  BY <1>2, AlwaysAgreement, AlwaysCacheHolds, PTL DEF Spec, ConfirmedIsEarned

-----------------------------------------------------------------------------
(* Refinement of the server without a cache                                *)

\* What the abstract server's variables stand for.
Wanted == [d \in Device |-> Compute(d, now)]
Carried ==
    [d \in Device |->
        IF phase[d] = "replied"
            THEN [version |-> reply[d].version,
                  content |-> IF reply[d].bundle
                                  THEN reply[d].document.payload
                                  ELSE document[d].payload]
            ELSE [version |-> 0, content |-> Nothing]]
Has == [d \in Device |-> document[d].payload]

WantedIsPayload == Wanted \in [Device -> Payload]

LEMMA WantedType == TypeOK => WantedIsPayload
<1> SUFFICES ASSUME TypeOK, NEW d \in Device PROVE Compute(d, now) \in Payload
  BY DEF Wanted, WantedIsPayload
<1> QED
  BY ResolveType DEF TypeOK, Compute

LEMMA WantedTypeNext == TypeOK' => Wanted' \in [Device -> Payload]
<1>1. TypeOK' => WantedIsPayload'
  BY WantedType, PTL
<1> QED
  BY <1>1 DEF WantedIsPayload

\* A step that leaves what a device is given alone is a move of the inputs.
LEMMA QuietIsMove ==
    ASSUME TypeOK', UNCHANGED <<payload, version, held, document>>,
           Carried' = Carried
    PROVE  Desired!Next
<1>1. Wanted' \in [Device -> Payload]
  BY WantedTypeNext
<1>2. Has' = Has
  BY DEF Has
<1> QED
  BY <1>1, <1>2 DEF Desired!Next, Desired!Move, Wanted, Has, Carried

\* A recompute records what is wanted of the device.
LEMMA RefreshRecords ==
    ASSUME TypeOK, TypeOK', NEW d \in Device, NEW R \in SUBSET Policy,
           NEW h \in Host, Refresh(d, R, h),
           UNCHANGED <<rev, archived, pending, at, catalog, breached, now>>,
           reach' = [reach EXCEPT ![d] = R],
           seenHost' = [seenHost EXCEPT ![d] = h]
    PROVE  Desired!Record(d)
<1>1. Wanted' \in [Device -> Payload]
  BY WantedTypeNext
<1>2. Compute(d, now)' = Resolve(d, R, now, h)
  BY DEF Compute, Resolve, Assignments, IsLive, TypeOK
<1>3. \A e \in Device \ {d} : Compute(e, now)' = Compute(e, now)
  BY DEF Compute, Resolve, Assignments, IsLive, TypeOK
<1>4. Wanted'[d] = Resolve(d, R, now, h) /\ \A e \in Device \ {d} : Wanted'[e] = Wanted[e]
  BY <1>2, <1>3 DEF Wanted
<1>5. payload' = [payload EXCEPT ![d] = Wanted'[d]]
  BY <1>4 DEF Refresh
<1>6. version' = [version EXCEPT ![d] =
                     IF payload'[d] = payload[d] THEN version[d] ELSE version[d] + 1]
  BY DEF Refresh, TypeOK
<1> QED
  BY <1>1, <1>4, <1>5, <1>6 DEF Desired!Record, Wanted

\* Serving the row as it is records what is wanted too: that is the cache's
\* whole claim.
LEMMA SettleRecords ==
    ASSUME Growing = {}, TypeOK, TypeOK', CacheHolds, NEW d \in Device,
           NEW h \in Host, Settle(d, h), UNCHANGED <<admin, now>>,
           seenHost' = [seenHost EXCEPT ![d] = h]
    PROVE  Desired!Record(d)
<1>1. CASE Cached(d) /\ payload[d].host = h
  <2>1. payload' = payload /\ version' = version
    BY <1>1 DEF Settle, cacheRow
  <2>2. payload[d] = Compute(d, now)
    BY <1>1, NowCurrent
  <2>3. seenHost[d] = h
    BY <1>1, <2>2 DEF Compute, Resolve
  <2>4. \A e \in Device : Compute(e, now)' = Compute(e, now)
    <3>1. seenHost' = seenHost
      BY <2>3 DEF TypeOK
    <3> QED
      BY <3>1 DEF Compute, Resolve, Assignments, IsLive, admin
  <2>5. Wanted' = Wanted /\ payload[d] = Wanted[d]
    BY <2>2, <2>4 DEF Wanted
  <2>6. Wanted' \in [Device -> Payload]
    BY WantedTypeNext
  <2>7. payload' = [payload EXCEPT ![d] = Wanted'[d]]
    BY <2>1, <2>5 DEF TypeOK
  <2>8. version' = [version EXCEPT ![d] =
                       IF payload'[d] = payload[d] THEN version[d] ELSE version[d] + 1]
    BY <2>1 DEF TypeOK
  <2> QED
    BY <2>5, <2>6, <2>7, <2>8 DEF Desired!Record, Wanted
<1>2. CASE Refresh(d, reach[d], h)
  <2>1. reach[d] \in SUBSET Policy /\ reach' = [reach EXCEPT ![d] = reach[d]]
    BY DEF admin, TypeOK
  <2> QED
    BY <1>2, <2>1, RefreshRecords DEF admin
<1> QED
  BY <1>1, <1>2 DEF Settle

\* A check-in is answered with the state it has just recorded: by a document,
\* or by the one the device already holds under that version.
LEMMA CheckinAnswers ==
    ASSUME Growing = {}, Agreement, Agreement', CacheHolds, NEW d \in Device,
           Checkin(d)
    PROVE  Desired!Next
<1> TypeOK /\ TypeOK' /\ VersionBinding'
  BY DEF Agreement
<1>1. /\ request[d] \in Request /\ request[d].host \in Host
      /\ Settle(d, request[d].host) /\ UNCHANGED <<admin, agent, now>>
      /\ seenHost' = [seenHost EXCEPT ![d] = request[d].host]
  BY DEF Checkin, Record, Confirm, TypeOK, Request
<1>2. Desired!Record(d)
  BY <1>1, SettleRecords
<1>3. Has' = Has /\ held' = held
  BY <1>1 DEF Has, agent
<1>4. phase' = [phase EXCEPT ![d] = "replied"]
  BY DEF Checkin
<1>5. /\ phase'[d] = "replied" /\ reply'[d].version = version'[d]
      /\ \A e \in Device \ {d} : phase'[e] = phase[e] /\ reply'[e] = reply[e]
  BY DEF Checkin, TypeOK
<1>6. (IF reply'[d].bundle THEN reply'[d].document.payload
                           ELSE document'[d].payload) = payload'[d]
  BY <1>5 DEF VersionBinding
<1>7. Carried' = [Carried EXCEPT ![d] =
                     [version |-> version'[d], content |-> payload'[d]]]
  BY <1>1, <1>5, <1>6 DEF Carried, agent
<1> QED
  BY <1>2, <1>3, <1>7 DEF Desired!Next, Desired!Answer, Carried, Has

\* Any other settling of a device: a late request, a console page.
LEMMA LateCheckinSettles ==
    ASSUME Growing = {}, Agreement, Agreement', CacheHolds, NEW d \in Device,
           NEW m \in late[d], LateCheckin(d, m)
    PROVE  Desired!Next
<1> TypeOK /\ TypeOK'
  BY DEF Agreement
<1>1. /\ m \in Request /\ m.host \in Host
      /\ Settle(d, m.host) /\ UNCHANGED <<admin, agent, now, phase, reply>>
      /\ seenHost' = [seenHost EXCEPT ![d] = m.host]
  BY DEF LateCheckin, Record, Confirm, TypeOK, Request
<1>2. Desired!Record(d)
  BY <1>1, SettleRecords
<1>3. Has' = Has /\ held' = held /\ Carried' = Carried
  BY <1>1 DEF Has, Carried, agent
<1> QED
  BY <1>2, <1>3 DEF Desired!Next, Desired!Settle, Carried, Has

LEMMA ReadEffectiveSettles ==
    ASSUME TypeOK, TypeOK', NEW d \in Device, ReadEffective(d)
    PROVE  Desired!Next
<1>1. /\ reach[d] \in SUBSET Policy /\ seenHost[d] \in Host
      /\ reach' = [reach EXCEPT ![d] = reach[d]]
      /\ seenHost' = [seenHost EXCEPT ![d] = seenHost[d]]
  BY DEF ReadEffective, admin, TypeOK
<1>2. Desired!Record(d)
  BY <1>1, RefreshRecords DEF ReadEffective, admin
<1>3. Has' = Has /\ held' = held /\ Carried' = Carried
  BY DEF ReadEffective, Has, Carried, agent, wire
<1> QED
  BY <1>2, <1>3 DEF Desired!Next, Desired!Settle, Carried, Has

\* An answer on its way is one the abstract server gave.
LEMMA AnswerIsThere ==
    ASSUME Exchanges, NEW d \in Device, phase[d] = "replied"
    PROVE  Carried[d] # [version |-> 0, content |-> Nothing]
<1>1. 1 <= reply[d].version
  BY DEF Exchanges
<1>2. Carried[d].version = reply[d].version
  BY DEF Carried
<1> QED
  BY <1>1, <1>2

LEMMA DeliverTakes ==
    ASSUME Agreement, NEW d \in Device, Deliver(d)
    PROVE  Desired!Next
<1>1. Carried[d] # [version |-> 0, content |-> Nothing]
  BY AnswerIsThere DEF Agreement, Deliver
<1>2. TypeOK
  BY DEF Agreement
<1>3. phase[d] = "replied" /\ held' = [held EXCEPT ![d] = Carried[d].version]
  BY DEF Deliver, Carried
<1>4. Has' = [Has EXCEPT ![d] = Carried[d].content]
  BY <1>2, <1>3 DEF Deliver, Has, Carried, TypeOK
<1>5. Carried' = [Carried EXCEPT ![d] = [version |-> 0, content |-> Nothing]]
  <2>1. phase'[d] = "idle"
    BY <1>2 DEF Deliver, TypeOK
  <2>2. \A e \in Device \ {d} : /\ phase'[e] = phase[e] /\ reply'[e] = reply[e]
                                /\ document'[e] = document[e]
    BY <1>2 DEF Deliver, TypeOK
  <2> QED
    BY <2>1, <2>2 DEF Carried
<1>6. Wanted' = Wanted
  BY DEF Deliver, Wanted, Compute, Resolve, Assignments, IsLive, admin, row
<1>7. payload' = payload /\ version' = version
  BY DEF Deliver, row
<1> QED
  BY <1>1, <1>3, <1>4, <1>5, <1>6, <1>7
     DEF Desired!Next, Desired!Take, Desired!NoAnswer, Carried, Has, Wanted

LEMMA LoseReplyDrops ==
    ASSUME Agreement, NEW d \in Device, LoseReply(d)
    PROVE  Desired!Next
<1>1. Carried[d] # [version |-> 0, content |-> Nothing]
  BY AnswerIsThere DEF Agreement, LoseReply
<1>2. TypeOK
  BY DEF Agreement
<1>3. Has' = Has /\ held' = held /\ payload' = payload /\ version' = version
  BY DEF LoseReply, Has, agent, row
<1>4. Carried' = [Carried EXCEPT ![d] = [version |-> 0, content |-> Nothing]]
  <2>1. phase'[d] = "idle"
    BY <1>2 DEF LoseReply, TypeOK
  <2>2. \A e \in Device \ {d} : /\ phase'[e] = phase[e] /\ reply'[e] = reply[e]
                                /\ document'[e] = document[e]
    BY <1>2 DEF LoseReply, TypeOK, agent
  <2> QED
    BY <2>1, <2>2 DEF Carried
<1>5. Wanted' = Wanted
  BY DEF LoseReply, Wanted, Compute, Resolve, Assignments, IsLive, admin, row
<1> QED
  BY <1>1, <1>3, <1>4, <1>5
     DEF Desired!Next, Desired!Drop, Desired!NoAnswer, Carried, Has, Wanted

LEMMA ReenrollWipes ==
    ASSUME TypeOK, TypeOK', NEW d \in Device, NEW T \in SUBSET Policy,
           Reenroll(d, T)
    PROVE  Desired!Next
<1>1. /\ reach[d] \cup T \in SUBSET Policy /\ seenHost[d] \in Host
      /\ reach' = [reach EXCEPT ![d] = reach[d] \cup T]
      /\ seenHost' = [seenHost EXCEPT ![d] = seenHost[d]]
  BY DEF Reenroll, Forget, TypeOK
<1>2. Desired!Record(d)
  BY <1>1, RefreshRecords DEF Reenroll, Forget
<1>3. Has' = [Has EXCEPT ![d] = Nothing] /\ held' = [held EXCEPT ![d] = 0]
  BY DEF Reenroll, Forget, Has, NoDocument, TypeOK
<1>4. Carried' = [Carried EXCEPT ![d] = [version |-> 0, content |-> Nothing]]
  <2>1. phase'[d] = "idle"
    BY DEF Reenroll, Forget, TypeOK
  <2>2. \A e \in Device \ {d} : /\ phase'[e] = phase[e] /\ reply'[e] = reply[e]
                                /\ document'[e] = document[e]
    BY DEF Reenroll, Forget, TypeOK
  <2> QED
    BY <2>1, <2>2 DEF Carried
<1> QED
  BY <1>2, <1>3, <1>4
     DEF Desired!Next, Desired!Wipe, Desired!NoAnswer, Carried, Has

\* What operators do, ReadEffective apart, moves the inputs.
LEMMA OperatorMoves ==
    ASSUME TypeOK, TypeOK', Operator
    PROVE  Desired!Next
<1>1. CASE \E d \in Device : ReadEffective(d)
  BY <1>1, ReadEffectiveSettles
<1>2. CASE ~\E d \in Device : ReadEffective(d)
  <2>1. UNCHANGED <<payload, version, agent, wire>>
    BY <1>2 DEF Operator, Publish, AddSection, SetTargets, Archive, Restore,
       Hold, Activate, Engage, Clear, EditCatalog, Invalidate, NotTheDevice,
       cacheRow
  <2>2. Carried' = Carried
    BY <2>1 DEF Carried, agent, wire
  <2> QED
    BY <2>1, <2>2, QuietIsMove DEF agent
<1> QED
  BY <1>1, <1>2

LEMMA DeviceMoves ==
    ASSUME Growing = {}, Agreement, Agreement', CacheHolds, NEW d \in Device,
           DeviceStep(d)
    PROVE  Desired!Next
<1> TypeOK /\ TypeOK'
  BY DEF Agreement
<1>1. ASSUME NEW h \in Host, HostChange(d, h) PROVE Desired!Next
  <2>1. UNCHANGED <<row, agent, wire>>
    BY <1>1 DEF HostChange, Fact
  <2> QED
    BY <2>1, QuietIsMove DEF Carried, row, agent, wire
<1>2. ASSUME NEW b \in Build, AgentUpgrade(d, b) PROVE Desired!Next
  <2>1. UNCHANGED <<row, agent, wire>>
    BY <1>2 DEF AgentUpgrade, Fact
  <2> QED
    BY <2>1, QuietIsMove DEF Carried, row, agent, wire
<1>3. CASE Send(d)
  <2>1. UNCHANGED <<row, agent, reply>> /\ phase[d] = "idle"
        /\ phase' = [phase EXCEPT ![d] = "waiting"]
    BY <1>3 DEF Send
  <2>2. Carried' = Carried
    BY <2>1 DEF Carried, agent, TypeOK
  <2> QED
    BY <2>1, <2>2, QuietIsMove DEF row, agent
<1>4. CASE GiveUp(d)
  <2>1. UNCHANGED <<row, agent, reply>> /\ phase[d] = "waiting"
        /\ phase' = [phase EXCEPT ![d] = "idle"]
    BY <1>4 DEF GiveUp
  <2>2. Carried' = Carried
    BY <2>1 DEF Carried, agent, TypeOK
  <2> QED
    BY <2>1, <2>2, QuietIsMove DEF row, agent
<1>5. CASE Apply(d)
  <2>1. UNCHANGED <<row, held, document, wire>>
    BY <1>5 DEF Apply
  <2> QED
    BY <2>1, QuietIsMove DEF Carried, row, wire
<1>6. CASE Checkin(d)
  BY <1>6, CheckinAnswers
<1>7. CASE LoseReply(d)
  BY <1>7, LoseReplyDrops
<1>8. CASE Deliver(d)
  BY <1>8, DeliverTakes
<1>9. ASSUME NEW T \in SUBSET Policy, Reenroll(d, T) PROVE Desired!Next
  BY <1>9, ReenrollWipes
<1>10. ASSUME NEW m \in late[d], LateCheckin(d, m) PROVE Desired!Next
  BY <1>10, LateCheckinSettles
<1> QED
  BY <1>1, <1>2, <1>3, <1>4, <1>5, <1>6, <1>7, <1>8, <1>9, <1>10 DEF DeviceStep

LEMMA InitMoves == Init => Desired!Init
<1> SUFFICES ASSUME Init PROVE Desired!Init
  OBVIOUS
<1>1. TypeOK
  BY InitType
<1>2. Wanted \in [Device -> Payload]
  BY <1>1, WantedType DEF WantedIsPayload
<1>3. \A d \in Device : payload[d] = Compute(d, now)
  <2> SUFFICES ASSUME NEW d \in Device PROVE payload[d] = Compute(d, now)
    OBVIOUS
  <2>1. Assignments(d, reach[d], now) = reach[d] /\ reach[d] \subseteq Unit
    BY DEF Init, Assignments, IsLive, Unit
  <2>2. {<<u, rev[u]>> : u \in reach[d]} = {<<p, 1>> : p \in reach[d]}
    BY <2>1 DEF Init
  <2> QED
    BY <2>1, <2>2 DEF Init, Compute, Resolve
<1>4. payload = Wanted
  BY <1>1, <1>3 DEF Wanted, TypeOK
<1>5. /\ Has = [d \in Device |-> Nothing]
      /\ Carried = [d \in Device |-> [version |-> 0, content |-> Nothing]]
  BY DEF Init, Has, Carried, NoDocument
<1> QED
  BY <1>2, <1>4, <1>5 DEF Desired!Init, Desired!NoAnswer, Wanted, Has, Carried, Init

\* The cache, the staleness flags, the horizon and the answers without a
\* document are invisible: every behaviour is one of a server that recomputes
\* on every request and always answers with the state.
THEOREM CacheRefinesDesired ==
    ASSUME Growing = {}
    PROVE  Spec => CacheIsTransparent
<1>1. ASSUME Agreement, Agreement', CacheHolds, [Next]_vars
      PROVE  [Desired!Next]_(Desired!vars)
  <2>1. TypeOK /\ TypeOK'
    BY <1>1 DEF Agreement
  <2>2. CASE UNCHANGED vars
    <3>1. Wanted' = Wanted /\ Carried' = Carried /\ Has' = Has
      BY <2>2 DEF Wanted, Carried, Has, Compute, Resolve, Assignments, IsLive,
         vars, admin, row, agent, wire
    <3> QED
      BY <2>2, <3>1 DEF Desired!vars, Wanted, Carried, Has, vars, row, agent
  <2>3. CASE Operator
    BY <2>1, <2>3, OperatorMoves
  <2>4. CASE Sweep
    <3>1. UNCHANGED <<payload, version, agent, wire>>
      BY <2>4 DEF Sweep, Invalidate, NotTheDevice
    <3> QED
      BY <2>1, <3>1, QuietIsMove DEF Carried, agent, wire
  <2>5. CASE Tick
    <3>1. UNCHANGED <<row, agent, wire>>
      BY <2>5 DEF Tick
    <3> QED
      BY <2>1, <3>1, QuietIsMove DEF Carried, row, agent, wire
  <2> QED
    BY <1>1, <2>2, <2>3, <2>4, <2>5, DeviceMoves DEF Next
<1>2. Agreement /\ Agreement' /\ (TypeOK /\ CacheHolds) /\ [Next]_vars
        => [Desired!Next]_(Desired!vars)
  BY <1>1
<1> QED
  BY <1>2, InitMoves, AlwaysAgreement, AlwaysCacheHolds, PTL
     DEF Spec, CacheIsTransparent, Desired!Spec

-----------------------------------------------------------------------------
(* Overlapping sessions                                                    *)

\* A step of the two views is one of the sessions, or leaves them alone.
LEMMA SessionsMove == [BothNext]_<<focus, vars, oneVars>> => [One!Next]_(One!vars)
  BY DEF BothNext, FleetStep, SessionStep, oneVars, One!vars, One!rows, One!deviceRow,
     One!cacheRow, One!agent, One!history

LEMMA OverlapHolds == BothSpec => []One!Overlap
<1>1. BothInit => One!Overlap
  BY One!InitOverlap DEF BothInit
<1>2. One!Overlap /\ [BothNext]_<<focus, vars, oneVars>> => One!Overlap'
  BY SessionsMove, One!StepOverlap
<1> QED
  BY <1>1, <1>2, PTL DEF BothSpec

\* A fresh cache row is what a recompute gives, however many check-ins, console pages and
\* edits overlap, but for a row last written by a session that an edit crossed
\* (effective_policy.refresh, invalidate).
THEOREM FreshStaysCurrent == BothSpec => []RowIsCurrent
<1>1. One!Overlap => RowIsCurrent
  BY One!OverlapImplies DEF RowIsCurrent
<1> QED
  BY <1>1, OverlapHolds, PTL

\* A device that holds or runs the server's version has the server's payload, and none
\* holds a later one, however many sessions overlap: no version first used after the last
\* one that a session an edit crossed has written names two payloads, or is gone back on.
THEOREM VersionsNameOnePayload == BothSpec => []VersionsBind
<1>1. One!Overlap => VersionsBind
  BY One!OverlapImplies DEF VersionsBind
<1> QED
  BY <1>1, OverlapHolds, PTL

\* Whatever late and overlapping check-ins write, and edits beside them, the server
\* believes applied only what the device applied (_record_convergence).
THEOREM AcksAreTrue == BothSpec => []AcksWereApplied
<1>1. One!Overlap => AcksWereApplied
  BY One!OverlapImplies DEF AcksWereApplied
<1> QED
  BY <1>1, OverlapHolds, PTL

=============================================================================
