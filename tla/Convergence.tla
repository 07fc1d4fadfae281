----------------------------- MODULE Convergence -----------------------------
(***************************************************************************)
(* How a device comes to run the policy its server wants it to run.        *)
(*                                                                         *)
(* Policies reach devices; the resolver merges what reaches a device into  *)
(* a payload; the payload is cached and served until a write marks it      *)
(* stale or a scheduled deployment comes due; state_version moves when a   *)
(* recompute finds the payload changed; a check-in reports the version the *)
(* device holds and has applied, and is answered with a signed document    *)
(* only if the versions differ.                                            *)
(*                                                                         *)
(* Here every request and every console action is one atomic transaction.  *)
(* A unit of policy is a policy or a whole profile (its sections are one   *)
(* content); the resolver's merge is abstracted to the set of unit         *)
(* revisions it merges.  The agent and the network are external: a request *)
(* may be lost, answered after the device gave up, and answered late.      *)
(***************************************************************************)
EXTENDS Integers, FiniteSets

CONSTANTS
    Device,     \* the enrolled devices
    Policy,     \* policies and profiles an operator can assign
    Profile,    \* those of them that are profiles
    Growing,    \* those that may gain a section through a one-section
                \* endpoint while they reach a device
    Reserved,   \* the breach profile, which reaches devices only by breach mode
    Host,       \* what the TAK plugin may report of the app it runs in
    NoHost,     \* no plugin report
    Build,      \* agent builds
    FirstBuild, \* the build devices are enrolled with
    MaxClock,   \* bound: the last instant of the clock
    MaxEdits,   \* bound: operator, library and device-side changes
    MaxLate     \* bound: requests of one device in flight and given up

Unit == Policy \cup {Reserved}

ASSUME ProfileAssumption == Profile \subseteq Policy /\ Reserved \notin Policy
ASSUME GrowingAssumption == Growing \subseteq Profile \cup {Reserved}
ASSUME FactAssumption == NoHost \in Host /\ FirstBuild \in Build
ASSUME BoundAssumption ==
    MaxClock \in Nat /\ MaxEdits \in Nat /\ MaxLate \in Nat

VARIABLES
    \* what operators decide (tables policy, profile, assignment, app_setting)
    rev,        \* rev[u]: the latest published content of the unit
    archived,   \* the units archived
    pending,    \* the units with pending_deployment set
    at,         \* at[p]: effective_at, Never when unset
    reach,      \* reach[d]: the units assigned to d, directly or by a group
    catalog,    \* the app library's revision (EULA and licence edits take the same path)
    frozen,     \* the library the breach blocklist was last generated from
    breached,   \* the devices with breach_engaged_at set
    confirmed,  \* the devices with breach_confirmed_at set
    \* what the server keeps of each device (tables device, effective_policy_cache)
    version,    \* Device.state_version
    acked,      \* Device.acked_state_version
    payload,    \* EffectivePolicyCache.payload
    stale,      \* the devices whose cache row is stale
    horizon,    \* EffectivePolicyCache.next_transition_at
    seenHost,   \* the plugin host last reported
    seenBuild,  \* the agent version last reported
    \* the device: its facts, the document it holds, the one it has applied
    host, build, held, document, applied, running,
    \* one exchange per device, and requests the device no longer waits for
    phase, request, reply, late,
    now, edits

admin == <<rev, archived, pending, at, reach, catalog, frozen, breached>>
row == <<version, acked, payload, stale, horizon, seenHost, seenBuild>>
cacheRow == <<version, payload, stale, horizon>>
facts == <<host, build>>
agent == <<held, document, applied, running>>
wire == <<phase, request, reply, late>>
vars == <<admin, confirmed, row, facts, agent, wire, now, edits>>

Time == 0 .. MaxClock
Never == MaxClock + 1
Schedule == 0 .. Never

Payload == [items : SUBSET (Unit \X Nat), catalog : Nat, host : Host]
Document == [payload : Payload, build : Build]
Request == [held : Nat, applied : Nat, host : Host, build : Build]
Reply == [version : Nat, bundle : BOOLEAN, document : Document]

Nothing == [items |-> {}, catalog |-> 0, host |-> NoHost]
NoDocument == [payload |-> Nothing, build |-> FirstBuild]
NoRequest == [held |-> 0, applied |-> 0, host |-> NoHost, build |-> FirstBuild]
NoReply == [version |-> 0, bundle |-> FALSE, document |-> NoDocument]

-----------------------------------------------------------------------------
(* The resolver and its cache                                              *)

\* deployment.is_live: decided by the clock, never by whether a sweep has run.
IsLive(p, t) == p \notin pending \/ at[p] <= t

\* A device in breach has the breach profile and nothing else.
Assignments(d, R, t) ==
    IF d \in breached
        THEN {Reserved}
        ELSE {p \in R : p \notin archived /\ IsLive(p, t)}

\* The payload of d at instant t, when R reaches it and it reported host h.
Resolve(d, R, t, h) ==
    [items |-> {<<u, rev[u]>> : u \in Assignments(d, R, t)},
     catalog |-> catalog,
     host |-> h]

Compute(d, t) == Resolve(d, reach[d], t, seenHost[d])

\* deployment.next_transition: fleet-wide, strictly after t.
Transitions(t) == {at[p] : p \in {q \in pending \ archived : at[q] > t}}
NextTransitionLate(t) ==     \* mutant: a horizon one instant late
    1 + CHOOSE s \in Transitions(t) \cup {Never} :
            \A r \in Transitions(t) \cup {Never} : s <= r
NextTransition(t) ==
    CHOOSE s \in Transitions(t) \cup {Never} :
        \A r \in Transitions(t) \cup {Never} : s <= r

ExpiredAfter(d) == horizon[d] < now     \* mutant: the horizon itself still served
Expired(d) == horizon[d] <= now
Cached(d) == d \notin stale /\ ~Expired(d)

\* mutant: a version that moves only when the policy itself changed
RefreshItems(d, R, h) ==
    LET new == Resolve(d, R, now, h)
    IN  /\ version' = [version EXCEPT ![d] =
                          IF new.items = payload[d].items THEN @ ELSE @ + 1]
        /\ payload' = [payload EXCEPT ![d] = new]
        /\ stale' = stale \ {d}
        /\ horizon' = [horizon EXCEPT ![d] = NextTransition(now)]

\* refresh, with the assignments and the host known at the end of the
\* transaction: the version moves exactly when the recomputed payload is not
\* the retained one.
Refresh(d, R, h) ==
    LET new == Resolve(d, R, now, h)
    IN  /\ version' = [version EXCEPT ![d] =
                          IF new = payload[d] THEN @ ELSE @ + 1]
        /\ payload' = [payload EXCEPT ![d] = new]
        /\ stale' = stale \ {d}
        /\ horizon' = [horizon EXCEPT ![d] = NextTransition(now)]

\* mutant: no second refresh when the device reports another host
SettleBlind(d, h) ==
    IF Cached(d) THEN UNCHANGED cacheRow ELSE Refresh(d, reach[d], h)

\* get_effective, then the second refresh a check-in makes when the host it
\* has just been told is not the one the payload was computed for.
Settle(d, h) ==
    IF Cached(d) /\ payload[d].host = h
        THEN UNCHANGED cacheRow
        ELSE Refresh(d, reach[d], h)

\* mutant: the breach profile has no assignment rows, so nobody is told
AffectedByRows(u) == {d \in Device : u \in reach[d]}

\* devices_affected_by_policy and devices_affected_by_profile.
Affected(u) ==
    IF u = Reserved THEN breached ELSE {d \in Device : u \in reach[d]}

Invalidate(D) ==
    /\ stale' = stale \cup D
    /\ UNCHANGED <<version, payload, horizon>>

-----------------------------------------------------------------------------
(* Operators                                                               *)

Edit == edits < MaxEdits /\ edits' = edits + 1
NotTheDevice == UNCHANGED <<acked, seenHost, seenBuild, facts, agent, wire, now>>

\* publish_version, the composite editor, an edited or archived section: the
\* unit has new content, and every device it reaches is told.
Publish(u) ==
    /\ Edit
    /\ rev' = [rev EXCEPT ![u] = @ + 1]
    /\ Invalidate(Affected(u))
    /\ UNCHANGED <<archived, pending, at, reach, catalog, frozen, breached,
                   confirmed>>
    /\ NotTheDevice

\* upsert_section creating a section the profile did not have returns before
\* the invalidation; the endpoints that save one section add none.  A profile
\* not in use can always gain one.
AddSection(u) ==
    /\ u \in Profile \cup {Reserved}
    /\ Affected(u) # {} => u \in Growing
    /\ Edit
    /\ rev' = [rev EXCEPT ![u] = @ + 1]
    /\ UNCHANGED <<archived, pending, at, reach, catalog, frozen, breached,
                   confirmed, cacheRow>>
    /\ NotTheDevice

\* mutant: only the devices that gain p are told
SetTargetsGain(p, D) ==
    /\ Edit
    /\ reach' = [d \in Device |->
                    IF d \in D THEN reach[d] \cup {p} ELSE reach[d] \ {p}]
    /\ Invalidate(D)
    /\ UNCHANGED <<rev, archived, pending, at, catalog, frozen, breached,
                   confirmed>>
    /\ NotTheDevice

\* Assigning and unassigning, one device or many, directly or by a group: p
\* comes to reach exactly D, and whoever gained or lost it is told.
SetTargets(p, D) ==
    /\ Edit
    /\ reach' = [d \in Device |->
                    IF d \in D THEN reach[d] \cup {p} ELSE reach[d] \ {p}]
    /\ Invalidate(D \cup Affected(p))
    /\ UNCHANGED <<rev, archived, pending, at, catalog, frozen, breached,
                   confirmed>>
    /\ NotTheDevice

\* A profile that is archived loses its assignments; a policy keeps them.
Archive(p) ==
    /\ p \notin archived
    /\ Edit
    /\ archived' = archived \cup {p}
    /\ reach' = IF p \in Profile
                    THEN [d \in Device |-> reach[d] \ {p}]
                    ELSE reach
    /\ Invalidate(Affected(p))
    /\ UNCHANGED <<rev, pending, at, catalog, frozen, breached, confirmed>>
    /\ NotTheDevice

Restore(p) ==
    /\ p \in archived
    /\ Edit
    /\ archived' = archived \ {p}
    /\ Invalidate(Affected(p))
    /\ UNCHANGED <<rev, pending, at, reach, catalog, frozen, breached, confirmed>>
    /\ NotTheDevice

\* deployment.hold: out of force until `when`, or until deployed by hand.
Hold(p, when) ==
    /\ Edit
    /\ pending' = pending \cup {p}
    /\ at' = [at EXCEPT ![p] = when]
    /\ Invalidate(Affected(p))
    /\ UNCHANGED <<rev, archived, reach, catalog, frozen, breached, confirmed>>
    /\ NotTheDevice

\* deployment.activate, from the console.
Activate(p) ==
    /\ p \in pending
    /\ Edit
    /\ pending' = pending \ {p}
    /\ Invalidate(Affected(p))
    /\ UNCHANGED <<rev, archived, at, reach, catalog, frozen, breached, confirmed>>
    /\ NotTheDevice

\* deployment.sweep: the background pass activates everything that is due.
Due == {p \in pending : at[p] <= now}
Sweep ==
    /\ Due # {}
    /\ pending' = pending \ Due
    /\ Invalidate(UNION {Affected(p) : p \in Due})
    /\ UNCHANGED <<rev, archived, at, reach, catalog, frozen, breached,
                   confirmed, edits>>
    /\ NotTheDevice

\* breach.engage: freeze the library into the breach blocklist, publishing a
\* new revision only if it moved, then mark the device and forget any earlier
\* confirmation.
Engage(d) ==
    /\ Edit
    /\ frozen' = catalog
    /\ rev' = IF frozen = catalog THEN rev ELSE [rev EXCEPT ![Reserved] = @ + 1]
    /\ breached' = breached \cup {d}
    /\ confirmed' = confirmed \ {d}
    /\ Invalidate({d} \cup IF frozen = catalog THEN {} ELSE breached)
    /\ UNCHANGED <<archived, pending, at, reach, catalog>>
    /\ NotTheDevice

Clear(d) ==
    /\ Edit
    /\ breached' = breached \ {d}
    /\ confirmed' = confirmed \ {d}
    /\ Invalidate({d})
    /\ UNCHANGED <<rev, archived, pending, at, reach, catalog, frozen>>
    /\ NotTheDevice

\* Anything that calls invalidate_all: an upload, the EULA, a licence key, the
\* distrusted CAs.
EditCatalog ==
    /\ Edit
    /\ catalog' = catalog + 1
    /\ Invalidate(Device)
    /\ UNCHANGED <<rev, archived, pending, at, reach, frozen, breached, confirmed>>
    /\ NotTheDevice

\* A console page that shows the effective policy recomputes and commits it.
ReadEffective(d) ==
    /\ ~Cached(d)
    /\ Refresh(d, reach[d], seenHost[d])
    /\ UNCHANGED <<admin, confirmed, acked, seenHost, seenBuild, facts, agent,
                   wire, now, edits>>

Tick ==
    /\ now < MaxClock
    /\ now' = now + 1
    /\ UNCHANGED <<admin, confirmed, row, facts, agent, wire, edits>>

-----------------------------------------------------------------------------
(* The device and the check-in                                             *)

Fact == Edit /\ UNCHANGED <<admin, confirmed, row, agent, wire, now>>

\* The plugin starts, stops, or moves to another app (external).
HostChange(d, h) ==
    /\ h # host[d]
    /\ Fact
    /\ host' = [host EXCEPT ![d] = h]
    /\ UNCHANGED build

\* The agent updates itself (external).
AgentUpgrade(d, b) ==
    /\ b # build[d]
    /\ Fact
    /\ build' = [build EXCEPT ![d] = b]
    /\ UNCHANGED host

\* The device polls: what it holds, what it has applied, what it is.
Send(d) ==
    /\ phase[d] = "idle"
    /\ phase' = [phase EXCEPT ![d] = "waiting"]
    /\ request' = [request EXCEPT ![d] =
                      [held |-> held[d], applied |-> applied[d],
                       host |-> host[d], build |-> build[d]]]
    /\ UNCHANGED <<admin, confirmed, row, facts, agent, reply, late, now, edits>>

Larger(a, b) == IF a < b THEN b ELSE a

\* mutants: compared before the recompute; looked at only when an ack arrives
ConfirmEarly(d) ==
    confirmed' = IF d \in breached /\ acked'[d] = version[d]
                     THEN confirmed \cup {d}
                     ELSE confirmed
ConfirmOnAck(d) ==
    confirmed' = IF d \in breached /\ acked'[d] = version'[d] /\ acked'[d] # acked[d]
                     THEN confirmed \cup {d}
                     ELSE confirmed

\* A device in breach that has applied the settled version is confirmed.
Confirm(d) ==
    confirmed' = IF d \in breached /\ acked'[d] = version'[d]
                     THEN confirmed \cup {d}
                     ELSE confirmed

\* POST /checkin from d carrying m, up to its commit: record what the device
\* says, settle the pending recompute, and confirm a breach the device has
\* converged on.
Record(d, m) ==
    /\ acked' = [acked EXCEPT ![d] = Larger(@, m.applied)]
    /\ seenHost' = [seenHost EXCEPT ![d] = m.host]
    /\ seenBuild' = [seenBuild EXCEPT ![d] = m.build]
    /\ Settle(d, m.host)
    /\ Confirm(d)
    /\ UNCHANGED <<admin, facts, agent, now, edits>>

\* desired_state.build: the payload, in the form the reported agent takes.
Built(d) == [payload |-> payload'[d], build |-> seenBuild'[d]]

\* The check-in of a device that is still waiting: the document is sent only
\* when the device does not hold the current version.
Checkin(d) ==
    /\ phase[d] = "waiting"
    /\ Record(d, request[d])
    /\ phase' = [phase EXCEPT ![d] = "replied"]
    /\ reply' = [reply EXCEPT ![d] =
                    IF request[d].held # version'[d]
                        THEN [version |-> version'[d], bundle |-> TRUE,
                              document |-> Built(d)]
                        ELSE [version |-> version'[d], bundle |-> FALSE,
                              document |-> NoDocument]]
    /\ request' = [request EXCEPT ![d] = NoRequest]
    /\ UNCHANGED late

\* The same handler for a request whose device has stopped waiting.
LateCheckin(d, m) ==
    /\ m \in late[d]
    /\ Record(d, m)
    /\ late' = [late EXCEPT ![d] = @ \ {m}]
    /\ UNCHANGED <<phase, request, reply>>

\* The device gives up; its request may still arrive.
GiveUp(d) ==
    /\ phase[d] = "waiting"
    /\ Cardinality(late[d]) < MaxLate
    /\ phase' = [phase EXCEPT ![d] = "idle"]
    /\ late' = [late EXCEPT ![d] = @ \cup {request[d]}]
    /\ request' = [request EXCEPT ![d] = NoRequest]
    /\ UNCHANGED <<admin, confirmed, row, facts, agent, reply, now, edits>>

\* The answer is lost after the server has committed.
LoseReply(d) ==
    /\ phase[d] = "replied"
    /\ phase' = [phase EXCEPT ![d] = "idle"]
    /\ reply' = [reply EXCEPT ![d] = NoReply]
    /\ UNCHANGED <<admin, confirmed, row, facts, agent, request, late, now, edits>>

\* The device takes its answer: a document replaces the one it holds.
Deliver(d) ==
    /\ phase[d] = "replied"
    /\ held' = [held EXCEPT ![d] = reply[d].version]
    /\ document' = [document EXCEPT ![d] =
                       IF reply[d].bundle THEN reply[d].document ELSE @]
    /\ phase' = [phase EXCEPT ![d] = "idle"]
    /\ reply' = [reply EXCEPT ![d] = NoReply]
    /\ UNCHANGED <<admin, confirmed, row, facts, applied, running, request, late,
                   now, edits>>

\* The device applies the document it holds (external).
Apply(d) ==
    /\ applied[d] # held[d]
    /\ applied' = [applied EXCEPT ![d] = held[d]]
    /\ running' = [running EXCEPT ![d] = document[d]]
    /\ UNCHANGED <<admin, confirmed, row, facts, held, document, wire, now, edits>>

ForgetNothing(d) == UNCHANGED acked     \* mutant: the old device's ack is kept
Forget(d) == acked' = [acked EXCEPT ![d] = 0]

\* enroll_device for a device that was wiped: its certificates are revoked, so
\* nothing it sent before is accepted; it has applied nothing; it reports its
\* build; the token may bring group memberships; and its payload is recomputed
\* at once.  A breach, and its confirmation, are left as they are.
Reenroll(d, T) ==
    /\ Edit
    /\ reach' = [reach EXCEPT ![d] = @ \cup T]
    /\ Forget(d)
    /\ Refresh(d, reach[d] \cup T, seenHost[d])
    /\ seenBuild' = [seenBuild EXCEPT ![d] = FirstBuild]
    /\ host' = [host EXCEPT ![d] = NoHost]
    /\ build' = [build EXCEPT ![d] = FirstBuild]
    /\ held' = [held EXCEPT ![d] = 0]
    /\ document' = [document EXCEPT ![d] = NoDocument]
    /\ applied' = [applied EXCEPT ![d] = 0]
    /\ running' = [running EXCEPT ![d] = NoDocument]
    /\ phase' = [phase EXCEPT ![d] = "idle"]
    /\ request' = [request EXCEPT ![d] = NoRequest]
    /\ reply' = [reply EXCEPT ![d] = NoReply]
    /\ late' = [late EXCEPT ![d] = {}]
    /\ UNCHANGED <<rev, archived, pending, at, catalog, frozen, breached,
                   confirmed, seenHost, now>>

-----------------------------------------------------------------------------

\* A fleet of freshly enrolled devices: enrolment computed each one's payload,
\* which is version 1, and none has checked in yet.
Init ==
    /\ rev = [u \in Unit |-> 1]
    /\ archived = {}
    /\ pending = {}
    /\ at = [p \in Policy |-> Never]
    /\ reach \in [Device -> SUBSET Policy]
    /\ catalog = 0 /\ frozen = 0
    /\ breached = {} /\ confirmed = {}
    /\ version = [d \in Device |-> 1]
    /\ acked = [d \in Device |-> 0]
    /\ payload = [d \in Device |->
                     [items |-> {<<p, 1>> : p \in reach[d]},
                      catalog |-> 0, host |-> NoHost]]
    /\ stale = {}
    /\ horizon = [d \in Device |-> Never]
    /\ seenHost = [d \in Device |-> NoHost]
    /\ seenBuild = [d \in Device |-> FirstBuild]
    /\ host = [d \in Device |-> NoHost]
    /\ build = [d \in Device |-> FirstBuild]
    /\ held = [d \in Device |-> 0]
    /\ document = [d \in Device |-> NoDocument]
    /\ applied = [d \in Device |-> 0]
    /\ running = [d \in Device |-> NoDocument]
    /\ phase = [d \in Device |-> "idle"]
    /\ request = [d \in Device |-> NoRequest]
    /\ reply = [d \in Device |-> NoReply]
    /\ late = [d \in Device |-> {}]
    /\ now = 0
    /\ edits = 0

Operator ==
    \/ \E u \in Unit : Publish(u) \/ AddSection(u)
    \/ \E p \in Policy :
          \/ \E D \in SUBSET Device : SetTargets(p, D)
          \/ \E when \in Schedule : Hold(p, when)
          \/ Archive(p) \/ Restore(p) \/ Activate(p)
    \/ \E d \in Device : Engage(d) \/ Clear(d) \/ ReadEffective(d)
    \/ EditCatalog

DeviceStep(d) ==
    \/ \E h \in Host : HostChange(d, h)
    \/ \E b \in Build : AgentUpgrade(d, b)
    \/ \E T \in SUBSET Policy : Reenroll(d, T)
    \/ Send(d) \/ Checkin(d) \/ GiveUp(d) \/ LoseReply(d) \/ Deliver(d) \/ Apply(d)
    \/ \E m \in late[d] : LateCheckin(d, m)

Next == Operator \/ Sweep \/ Tick \/ \E d \in Device : DeviceStep(d)

Spec == Init /\ [][Next]_vars

\* A device keeps polling and applies what it takes; its exchanges do not fail
\* for ever.  Nothing is assumed of operators, the sweeper or late requests.
Fairness ==
    \A d \in Device :
        WF_vars(Send(d)) /\ SF_vars(Checkin(d)) /\ SF_vars(Deliver(d))
                         /\ WF_vars(Apply(d))

FairSpec == Spec /\ Fairness

-----------------------------------------------------------------------------
(* Properties                                                              *)

TypeOK ==
    /\ rev \in [Unit -> Nat]
    /\ archived \subseteq Policy
    /\ pending \subseteq Policy
    /\ at \in [Policy -> Schedule]
    /\ reach \in [Device -> SUBSET Policy]
    /\ catalog \in Nat /\ frozen \in Nat
    /\ breached \subseteq Device /\ confirmed \subseteq Device
    /\ version \in [Device -> Nat] /\ acked \in [Device -> Nat]
    /\ payload \in [Device -> Payload]
    /\ stale \subseteq Device
    /\ horizon \in [Device -> Schedule]
    /\ seenHost \in [Device -> Host] /\ seenBuild \in [Device -> Build]
    /\ host \in [Device -> Host] /\ build \in [Device -> Build]
    /\ held \in [Device -> Nat] /\ applied \in [Device -> Nat]
    /\ document \in [Device -> Document] /\ running \in [Device -> Document]
    /\ phase \in [Device -> {"idle", "waiting", "replied"}]
    /\ request \in [Device -> Request]
    /\ reply \in [Device -> Reply]
    /\ late \in [Device -> SUBSET Request]
    /\ now \in Time
    /\ edits \in Nat

\* A cache row that would be served as it is, says what a recompute would say:
\* no write and no scheduled deployment can leave it behind
\* (effective_policy.get_effective, EffectivePolicyCache).
FreshMeansCurrent ==
    \A d \in Device : Cached(d) => payload[d] = Compute(d, now)

\* Whatever sections are added one at a time, a cache row that would be served
\* is behind in nothing else: not in what reaches the device, not in the
\* revisions of other units, not in the library, not in what it reported.
MissesOnlySections(served, current) ==
    /\ served.catalog = current.catalog
    /\ served.host = current.host
    /\ {i[1] : i \in served.items} = {i[1] : i \in current.items}
    /\ {i \in served.items : i[1] \notin Growing} =
          {i \in current.items : i[1] \notin Growing}

FreshButForSections ==
    \A d \in Device :
        Cached(d) => MissesOnlySections(payload[d], Compute(d, now))

\* Two documents a device is given under one version carry one payload: when
\* the version it holds, or has applied, or is being answered with, is the
\* server's version, its content is the server's payload (checkin,
\* desired_state.build).  It is why a check-in may answer without a document.
VersionBinding ==
    \A d \in Device :
        /\ held[d] = version[d] => document[d].payload = payload[d]
        /\ applied[d] = version[d] => running[d].payload = payload[d]
        /\ (phase[d] = "replied" /\ reply[d].version = version[d]) =>
              IF reply[d].bundle
                  THEN reply[d].document.payload = payload[d]
                  ELSE document[d].payload = payload[d]

\* A device told that nothing changed holds the very document the server would
\* build for it: "the same version always yields byte-identical JSON"
\* (desired_state).
UnchangedMeansIdentical ==
    \A d \in Device :
        (phase[d] = "replied" /\ ~reply[d].bundle) =>
            document[d] = [payload |-> payload[d], build |-> seenBuild[d]]

\* What the server believes applied was applied, and nothing is ahead of the
\* server: late duplicates, lost answers and a wipe included
\* (_record_convergence, enroll_device).
AckedWasApplied ==
    \A d \in Device :
        acked[d] <= applied[d] /\ applied[d] <= held[d] /\ held[d] <= version[d]

EarnedStep ==
    \A d \in confirmed' \ confirmed :
        running[d].payload.items = {<<Reserved, rev[Reserved]>>}

\* A breach is confirmed only while the device runs exactly the breach profile
\* (checkin, breach.confirm): operators decide a lost tablet is safe on it.
ConfirmedIsEarned == [][EarnedStep]_vars

\* A breach shown as confirmed was applied by the device as it was last enrolled:
\* "a wiped device has definitively applied nothing, whatever it reported before"
\* (enrollment.enroll_device).
ConfirmedStands == \A d \in confirmed : 0 < acked[d]

\* Once operators and devices leave things alone, every device comes to run
\* what its server wants it to run and stays so, with no sweeper alive
\* (deployment.is_live, next_transition, get_effective).
Converges ==
    <>[](\A d \in Device : running[d].payload = Resolve(d, reach[d], now, host[d]))

\* A breach that is not cleared is in the end confirmed (checkin, breach).
BreachIsConfirmed ==
    \A d \in Device : <>[](d \in breached => d \in confirmed)

-----------------------------------------------------------------------------
(* Refinement: the cache and the short answers cannot be told from a server *)
(* that recomputes everything on every request and always sends the state.  *)

Desired == INSTANCE DesiredState WITH
    Content <- Payload,
    NoContent <- Nothing,
    wanted <- [d \in Device |-> Compute(d, now)],
    recorded <- payload,
    has <- [d \in Device |-> document[d].payload],
    answer <- [d \in Device |->
                 IF phase[d] = "replied"
                     THEN [version |-> reply[d].version,
                           content |-> IF reply[d].bundle
                                           THEN reply[d].document.payload
                                           ELSE document[d].payload]
                     ELSE [version |-> 0, content |-> Nothing]]

\* Every behaviour of the cached server is one of the server without a cache.
CacheIsTransparent == Desired!Spec

=============================================================================
