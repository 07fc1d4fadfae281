------------------------- MODULE CheckinSessionsProofs -------------------------
(***************************************************************************)
(* The types and the inductive invariant of CheckinSessions, for any       *)
(* number of overlapping sessions, edits among them, and any bound on      *)
(* edits.  ConvergenceProofs concludes from it.                            *)
(***************************************************************************)
EXTENDS CheckinSessions, TLAPS

-----------------------------------------------------------------------------
(* Types                                                                   *)

LEMMA ConstantsType ==
    /\ NoDocument \in Payload /\ BreachPayload \in Payload /\ NoLocal \in Local
    /\ Edits \subseteq Kinds /\ "checkin" \in Kinds /\ "page" \in Kinds
    /\ "checkin" \notin Edits /\ "page" \notin Edits
  BY DEF NoDocument, BreachPayload, Payload, NoLocal, Local, Kinds, Edits

LEMMA ResolveType ==
    ASSUME TypeOK, NEW b \in BOOLEAN
    PROVE  Resolve(b) \in Payload
  BY DEF TypeOK, Resolve, Payload, BreachPayload

LEMMA SettledType ==
    ASSUME NEW r \in Local
    PROVE  /\ VersionOf(r) \in Nat /\ VersionOf(r) >= r.version
           /\ AckedOf(r) \in Nat
  BY DEF Local, VersionOf, AckedOf

LEMMA OpensType ==
    ASSUME TypeOK, NEW s \in Session, NEW kind \in Kinds \ {"checkin"},
           Send(s) \/ BeginCheckin(s) \/ BeginConsole(s, kind) \/ LoadCache(s) \/ Compute(s)
    PROVE  TypeOK'
<1>1. local[s] \in Local
  BY DEF TypeOK
<1>2. local' \in [Session -> Local] /\ at' \in [Session -> Stages]
  <2>1. CASE Send(s)
    <3>1. [NoLocal EXCEPT !.kind = "checkin", !.held = held, !.applied = applied] \in Local
      BY ConstantsType DEF TypeOK, Local
    <3> QED
      BY <2>1, <3>1 DEF Send, TypeOK, Stages
  <2>2. CASE BeginCheckin(s)
    <3>1. LoadDevice(local[s]) \in Local
      BY <1>1 DEF TypeOK, Local, LoadDevice
    <3> QED
      BY <2>2, <3>1 DEF BeginCheckin, TypeOK, Stages
  <2>3. CASE BeginConsole(s, kind)
    <3>1. LoadDevice([NoLocal EXCEPT !.kind = kind]) \in Local
      BY ConstantsType DEF TypeOK, Local, LoadDevice
    <3> QED
      BY <2>3, <3>1 DEF BeginConsole, TypeOK, Stages
  <2>4. CASE LoadCache(s)
    <3>1. [local[s] EXCEPT !.stale = stale, !.payload = payload, !.new = payload] \in Local
      BY <1>1 DEF TypeOK, Local
    <3>2. local' = [local EXCEPT ![s] = [local[s] EXCEPT !.stale = stale, !.payload = payload,
                                                         !.new = payload]]
      BY <2>4 DEF LoadCache, TypeOK
    <3> QED
      BY <2>4, <3>1, <3>2 DEF LoadCache, TypeOK, Stages
  <2>5. CASE Compute(s)
    <3>1. Resolve(local[s].breached) \in Payload
      BY <1>1, ResolveType DEF Local
    <3>2. [local[s] EXCEPT !.new = Resolve(local[s].breached)] \in Local
      BY <1>1, <3>1 DEF Local
    <3> QED
      BY <2>5, <3>2 DEF Compute, TypeOK, Stages
  <2> QED
    BY <2>1, <2>2, <2>3, <2>4, <2>5
<1>3. waiting' \in SUBSET Session /\ edits' \in Nat
  BY DEF TypeOK, Send, BeginCheckin, BeginConsole, LoadCache, Compute
<1>4. UNCHANGED <<rows, agent, history>>
  BY DEF Send, BeginCheckin, BeginConsole, LoadCache, Compute
<1>5. crossed' \in SUBSET {t \in Session : Open(t)'}
  <2>1. \A t \in Session : Open(t) => Open(t)'
    BY DEF TypeOK, Open, Send, BeginCheckin, BeginConsole, LoadCache, Compute
  <2> QED
    BY <1>4, <2>1 DEF TypeOK, history
<1> QED
  BY <1>2, <1>3, <1>4, <1>5 DEF TypeOK, rows, deviceRow, cacheRow, agent, history

LEMMA CommitType ==
    ASSUME TypeOK, NEW s \in Session,
           \/ CommitCheckin(s) \/ CommitPage(s) \/ CommitPublish(s)
           \/ CommitEngage(s) \/ CommitClear(s)
    PROVE  TypeOK'
<1>1. local[s] \in Local /\ local[s].new \in Payload /\ local[s].confirmed \in BOOLEAN
      /\ local[s].breached \in BOOLEAN
  BY DEF TypeOK, Local
<1>2. local' \in [Session -> Local] /\ at' \in [Session -> Stages]
  BY ConstantsType DEF TypeOK, Stages, Finish, CommitCheckin, CommitPage, CommitPublish,
     CommitEngage, CommitClear
<1>3. version' \in Nat /\ payload' \in Payload /\ stale' \in BOOLEAN
  BY <1>1, SettledType DEF TypeOK, WriteSettled, Invalidate, deviceRow, cacheRow,
     CommitCheckin, CommitPage, CommitPublish, CommitEngage, CommitClear
<1>4. acked' \in Nat
  BY <1>1, SettledType DEF TypeOK, deviceRow, CommitCheckin, CommitPage, CommitPublish,
     CommitEngage, CommitClear
<1>5. confirmed' \in BOOLEAN /\ breached' \in BOOLEAN
  BY <1>1 DEF TypeOK, deviceRow, CommitCheckin, CommitPage, CommitPublish,
     CommitEngage, CommitClear
<1>6. rev' \in Nat /\ edits' \in Nat
  <2>1. edits' = edits /\ (rev' = rev \/ rev' = rev + 1)
    BY DEF CommitCheckin, CommitPage, CommitPublish, CommitEngage, CommitClear
  <2> QED
    BY <2>1 DEF TypeOK
<1>7. /\ held' \in Nat /\ applied' \in Nat /\ document' \in Payload /\ running' \in Payload
      /\ waiting' \in SUBSET Session
  BY <1>1, SettledType DEF TypeOK, TakeAnswer, agent, CommitCheckin, CommitPage,
     CommitPublish, CommitEngage, CommitClear
<1>8. Finish(s)
  BY DEF CommitCheckin, CommitPage, CommitPublish, CommitEngage, CommitClear
<1>9. crossed' \in SUBSET {t \in Session : Open(t)'}
  <2>1. \A t \in Session \ {s} : Open(t)' <=> Open(t)
    BY <1>8 DEF TypeOK, Open, Finish
  <2> QED
    BY <1>8, <2>1 DEF TypeOK, Finish, Overtaken
<1>10. clouded' \in BOOLEAN /\ disputed' \in Nat /\ ever' \in SUBSET Nat
  <2>1. clouded' \in BOOLEAN
    BY <1>8 DEF TypeOK, Finish
  <2>2. disputed' \in Nat /\ ever' = ever
    BY <1>3, <1>8 DEF TypeOK, Finish, Highest
  <2> QED
    BY <2>1, <2>2 DEF TypeOK
<1> QED
  BY <1>2, <1>3, <1>4, <1>5, <1>6, <1>7, <1>9, <1>10 DEF TypeOK

LEMMA StepType == TypeOK /\ [Next]_vars => TypeOK'
<1> SUFFICES ASSUME TypeOK, [Next]_vars PROVE TypeOK'
  OBVIOUS
<1>1. CASE GiveUp \/ Apply \/ UNCHANGED vars
  BY <1>1 DEF TypeOK, GiveUp, Apply, vars, rows, deviceRow, cacheRow, agent, history, Open
<1>2. ASSUME NEW s \in Session, Send(s) \/ BeginCheckin(s) \/ LoadCache(s) \/ Compute(s)
      PROVE  TypeOK'
  <2>1. "page" \in Kinds \ {"checkin"}
    BY ConstantsType
  <2> QED
    BY <1>2, <2>1, OpensType
<1>3. ASSUME NEW s \in Session, NEW kind \in Kinds \ {"checkin"}, BeginConsole(s, kind)
      PROVE  TypeOK'
  BY <1>3, OpensType
<1>4. ASSUME NEW s \in Session, \/ CommitCheckin(s) \/ CommitPage(s) \/ CommitPublish(s)
                                \/ CommitEngage(s) \/ CommitClear(s)
      PROVE  TypeOK'
  BY <1>4, CommitType
<1> QED
  BY <1>1, <1>2, <1>3, <1>4 DEF Next, Work

LEMMA InitType == Init => TypeOK
<1> SUFFICES ASSUME Init PROVE TypeOK
  OBVIOUS
<1>1. payload \in Payload
  BY DEF Init, Payload
<1>2. local \in [Session -> Local] /\ at \in [Session -> Stages]
  BY ConstantsType DEF Init, Stages
<1>3. edits \in Nat /\ rev \in Nat /\ version \in Nat
  BY DEF Init
<1>4. document \in Payload /\ running \in Payload /\ waiting \in SUBSET Session
  BY ConstantsType DEF Init
<1> QED
  BY <1>1, <1>2, <1>3, <1>4 DEF Init, TypeOK

\* Every variable stays in its type, whatever sessions overlap.
THEOREM TypeCorrect == Spec => []TypeOK
  BY InitType, StepType, PTL DEF Spec

-----------------------------------------------------------------------------
(* What overlapping sessions have in memory                                *)

\* What a recompute would give now.
Wanted == Resolve(breached)

\* No version in use is higher.
Ceiling == Highest(version, disputed)

\* Content c goes with version v.
Tied(v, c) == version > disputed /\ v = version => c = payload

Quiet(s) == Open(s) /\ s \notin crossed

\* A session that read the cache row stale: as long as nobody settled the row it read
\* what is there, and after that the version has moved by one if the payload did.
Behind(r) ==
    IF stale THEN r.version = version /\ r.payload = payload
    ELSE ~clouded /\ version = IF r.payload # Wanted THEN r.version + 1 ELSE r.version

\* A check-in or a page that nothing has crossed.
QuietReader(s) ==
    LET r == local[s]
    IN  /\ r.breached = breached
        /\ r.version <= version
        /\ at[s] = "begun" => version = r.version \/ ~stale
        /\ at[s] # "begun" /\ r.stale => Behind(r)
        /\ at[s] # "begun" /\ ~r.stale => ~stale /\ r.payload = payload
        /\ at[s] = "resolved" /\ r.stale => r.new = Wanted

\* An edit that nothing has crossed finds the mark it read where it read it.
QuietEditor(s) == at[s] = "resolved" /\ local[s].stale => stale

\* Any open session, crossed or not.
Memory(s) ==
    LET r == local[s]
    IN  /\ r.version <= Ceiling
        /\ at[s] # "begun" => Tied(r.version, r.payload)
        /\ at[s] = "loaded" => r.stale /\ r.kind \notin Edits
        /\ at[s] = "resolved" /\ (~r.stale \/ r.kind \in Edits) => r.new = r.payload

DeviceHolds ==
    /\ held <= Ceiling /\ applied <= Ceiling
    /\ Tied(held, document) /\ Tied(applied, running)
    /\ applied \in ever /\ 0 \in ever

\* The device waits for a session that is answering its last request, and what any
\* request said it had applied it had.
RequestsHold ==
    /\ \A s \in Session : at[s] # "free" => local[s].applied \in ever
    /\ \A s \in Session : at[s] = "sent" => local[s].kind = "checkin"
    /\ \A s \in waiting :
          at[s] # "free" /\ local[s].kind = "checkin" /\ local[s].held = held

SessionsHold ==
    /\ \A s \in Session : Quiet(s) =>
          IF local[s].kind \in Edits THEN QuietEditor(s) ELSE QuietReader(s)
    /\ \A s \in Session : Open(s) => Memory(s)

Overlap ==
    /\ TypeOK /\ SessionsHold /\ DeviceHolds /\ RequestsHold
    /\ RowIsCurrent /\ AcksWereApplied

-----------------------------------------------------------------------------
(* Settling                                                                *)

\* What the commit of a check-in or a page may do to the row and the version: the row was
\* read fresh and nothing is written; a quiet session leaves what a recompute gives now,
\* and the version has moved by one exactly if that is news, however many settle it at
\* once; a crossed one leaves the row clouded, and any version it writes disputed.
Untouched == UNCHANGED <<payload, version, stale, clouded, disputed>>
SettledWell ==
    /\ stale' = FALSE /\ payload' = Wanted /\ clouded' = FALSE /\ disputed' = disputed
    /\ version' = IF stale /\ payload # Wanted THEN version + 1 ELSE version
SettledIll ==
    /\ stale' = FALSE /\ clouded' = TRUE
    /\ \/ UNCHANGED <<payload, version, disputed>>
       \/ disputed' >= version' /\ disputed' >= version /\ disputed' >= disputed

LEMMA Settles ==
    ASSUME Overlap, NEW s \in Session, at[s] = "resolved", local[s].kind \notin Edits,
           WriteSettled(local[s]), Finish(s)
    PROVE  \/ /\ ~local[s].stale /\ Untouched
              /\ local[s].new = local[s].payload /\ VersionOf(local[s]) = local[s].version
           \/ /\ s \notin crossed /\ SettledWell
              /\ local[s].new = Wanted /\ VersionOf(local[s]) = version'
           \/ /\ s \in crossed /\ SettledIll
              /\ \/ /\ UNCHANGED <<payload, version, disputed>>
                    /\ local[s].new = local[s].payload /\ VersionOf(local[s]) = local[s].version
                 \/ VersionOf(local[s]) = version' /\ disputed' >= version'
<1> DEFINE r == local[s]
<1>1. /\ TypeOK /\ Open(s) /\ Memory(s)
      /\ r \in Local /\ version \in Nat /\ r.version \in Nat /\ stale \in BOOLEAN
      /\ r.stale \in BOOLEAN /\ clouded \in BOOLEAN /\ disputed \in Nat
  BY DEF Overlap, SessionsHold, TypeOK, Local, Open
<1>2. CASE ~r.stale
  <2>1. r.new = r.payload
    BY <1>1, <1>2 DEF Memory
  <2> QED
    BY <1>1, <1>2, <2>1 DEF WriteSettled, VersionOf, Finish, Writes, Untouched
<1>3. CASE r.stale /\ s \notin crossed
  <2>1. QuietReader(s) /\ (~stale /\ ~clouded => payload = Wanted)
    BY <1>1, <1>3 DEF Overlap, SessionsHold, Quiet, RowIsCurrent, Wanted
  <2>2. Behind(r) /\ r.new = Wanted
    BY <1>3, <2>1 DEF QuietReader
  <2>3. /\ payload' = IF Wanted # r.payload THEN Wanted ELSE payload
        /\ version' = IF Wanted # r.payload THEN r.version + 1 ELSE version
        /\ VersionOf(r) = IF Wanted # r.payload THEN r.version + 1 ELSE r.version
        /\ stale' = FALSE
    BY <1>3, <2>2 DEF WriteSettled, VersionOf
  <2>4. clouded' = FALSE /\ disputed' = disputed
    BY <1>3, <2>3 DEF Finish, Writes
  <2>5. CASE stale
    BY <1>1, <2>2, <2>3, <2>4, <2>5, <1>3 DEF Behind, SettledWell
  <2>6. CASE ~stale
    BY <1>1, <2>1, <2>2, <2>3, <2>4, <2>6, <1>3 DEF Behind, SettledWell
  <2> QED
    BY <1>1, <2>5, <2>6
<1>4. CASE r.stale /\ s \in crossed
  <2>1. stale' = FALSE /\ clouded' = TRUE
    BY <1>1, <1>4 DEF WriteSettled, Finish, Writes
  <2>2. CASE r.new = r.payload
    BY <1>1, <1>4, <2>1, <2>2 DEF WriteSettled, VersionOf, Finish, SettledIll
  <2>3. CASE r.new # r.payload
    <3>1. version' = r.version + 1 /\ VersionOf(r) = r.version + 1
      BY <2>3 DEF WriteSettled, VersionOf
    <3>2. disputed' = Highest(version', Highest(version, disputed))
      BY <1>4, <2>3 DEF Finish
    <3>3. disputed' >= version' /\ disputed' >= version /\ disputed' >= disputed
      BY <1>1, <3>1, <3>2 DEF Highest
    <3> QED
      BY <1>4, <2>1, <3>1, <3>3 DEF SettledIll
  <2> QED
    BY <2>2, <2>3
<1> QED
  BY <1>1, <1>2, <1>3, <1>4

\* However the row was settled, the versions in use grow.
LEMMA CeilingGrows ==
    ASSUME Overlap, version' \in Nat, disputed' \in Nat, Untouched \/ SettledIll \/ SettledWell
    PROVE  /\ Ceiling \in Nat /\ Ceiling' \in Nat
           /\ Ceiling <= Ceiling' /\ version' <= Ceiling'
<1>1. version \in Nat /\ disputed \in Nat
  BY DEF Overlap, TypeOK
<1>2. CASE Untouched
  BY <1>1, <1>2 DEF Ceiling, Highest, Untouched
<1>3. CASE SettledIll
  BY <1>1, <1>3 DEF Ceiling, Highest, SettledIll
<1>4. CASE SettledWell
  BY <1>1, <1>4 DEF Ceiling, Highest, SettledWell
<1> QED
  BY <1>2, <1>3, <1>4

\* What goes with a version in use goes with it still.
LEMMA TiesAreKept ==
    ASSUME Overlap, version' \in Nat, disputed' \in Nat,
           \/ Untouched \/ SettledIll
           \/ SettledWell /\ (version' = version => payload = Wanted),
           NEW v \in Nat, NEW c, v <= Ceiling, Tied(v, c)
    PROVE  version' > disputed' /\ v = version' => c = payload'
<1>1. version \in Nat /\ disputed \in Nat
  BY DEF Overlap, TypeOK
<1>2. CASE Untouched
  BY <1>2 DEF Tied, Untouched
<1>3. CASE SettledIll
  BY <1>1, <1>3 DEF Tied, SettledIll
<1>4. CASE SettledWell /\ (version' = version => payload = Wanted)
  BY <1>1, <1>4 DEF Tied, SettledWell, Ceiling, Highest
<1> QED
  BY <1>2, <1>3, <1>4

\* What a quiet reader has read stays good when another quiet one settles the row.
LEMMA SettlingDisturbsNobody ==
    ASSUME Overlap, NEW t \in Session, Quiet(t), QuietReader(t),
           at'[t] = at[t], local'[t] = local[t], UNCHANGED <<rev, breached>>,
           SettledWell, version' = version => payload = Wanted
    PROVE  QuietReader(t)'
<1> DEFINE r == local[t]
<1>1. /\ (~stale /\ ~clouded => payload = Wanted)
      /\ version \in Nat /\ r.version \in Nat /\ stale \in BOOLEAN /\ r.stale \in BOOLEAN
  BY DEF Overlap, TypeOK, Local, RowIsCurrent, Wanted
<1>2. Wanted' = Wanted
  BY DEF Wanted, Resolve
<1>3. r.version <= version'
  BY <1>1 DEF QuietReader, SettledWell
<1>4. at[t] # "begun" /\ r.stale =>
         version' = IF r.payload # Wanted THEN r.version + 1 ELSE r.version
  BY <1>1 DEF QuietReader, Behind, SettledWell
<1>5. at[t] # "begun" /\ ~r.stale => r.payload = Wanted
  BY <1>1 DEF QuietReader, SettledWell
<1> QED
  BY <1>2, <1>3, <1>4, <1>5 DEF QuietReader, Behind, SettledWell

-----------------------------------------------------------------------------
(* The invariant, step by step                                             *)

\* A commit that settles the row, and may answer the device.
LEMMA ReaderCommits ==
    ASSUME Overlap, NEW s \in Session, CommitCheckin(s) \/ CommitPage(s)
    PROVE  Overlap'
<1> DEFINE r == local[s]
<1>1. TypeOK' /\ TypeOK
  BY StepType DEF Overlap, Next, Work
<1>2. /\ Open(s) /\ at[s] = "resolved" /\ r.kind \notin Edits /\ Memory(s)
      /\ WriteSettled(r) /\ Finish(s) /\ UNCHANGED <<rev, breached>>
  BY ConstantsType DEF CommitCheckin, CommitPage, Open, Overlap, SessionsHold
<1>3. /\ r \in Local /\ r.version \in Nat /\ VersionOf(r) \in Nat
      /\ version' \in Nat /\ disputed' \in Nat /\ version \in Nat /\ disputed \in Nat
      /\ held \in Nat /\ applied \in Nat
  BY <1>1, SettledType DEF TypeOK, Local
<1>4. \/ /\ ~r.stale /\ Untouched
         /\ r.new = r.payload /\ VersionOf(r) = r.version
      \/ s \notin crossed /\ SettledWell /\ r.new = Wanted /\ VersionOf(r) = version'
      \/ /\ s \in crossed /\ SettledIll
         /\ \/ /\ UNCHANGED <<payload, version, disputed>>
               /\ r.new = r.payload /\ VersionOf(r) = r.version
            \/ VersionOf(r) = version' /\ disputed' >= version'
  BY <1>2, Settles
<1>5. SettledWell => (version' = version => payload = Wanted)
  <2>1. SUFFICES ASSUME SettledWell, version' = version, ~stale
                 PROVE  payload = Wanted
    <3>1. SettledWell /\ stale /\ payload # Wanted => version' = version + 1
      BY DEF SettledWell
    <3>2. version + 1 # version /\ stale \in BOOLEAN
      BY <1>1, <1>3 DEF TypeOK
    <3> QED
      BY <3>1, <3>2
  <2>2. CASE ~clouded
    BY <2>1, <2>2 DEF Overlap, RowIsCurrent, Wanted
  <2>3. CASE clouded
    <3>1. r.stale
      BY <1>2, <2>1, <2>3 DEF SettledWell, Finish, Writes
    <3>2. s \notin crossed
      BY <2>1, <2>3, <3>1, <1>4 DEF SettledWell, SettledIll
    <3>3. QuietReader(s)
      BY <1>2, <3>2 DEF Overlap, SessionsHold, Quiet
    <3> QED
      BY <1>2, <2>1, <2>3, <3>1, <3>3 DEF QuietReader, Behind
  <2> QED
    BY <2>2, <2>3
<1>6. Ceiling \in Nat /\ Ceiling' \in Nat /\ Ceiling <= Ceiling' /\ version' <= Ceiling'
  BY <1>3, <1>4, CeilingGrows
<1>7. ASSUME NEW v \in Nat, NEW c, v <= Ceiling, Tied(v, c)
      PROVE  version' > disputed' /\ v = version' => c = payload'
  <2>1. \/ Untouched \/ SettledIll
        \/ SettledWell /\ (version' = version => payload = Wanted)
    BY <1>4, <1>5
  <2> QED
    BY <1>3, <1>7, <2>1, TiesAreKept
<1>8. /\ VersionOf(r) <= Ceiling'
      /\ version' > disputed' /\ VersionOf(r) = version' => r.new = payload'
  <2>1. r.version <= Ceiling /\ Tied(r.version, r.payload)
    BY <1>2 DEF Memory
  <2>2. CASE r.new = r.payload /\ VersionOf(r) = r.version
    BY <1>3, <1>6, <1>7, <2>1, <2>2
  <2>3. CASE SettledWell /\ r.new = Wanted /\ VersionOf(r) = version'
    BY <1>6, <2>3 DEF SettledWell
  <2>4. CASE VersionOf(r) = version' /\ disputed' >= version'
    BY <1>3, <1>6, <2>4
  <2> QED
    BY <1>4, <2>2, <2>3, <2>4
<1>9. /\ \A t \in Session \ {s} : at'[t] = at[t] /\ local'[t] = local[t]
      /\ at'[s] = "free" /\ crossed' = (crossed \ {s}) \cup Overtaken(s) /\ ever' = ever
  BY <1>1, <1>2 DEF TypeOK, Finish
<1>10. \A t \in Session : Open(t)' => t # s /\ Open(t)
  BY <1>9 DEF Open
<1>11. /\ UNCHANGED <<applied, running>>
       /\ \/ /\ UNCHANGED <<held, document, waiting>>
             /\ s \notin waiting
          \/ /\ s \in waiting /\ waiting' = {}
             /\ held' = VersionOf(r)
             /\ document' = IF r.held # VersionOf(r) THEN r.new ELSE document
  <2>1. CASE CommitCheckin(s)
    BY <2>1 DEF CommitCheckin, TakeAnswer, agent
  <2>2. CASE CommitPage(s)
    <3>1. s \notin waiting
      BY <2>2 DEF CommitPage, Overlap, RequestsHold
    <3> QED
      BY <2>2, <3>1 DEF CommitPage, agent
  <2> QED
    BY <2>1, <2>2
<1>12. DeviceHolds'
  <2>1. applied' <= Ceiling' /\ Tied(applied, running)' /\ applied' \in ever' /\ 0 \in ever'
    <3>1. applied <= Ceiling /\ Tied(applied, running) /\ applied \in ever /\ 0 \in ever
      BY DEF Overlap, DeviceHolds
    <3>2. version' > disputed' /\ applied = version' => running = payload'
      BY <1>3, <1>7, <3>1
    <3>3. applied <= Ceiling'
      BY <1>3, <1>6, <3>1
    <3> QED
      BY <1>9, <1>11, <3>1, <3>2, <3>3 DEF Tied
  <2>2. held' <= Ceiling' /\ Tied(held, document)'
    <3>1. held <= Ceiling /\ Tied(held, document)
      BY DEF Overlap, DeviceHolds
    <3>2. (version' > disputed' /\ held = version' => document = payload') /\ held <= Ceiling'
      BY <1>3, <1>6, <1>7, <3>1
    <3>3. CASE UNCHANGED <<held, document, waiting>>
      BY <1>3, <1>6, <3>1, <3>2, <3>3 DEF Tied
    <3>4. CASE s \in waiting /\ held' = VersionOf(r)
               /\ document' = IF r.held # VersionOf(r) THEN r.new ELSE document
      <4>1. r.held = held
        BY <3>4 DEF Overlap, RequestsHold
      <4> QED
        BY <1>8, <3>2, <3>4, <4>1 DEF Tied
    <3> QED
      BY <1>11, <3>3, <3>4
  <2> QED
    BY <2>1, <2>2 DEF DeviceHolds
<1>13. RequestsHold'
  <2>1. \A t \in Session : at'[t] # "free" => local'[t].applied \in ever'
    BY <1>9 DEF Overlap, RequestsHold
  <2>2. \A t \in Session : at'[t] = "sent" => local'[t].kind = "checkin"
    BY <1>9 DEF Overlap, RequestsHold
  <2>3. ASSUME NEW t \in waiting'
        PROVE  at'[t] # "free" /\ local'[t].kind = "checkin" /\ local'[t].held = held'
    <3>1. t \in waiting /\ t # s /\ t \in Session /\ held' = held
      BY <1>1, <1>11, <2>3 DEF TypeOK
    <3>2. at[t] # "free" /\ local[t].kind = "checkin" /\ local[t].held = held
      BY <3>1 DEF Overlap, RequestsHold
    <3> QED
      BY <1>9, <3>1, <3>2
  <2> QED
    BY <2>1, <2>2, <2>3 DEF RequestsHold
<1>14. RowIsCurrent'
  <2>1. Wanted' = Wanted
    BY <1>2 DEF Wanted, Resolve
  <2>2. CASE Untouched
    BY <2>1, <2>2 DEF Untouched, Overlap, RowIsCurrent, Wanted
  <2>3. CASE SettledWell
    BY <2>1, <2>3 DEF SettledWell, RowIsCurrent, Wanted
  <2>4. CASE SettledIll
    BY <2>4 DEF SettledIll, RowIsCurrent
  <2> QED
    BY <1>4, <2>2, <2>3, <2>4
<1>15. AcksWereApplied'
  <2>1. acked' = acked \/ acked' = r.applied
    BY DEF CommitCheckin, CommitPage, AckedOf
  <2>2. r.applied \in ever /\ acked \in ever
    BY <1>2 DEF Overlap, RequestsHold, AcksWereApplied
  <2> QED
    BY <1>9, <2>1, <2>2 DEF AcksWereApplied
<1>16. ASSUME NEW t \in Session, Open(t)'
       PROVE  Memory(t)'
  <2>1. t # s /\ Open(t) /\ Memory(t) /\ at'[t] = at[t] /\ local'[t] = local[t]
    BY <1>9, <1>10, <1>16 DEF Overlap, SessionsHold
  <2>2. local[t].version \in Nat
    BY <1>1 DEF TypeOK, Local
  <2>3. at[t] # "begun" => Tied(local[t].version, local[t].payload)
    BY <2>1 DEF Memory
  <2>4. local[t].version <= Ceiling /\ local[t].version <= Ceiling'
    BY <1>6, <2>1, <2>2 DEF Memory
  <2>5. at[t] # "begun" =>
           (version' > disputed' /\ local[t].version = version' => local[t].payload = payload')
    BY <1>7, <2>1, <2>2, <2>3, <2>4
  <2> QED
    BY <2>1, <2>4, <2>5 DEF Memory, Tied
<1>17. ASSUME NEW t \in Session, Quiet(t)'
       PROVE  IF local'[t].kind \in Edits THEN QuietEditor(t)' ELSE QuietReader(t)'
  <2>1. /\ t # s /\ Open(t) /\ at'[t] = at[t] /\ local'[t] = local[t]
        /\ t \notin crossed /\ t \notin Overtaken(s)
    BY <1>9, <1>10, <1>17 DEF Quiet
  <2>2. Quiet(t) /\ IF local[t].kind \in Edits THEN QuietEditor(t) ELSE QuietReader(t)
    BY <2>1 DEF Quiet, Overlap, SessionsHold
  <2>3. ~r.stale \/ (s \notin crossed /\ local[t].kind \notin Edits)
    BY <2>1 DEF Overtaken, Writes
  <2>4. CASE Untouched
    BY <1>2, <2>1, <2>2, <2>4 DEF Untouched, QuietEditor, QuietReader, Behind, Wanted, Resolve
  <2>5. CASE SettledWell /\ r.stale
    <3>1. local[t].kind \notin Edits /\ QuietReader(t)
      BY <2>2, <2>3, <2>5
    <3>2. version' = version => payload = Wanted
      BY <1>5, <2>5
    <3> QED
      BY <1>2, <2>1, <2>2, <2>5, <3>1, <3>2, SettlingDisturbsNobody
  <2>6. Untouched \/ (SettledWell /\ r.stale)
    <3>1. CASE ~r.stale
      BY <1>1, <1>2, <3>1 DEF Memory, WriteSettled, Finish, Writes, Untouched
    <3>2. CASE r.stale
      BY <1>4, <2>3, <3>2
    <3> QED
      BY <3>1, <3>2
  <2> QED
    BY <2>4, <2>5, <2>6
<1> QED
  BY <1>1, <1>12, <1>13, <1>14, <1>15, <1>16, <1>17 DEF Overlap, SessionsHold

\* An edit crosses whoever is open, and leaves the row marked or clouded.
LEMMA EditorCommits ==
    ASSUME Overlap, NEW s \in Session, CommitPublish(s) \/ CommitEngage(s) \/ CommitClear(s)
    PROVE  Overlap'
<1> DEFINE r == local[s]
<1>1. TypeOK' /\ TypeOK
  BY StepType DEF Overlap, Next, Work
<1>2. /\ Open(s) /\ at[s] = "resolved" /\ r.kind \in Edits
      /\ Invalidate(r) /\ Finish(s) /\ UNCHANGED <<payload, version, acked, agent, waiting>>
  BY DEF CommitPublish, CommitEngage, CommitClear, Open, Edits, Invalidate, deviceRow
<1>3. r.new = r.payload
  BY <1>2 DEF Overlap, SessionsHold, Memory
<1>4. disputed' = disputed /\ ever' = ever /\ clouded' = (s \in crossed /\ ~stale')
  BY <1>2, <1>3 DEF Finish, Writes
<1>5. /\ \A t \in Session \ {s} : at'[t] = at[t] /\ local'[t] = local[t]
      /\ at'[s] = "free" /\ crossed' = (crossed \ {s}) \cup Overtaken(s)
  BY <1>1, <1>2 DEF TypeOK, Finish
<1>6. \A t \in Session : Open(t)' => t # s /\ Open(t)
  BY <1>5 DEF Open
<1>7. \A t \in Session : ~Quiet(t)'
  <2>1. \A t \in Session \ {s} : Open(t) => t \in Overtaken(s)
    BY <1>2 DEF Overtaken, Writes
  <2> QED
    BY <1>5, <1>6, <2>1 DEF Quiet
<1>8. RowIsCurrent'
  <2>1. CASE s \in crossed
    BY <1>4, <2>1 DEF RowIsCurrent
  <2>2. CASE s \notin crossed
    <3>1. r.stale => stale
      BY <1>2, <2>2 DEF Overlap, SessionsHold, Quiet, QuietEditor
    <3> QED
      BY <1>1, <1>2, <3>1 DEF Invalidate, RowIsCurrent
  <2> QED
    BY <2>1, <2>2
<1>9. \A t \in Session : Open(t)' => Memory(t)'
  BY <1>2, <1>4, <1>5, <1>6 DEF Overlap, SessionsHold, Memory, Tied, Ceiling, Highest
<1>10. DeviceHolds' /\ AcksWereApplied'
  BY <1>2, <1>4 DEF Overlap, DeviceHolds, AcksWereApplied, Tied, Ceiling, Highest, agent
<1>11. RequestsHold'
  <2>1. \A t \in Session : at'[t] # "free" => local'[t].applied \in ever'
    BY <1>4, <1>5 DEF Overlap, RequestsHold
  <2>2. \A t \in Session : at'[t] = "sent" => local'[t].kind = "checkin"
    BY <1>5 DEF Overlap, RequestsHold
  <2>3. ASSUME NEW t \in waiting'
        PROVE  at'[t] # "free" /\ local'[t].kind = "checkin" /\ local'[t].held = held'
    <3>1. t \in Session /\ at[t] # "free" /\ local[t].kind = "checkin" /\ local[t].held = held
      BY <1>1, <1>2, <2>3 DEF Overlap, RequestsHold, TypeOK
    <3>2. t # s /\ held' = held
      BY <1>2, <3>1, ConstantsType DEF agent
    <3> QED
      BY <1>5, <3>1, <3>2
  <2> QED
    BY <2>1, <2>2, <2>3 DEF RequestsHold
<1> QED
  BY <1>1, <1>7, <1>8, <1>9, <1>10, <1>11 DEF Overlap, SessionsHold

\* What the committed rows are, when only sessions or the device move.
Same == UNCHANGED <<rows, crossed, clouded, disputed>>

LEMMA OthersKeep ==
    ASSUME Overlap, NEW t \in Session, Open(t)', at'[t] = at[t], local'[t] = local[t], Same
    PROVE  /\ Memory(t)'
           /\ Quiet(t)' => IF local'[t].kind \in Edits THEN QuietEditor(t)' ELSE QuietReader(t)'
<1>1. Open(t) /\ Memory(t)
  BY DEF Open, Overlap, SessionsHold
<1>2. Quiet(t)' => Quiet(t)
  BY <1>1 DEF Quiet, Same
<1>3. Quiet(t) => IF local[t].kind \in Edits THEN QuietEditor(t) ELSE QuietReader(t)
  BY DEF Overlap, SessionsHold
<1>4. UNCHANGED <<payload, version, stale, clouded, disputed, breached, rev, Wanted, Ceiling>>
  BY DEF Same, rows, deviceRow, cacheRow, Wanted, Resolve, Ceiling, Highest
<1>5. Memory(t)'
  BY <1>1, <1>4 DEF Memory, Tied
<1>6. Quiet(t)' => IF local'[t].kind \in Edits THEN QuietEditor(t)' ELSE QuietReader(t)'
  BY <1>2, <1>3, <1>4 DEF QuietEditor, QuietReader, Behind
<1> QED
  BY <1>5, <1>6

LEMMA RowsKeep ==
    ASSUME Overlap, UNCHANGED <<rows, history>>
    PROVE  Same /\ RowIsCurrent' /\ AcksWereApplied'
  BY DEF Overlap, Same, RowIsCurrent, AcksWereApplied, Resolve, rows, deviceRow, cacheRow,
     history

\* A session opens, and reads the device row as it is.
LEMMA Begins ==
    ASSUME Overlap, NEW s \in Session, NEW kind \in Kinds \ {"checkin"},
           BeginCheckin(s) \/ BeginConsole(s, kind)
    PROVE  Overlap'
<1>1. TypeOK' /\ TypeOK
  BY StepType DEF Overlap, Next, Work
<1>2. /\ UNCHANGED <<rows, agent, waiting, history>>
      /\ at' = [at EXCEPT ![s] = "begun"] /\ at[s] \in {"free", "sent"}
  BY DEF BeginCheckin, BeginConsole
<1>3. \A t \in Session \ {s} : at'[t] = at[t] /\ local'[t] = local[t]
  BY <1>1, <1>2 DEF TypeOK, BeginCheckin, BeginConsole
<1>4. \/ /\ at[s] = "sent" /\ local[s].kind = "checkin"
         /\ local'[s] = LoadDevice(local[s])
      \/ /\ at[s] = "free"
         /\ local'[s] = LoadDevice([NoLocal EXCEPT !.kind = kind])
  BY <1>1 DEF Overlap, RequestsHold, TypeOK, BeginCheckin, BeginConsole
<1>5. /\ local'[s].breached = breached /\ local'[s].version = version
      /\ \/ /\ at[s] = "sent" /\ local[s].kind = "checkin" /\ local'[s].kind = "checkin"
            /\ local'[s].held = local[s].held /\ local'[s].applied = local[s].applied
         \/ at[s] = "free" /\ local'[s].applied = 0
  <2>1. local[s] \in Local /\ NoLocal \in Local
    BY <1>1, ConstantsType DEF TypeOK
  <2> QED
    BY <1>4, <2>1 DEF LoadDevice, Local, NoLocal
<1>6. at'[s] = "begun" /\ ~Open(s) /\ Same /\ version \in Nat /\ disputed \in Nat
  BY <1>1, <1>2 DEF TypeOK, Open, Same, history
<1>7. Memory(s)' /\ QuietReader(s)' /\ QuietEditor(s)'
  <2>1. UNCHANGED <<version, breached, stale, disputed>>
    BY <1>2 DEF rows, deviceRow, cacheRow, history
  <2>2. version <= Ceiling' /\ version <= version
    BY <1>6, <2>1 DEF Ceiling, Highest
  <2>3. Memory(s)'
    BY <1>5, <1>6, <2>1, <2>2 DEF Memory
  <2>4. QuietReader(s)'
    BY <1>5, <1>6, <2>1, <2>2 DEF QuietReader
  <2>5. QuietEditor(s)'
    BY <1>6 DEF QuietEditor
  <2> QED
    BY <2>3, <2>4, <2>5
<1>8. SessionsHold'
  <2>1. ASSUME NEW t \in Session \ {s}, Open(t)'
        PROVE  /\ Memory(t)'
               /\ Quiet(t)' => IF local'[t].kind \in Edits THEN QuietEditor(t)'
                                                           ELSE QuietReader(t)'
    BY <1>3, <1>6, <2>1, OthersKeep
  <2> QED
    BY <1>7, <2>1 DEF SessionsHold, Quiet
<1>9. RequestsHold'
  <2>1. \A t \in Session : at'[t] # "free" => local'[t].applied \in ever'
    BY <1>2, <1>3, <1>5 DEF Overlap, RequestsHold, DeviceHolds, history
  <2>2. \A t \in Session : at'[t] = "sent" => local'[t].kind = "checkin"
    BY <1>3, <1>6 DEF Overlap, RequestsHold
  <2>3. ASSUME NEW t \in waiting'
        PROVE  at'[t] # "free" /\ local'[t].kind = "checkin" /\ local'[t].held = held'
    <3>1. /\ t \in Session /\ at[t] # "free" /\ local[t].kind = "checkin"
          /\ local[t].held = held /\ held' = held
      BY <1>1, <1>2, <2>3 DEF Overlap, RequestsHold, TypeOK, agent
    <3> QED
      BY <1>3, <1>5, <1>6, <3>1
  <2> QED
    BY <2>1, <2>2, <2>3 DEF RequestsHold
<1>10. DeviceHolds'
  BY <1>2 DEF Overlap, DeviceHolds, Tied, Ceiling, Highest, rows, deviceRow, cacheRow, agent,
     history
<1>11. RowIsCurrent' /\ AcksWereApplied'
  BY <1>2, RowsKeep
<1> QED
  BY <1>1, <1>8, <1>9, <1>10, <1>11 DEF Overlap

\* What a session has in memory of the cache row is what is there.
LEMMA Loads ==
    ASSUME Overlap, NEW s \in Session, LoadCache(s)
    PROVE  Overlap'
<1> DEFINE r == local[s]
           q == [r EXCEPT !.stale = stale, !.payload = payload, !.new = payload]
<1>1. TypeOK' /\ TypeOK
  BY StepType DEF Overlap, Next, Work
<1>2. /\ UNCHANGED <<rows, agent, waiting, history>> /\ at[s] = "begun" /\ Open(s)
      /\ at'[s] = IF stale /\ r.kind \notin Edits THEN "loaded" ELSE "resolved"
      /\ local'[s] = q
  BY <1>1 DEF LoadCache, TypeOK, Open
<1>3. \A t \in Session \ {s} : at'[t] = at[t] /\ local'[t] = local[t]
  BY <1>1 DEF TypeOK, LoadCache
<1>4. /\ q.stale = stale /\ q.payload = payload /\ q.new = payload
      /\ UNCHANGED <<local[s].kind, local[s].held, local[s].applied, local[s].breached,
                     local[s].version>>
  <2>1. r \in Local
    BY <1>1 DEF TypeOK
  <2> QED
    BY <1>2, <2>1 DEF Local
<1>5. Same /\ RowIsCurrent' /\ AcksWereApplied'
  BY <1>2, RowsKeep
<1>6. UNCHANGED <<payload, version, stale, clouded, disputed, breached, Wanted, Ceiling>>
  BY <1>2 DEF rows, deviceRow, cacheRow, history, Wanted, Resolve, Ceiling, Highest
<1>7. Memory(s)'
  <2>1. r.version <= Ceiling
    BY <1>2 DEF Overlap, SessionsHold, Memory
  <2> QED
    BY <1>2, <1>4, <1>6, <2>1 DEF Memory, Tied
<1>8. Quiet(s)' => IF local'[s].kind \in Edits THEN QuietEditor(s)' ELSE QuietReader(s)'
  <2>1. SUFFICES ASSUME Quiet(s)'
                 PROVE  IF r.kind \in Edits THEN QuietEditor(s)' ELSE QuietReader(s)'
    BY <1>4
  <2>2. Quiet(s) /\ stale \in BOOLEAN
    BY <1>1, <1>2, <1>5, <2>1 DEF Quiet, Same, TypeOK
  <2>3. CASE r.kind \in Edits
    BY <1>2, <1>4, <1>6, <2>3 DEF QuietEditor
  <2>4. CASE r.kind \notin Edits
    <3>1. QuietReader(s)
      BY <2>2, <2>4 DEF Overlap, SessionsHold
    <3>2. /\ r.breached = breached /\ r.version <= version
          /\ version = r.version \/ ~stale
      BY <1>2, <3>1 DEF QuietReader
    <3> QED
      BY <1>2, <1>4, <1>6, <2>2, <2>4, <3>2 DEF QuietReader, Behind
  <2> QED
    BY <2>3, <2>4
<1>9. SessionsHold'
  <2>1. ASSUME NEW t \in Session \ {s}, Open(t)'
        PROVE  /\ Memory(t)'
               /\ Quiet(t)' => IF local'[t].kind \in Edits THEN QuietEditor(t)'
                                                           ELSE QuietReader(t)'
    BY <1>3, <1>5, <2>1, OthersKeep
  <2> QED
    BY <1>7, <1>8, <2>1 DEF SessionsHold, Quiet
<1>10. DeviceHolds'
  BY <1>2 DEF Overlap, DeviceHolds, Tied, Ceiling, Highest, rows, deviceRow, cacheRow, agent,
     history
<1>11. RequestsHold'
  <2>1. \A t \in Session : at'[t] # "free" => local'[t].applied \in ever'
    BY <1>2, <1>3, <1>4 DEF Overlap, RequestsHold, history
  <2>2. \A t \in Session : at'[t] = "sent" => local'[t].kind = "checkin"
    BY <1>2, <1>3 DEF Overlap, RequestsHold
  <2>3. ASSUME NEW t \in waiting'
        PROVE  at'[t] # "free" /\ local'[t].kind = "checkin" /\ local'[t].held = held'
    <3>1. /\ t \in Session /\ at[t] # "free" /\ local[t].kind = "checkin"
          /\ local[t].held = held /\ held' = held
      BY <1>1, <1>2, <2>3 DEF Overlap, RequestsHold, TypeOK, agent
    <3> QED
      BY <1>2, <1>3, <1>4, <3>1
  <2> QED
    BY <2>1, <2>2, <2>3 DEF RequestsHold
<1> QED
  BY <1>1, <1>5, <1>9, <1>10, <1>11 DEF Overlap

\* The policy does not change under a quiet session that resolves it.
LEMMA Computes ==
    ASSUME Overlap, NEW s \in Session, Compute(s)
    PROVE  Overlap'
<1> DEFINE r == local[s]
<1>1. TypeOK' /\ TypeOK
  BY StepType DEF Overlap, Next, Work
<1>2. /\ UNCHANGED <<rows, agent, waiting, history>> /\ at[s] = "loaded" /\ Open(s)
      /\ at'[s] = "resolved"
      /\ local'[s] = [r EXCEPT !.new = Resolve(r.breached)]
  BY <1>1 DEF Compute, TypeOK, Open
<1>3. \A t \in Session \ {s} : at'[t] = at[t] /\ local'[t] = local[t]
  BY <1>1 DEF TypeOK, Compute
<1>4. /\ local'[s].new = Resolve(r.breached)
      /\ UNCHANGED <<local[s].kind, local[s].held, local[s].applied, local[s].breached,
                     local[s].version, local[s].stale, local[s].payload>>
  <2>1. r \in Local
    BY <1>1 DEF TypeOK
  <2> QED
    BY <1>2, <2>1 DEF Local
<1>5. Same /\ RowIsCurrent' /\ AcksWereApplied'
  BY <1>2, RowsKeep
<1>6. UNCHANGED <<payload, version, stale, clouded, disputed, breached, Wanted, Ceiling>>
  BY <1>2 DEF rows, deviceRow, cacheRow, history, Wanted, Resolve, Ceiling, Highest
<1>7. Memory(s) /\ r.stale /\ r.kind \notin Edits
  BY <1>2 DEF Overlap, SessionsHold, Memory
<1>8. Memory(s)'
  BY <1>2, <1>4, <1>6, <1>7 DEF Memory, Tied
<1>9. Quiet(s)' => QuietReader(s)'
  <2>1. SUFFICES ASSUME Quiet(s)' PROVE QuietReader(s)'
    OBVIOUS
  <2>2. QuietReader(s)
    BY <1>2, <1>5, <1>7, <2>1 DEF Quiet, Same, Overlap, SessionsHold
  <2>3. Resolve(r.breached) = Wanted
    BY <2>2 DEF QuietReader, Wanted
  <2> QED
    BY <1>2, <1>4, <1>6, <1>7, <2>2, <2>3 DEF QuietReader, Behind
<1>10. SessionsHold'
  <2>1. ASSUME NEW t \in Session \ {s}, Open(t)'
        PROVE  /\ Memory(t)'
               /\ Quiet(t)' => IF local'[t].kind \in Edits THEN QuietEditor(t)'
                                                           ELSE QuietReader(t)'
    BY <1>3, <1>5, <2>1, OthersKeep
  <2>2. local'[s].kind \notin Edits
    BY <1>4, <1>7
  <2> QED
    BY <1>8, <1>9, <2>1, <2>2 DEF SessionsHold, Quiet
<1>11. DeviceHolds'
  BY <1>2 DEF Overlap, DeviceHolds, Tied, Ceiling, Highest, rows, deviceRow, cacheRow, agent,
     history
<1>12. RequestsHold'
  <2>1. \A t \in Session : at'[t] # "free" => local'[t].applied \in ever'
    BY <1>2, <1>3, <1>4 DEF Overlap, RequestsHold, history
  <2>2. \A t \in Session : at'[t] = "sent" => local'[t].kind = "checkin"
    BY <1>2, <1>3 DEF Overlap, RequestsHold
  <2>3. ASSUME NEW t \in waiting'
        PROVE  at'[t] # "free" /\ local'[t].kind = "checkin" /\ local'[t].held = held'
    <3>1. /\ t \in Session /\ at[t] # "free" /\ local[t].kind = "checkin"
          /\ local[t].held = held /\ held' = held
      BY <1>1, <1>2, <2>3 DEF Overlap, RequestsHold, TypeOK, agent
    <3> QED
      BY <1>2, <1>3, <1>4, <3>1
  <2> QED
    BY <2>1, <2>2, <2>3 DEF RequestsHold
<1> QED
  BY <1>1, <1>5, <1>10, <1>11, <1>12 DEF Overlap

\* The device polls, stops waiting, or applies what it holds.
LEMMA DeviceMoves ==
    ASSUME Overlap, GiveUp \/ Apply \/ \E s \in Session : Send(s)
    PROVE  Overlap'
<1>1. TypeOK' /\ TypeOK
  BY StepType DEF Overlap, Next, Work
<1>2. UNCHANGED <<rows, crossed, clouded, disputed>> /\ Same
  BY DEF Send, GiveUp, Apply, history, Same
<1>3. \A t \in Session : Open(t)' => Open(t) /\ at'[t] = at[t] /\ local'[t] = local[t]
  BY <1>1 DEF Send, GiveUp, Apply, Open, TypeOK
<1>4. SessionsHold'
  <2>1. ASSUME NEW t \in Session, Open(t)'
        PROVE  /\ Memory(t)'
               /\ Quiet(t)' => IF local'[t].kind \in Edits THEN QuietEditor(t)'
                                                           ELSE QuietReader(t)'
    BY <1>2, <1>3, <2>1, OthersKeep
  <2> QED
    BY <2>1 DEF SessionsHold, Quiet
<1>5. RowIsCurrent' /\ Ceiling' = Ceiling /\ UNCHANGED <<payload, version, acked, disputed>>
  BY <1>2 DEF Overlap, RowIsCurrent, Resolve, Ceiling, Highest, rows, deviceRow, cacheRow
<1>6. ASSUME NEW s \in Session, Send(s)
      PROVE  Overlap'
  <2>1. /\ at'[s] = "sent" /\ waiting' = {s} /\ UNCHANGED <<agent, history>>
        /\ local'[s] = [NoLocal EXCEPT !.kind = "checkin", !.held = held, !.applied = applied]
    BY <1>1, <1>6 DEF Send, TypeOK
  <2>2. local'[s].kind = "checkin" /\ local'[s].held = held /\ local'[s].applied = applied
    BY <2>1, ConstantsType DEF Local, NoLocal
  <2>3. \A t \in Session \ {s} : at'[t] = at[t] /\ local'[t] = local[t]
    BY <1>1, <1>6 DEF Send, TypeOK
  <2>4. UNCHANGED <<held, document, applied, running, ever>>
    BY <2>1 DEF agent, history
  <2>5. RequestsHold'
    BY <2>1, <2>2, <2>3, <2>4 DEF Overlap, RequestsHold, DeviceHolds
  <2>6. DeviceHolds' /\ AcksWereApplied'
    BY <1>5, <2>4 DEF Overlap, DeviceHolds, AcksWereApplied, Tied
  <2> QED
    BY <1>1, <1>4, <1>5, <2>5, <2>6 DEF Overlap
<1>7. CASE GiveUp
  <2>1. RequestsHold' /\ DeviceHolds' /\ AcksWereApplied'
    BY <1>5, <1>7 DEF Overlap, RequestsHold, DeviceHolds, AcksWereApplied, Tied, GiveUp, agent,
       history
  <2> QED
    BY <1>1, <1>4, <1>5, <2>1 DEF Overlap
<1>8. CASE Apply
  <2>1. /\ applied' = held /\ running' = document /\ UNCHANGED <<held, document, waiting, at, local>>
        /\ ever' = ever \cup {held}
    BY <1>8 DEF Apply
  <2>2. RequestsHold' /\ DeviceHolds' /\ AcksWereApplied'
    BY <1>5, <2>1 DEF Overlap, RequestsHold, DeviceHolds, AcksWereApplied, Tied
  <2> QED
    BY <1>1, <1>4, <1>5, <2>2 DEF Overlap
<1> QED
  BY <1>6, <1>7, <1>8

LEMMA InitOverlap == Init => Overlap
<1> SUFFICES ASSUME Init PROVE Overlap
  OBVIOUS
<1>1. TypeOK /\ \A s \in Session : at[s] = "free"
  BY InitType DEF Init
<1>2. RequestsHold /\ SessionsHold
  BY <1>1 DEF Init, RequestsHold, SessionsHold, Quiet, Open
<1>3. DeviceHolds /\ RowIsCurrent /\ AcksWereApplied
  BY DEF Init, DeviceHolds, Tied, Ceiling, Highest, RowIsCurrent, AcksWereApplied, Resolve
<1> QED
  BY <1>1, <1>2, <1>3 DEF Overlap

LEMMA StepOverlap ==
    ASSUME Overlap, [Next]_vars
    PROVE  Overlap'
<1>1. CASE UNCHANGED vars
  <2>1. TypeOK'
    BY StepType DEF Overlap
  <2>2. Same /\ UNCHANGED <<at, local, agent, waiting, history>>
    BY <1>1 DEF vars, Same, history
  <2>3. SessionsHold'
    <3>1. ASSUME NEW t \in Session, Open(t)'
          PROVE  /\ Memory(t)'
                 /\ Quiet(t)' => IF local'[t].kind \in Edits THEN QuietEditor(t)'
                                                             ELSE QuietReader(t)'
      BY <2>2, <3>1, OthersKeep
    <3> QED
      BY <3>1 DEF SessionsHold, Quiet
  <2>4. RequestsHold' /\ DeviceHolds' /\ RowIsCurrent' /\ AcksWereApplied'
    BY <2>2 DEF Overlap, RequestsHold, DeviceHolds, RowIsCurrent, AcksWereApplied, Tied,
       Ceiling, Highest, Resolve, Same, rows, deviceRow, cacheRow, agent, history
  <2> QED
    BY <2>1, <2>3, <2>4 DEF Overlap
<1>2. ASSUME NEW s \in Session, Send(s) \/ Work(s)
      PROVE  Overlap'
  <2>1. "page" \in Kinds \ {"checkin"}
    BY ConstantsType
  <2> QED
    BY <1>2, <2>1, DeviceMoves, Begins, Loads, Computes, ReaderCommits, EditorCommits DEF Work
<1>3. ASSUME NEW s \in Session, NEW kind \in Kinds \ {"checkin"}, BeginConsole(s, kind)
      PROVE  Overlap'
  BY <1>3, Begins
<1>4. CASE GiveUp \/ Apply
  BY <1>4, DeviceMoves
<1> QED
  BY <1>1, <1>2, <1>3, <1>4 DEF Next

\* What the runs check.
LEMMA OverlapImplies == Overlap => RowIsCurrent /\ VersionsBind /\ AcksWereApplied
<1> SUFFICES ASSUME Overlap PROVE VersionsBind
  BY DEF Overlap
<1> SUFFICES ASSUME version > disputed PROVE VersionsBind
  BY DEF VersionsBind
<1>1. Ceiling = version
  BY DEF Overlap, TypeOK, Ceiling, Highest
<1> QED
  BY <1>1 DEF Overlap, DeviceHolds, Tied, VersionsBind

=============================================================================
