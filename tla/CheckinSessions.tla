--------------------------- MODULE CheckinSessions ---------------------------
(***************************************************************************)
(* What Convergence.tla takes as one step, taken apart: requests of one    *)
(* device and console actions on it are database sessions that overlap.    *)
(*                                                                         *)
(* The database is Postgres at READ COMMITTED and rows are not locked when *)
(* read.  A session reads the device row when the request is               *)
(* authenticated, the cache row later and the policy later still; it keeps *)
(* what it read (expire_on_commit and autoflush are off); and its commit   *)
(* writes, column by column and by value, only the columns it changed.     *)
(* Writes are made at the commit here: a flush before it shows nothing to  *)
(* others and only orders the commits of those who wrote the same row.     *)
(*                                                                         *)
(* Scheduled deployments, plugin facts and the library are left to         *)
(* Convergence: policy is one revision number, or the breach profile.      *)
(***************************************************************************)
EXTENDS Integers, FiniteSets

CONSTANTS
    Session,    \* slots for database sessions that are open at once
    MaxEdits    \* bound: edits begun

VARIABLES
    \* the committed rows
    rev,        \* the latest published revision of the device's policy
    breached, confirmed, version, acked,    \* the device row
    payload, stale,                         \* its cache row
    \* the device
    held, document, applied, running,
    waiting,    \* the session whose answer the device is waiting for, if any
    \* the sessions
    at,         \* at[s]: how far s has got
    local,      \* local[s]: what s was sent and what it has read
    edits,
    \* for the properties
    crossed,    \* open sessions overtaken by a write they have read past
    clouded,    \* whether the row, unmarked, was last written by such a session
    disputed,   \* the highest version in use when such a session last wrote one
    ever        \* the versions the device ever applied

deviceRow == <<breached, confirmed, version, acked>>
cacheRow == <<payload, stale>>
rows == <<rev, deviceRow, cacheRow>>
agent == <<held, document, applied, running>>
history == <<crossed, clouded, disputed, ever>>
vars == <<rows, agent, waiting, at, local, edits, history>>

Edits == {"publish", "engage", "clear"}
Kinds == {"checkin", "page"} \cup Edits
Stages == {"free", "sent", "begun", "loaded", "resolved"}

\* A resolved payload: a revision of the policy, or the breach profile, which
\* replaces the policy and is never stacked on it.
BreachPayload == [breach |-> TRUE, rev |-> 0]
Payload == {BreachPayload} \cup [breach : {FALSE}, rev : Nat]

ResolveStacked(b) == [breach |-> b, rev |-> rev]     \* mutant: breach as one more policy
Resolve(b) == IF b THEN BreachPayload ELSE [breach |-> FALSE, rev |-> rev]
NoDocument == [breach |-> FALSE, rev |-> 0]

Local == [kind : Kinds, held : Nat, applied : Nat, breached : BOOLEAN,
          confirmed : BOOLEAN, version : Nat, acked : Nat, stale : BOOLEAN,
          payload : Payload, new : Payload]
NoLocal == [kind |-> "page", held |-> 0, applied |-> 0, breached |-> FALSE,
            confirmed |-> FALSE, version |-> 0, acked |-> 0, stale |-> FALSE,
            payload |-> NoDocument, new |-> NoDocument]

Open(s) == at[s] \in {"begun", "loaded", "resolved"}

-----------------------------------------------------------------------------
(* The device                                                              *)

\* The device polls, with what it holds and has applied.
Send(s) ==
    /\ waiting = {}
    /\ at[s] = "free"
    /\ waiting' = {s}
    /\ at' = [at EXCEPT ![s] = "sent"]
    /\ local' = [local EXCEPT ![s] =
                    [NoLocal EXCEPT !.kind = "checkin", !.held = held,
                                    !.applied = applied]]
    /\ UNCHANGED <<rows, agent, edits, history>>

\* It stops waiting; the request and its session live on.
GiveUp ==
    /\ waiting # {}
    /\ waiting' = {}
    /\ UNCHANGED <<rows, agent, at, local, edits, history>>

Apply ==
    /\ applied # held
    /\ applied' = held
    /\ running' = document
    /\ ever' = ever \cup {held}
    /\ UNCHANGED <<rows, held, document, waiting, at, local, edits,
                   crossed, clouded, disputed>>

-----------------------------------------------------------------------------
(* Sessions                                                                *)

LoadDevice(r) ==
    [r EXCEPT !.breached = breached, !.confirmed = confirmed,
              !.version = version, !.acked = acked]

\* authenticated_device reads the device row of a check-in.
BeginCheckin(s) ==
    /\ at[s] = "sent"
    /\ at' = [at EXCEPT ![s] = "begun"]
    /\ local' = [local EXCEPT ![s] = LoadDevice(@)]
    /\ UNCHANGED <<rows, agent, waiting, edits, history>>

\* A console request reads the device row: the device page, which settles the
\* effective policy and commits it, or an edit.
BeginConsole(s, kind) ==
    /\ at[s] = "free"
    /\ kind \in Edits => edits < MaxEdits
    /\ edits' = IF kind \in Edits THEN edits + 1 ELSE edits
    /\ at' = [at EXCEPT ![s] = "begun"]
    /\ local' = [local EXCEPT ![s] = LoadDevice([NoLocal EXCEPT !.kind = kind])]
    /\ UNCHANGED <<rows, agent, waiting, history>>

\* The cache row is read: by get_effective, or by invalidate.
LoadCache(s) ==
    /\ at[s] = "begun"
    /\ at' = [at EXCEPT ![s] =
                 IF stale /\ local[s].kind \notin Edits THEN "loaded" ELSE "resolved"]
    /\ local' = [local EXCEPT ![s].stale = stale, ![s].payload = payload,
                              ![s].new = payload]
    /\ UNCHANGED <<rows, agent, waiting, edits, history>>

\* The row it read is stale, so refresh resolves the policy, with the breach
\* flag of the device row it read first.
Compute(s) ==
    /\ at[s] = "loaded"
    /\ at' = [at EXCEPT ![s] = "resolved"]
    /\ local' = [local EXCEPT ![s].new = Resolve(local[s].breached)]
    /\ UNCHANGED <<rows, agent, waiting, edits, history>>

\* Whether the commit of s writes what others read: an edit, or a row settled.
Writes(s) == local[s].kind \in Edits \/ local[s].stale

\* Whom a write of s overtakes: an edit whoever is open, a row settled the open edits,
\* and one that was itself overtaken whoever is open.
Overtaken(s) ==
    {t \in Session \ {s} :
        /\ Open(t) /\ Writes(s)
        /\ local[s].kind \in Edits \/ local[t].kind \in Edits \/ s \in crossed}

Highest(m, n) == IF m < n THEN n ELSE m

Finish(s) ==
    /\ at' = [at EXCEPT ![s] = "free"]
    /\ local' = [local EXCEPT ![s] = NoLocal]
    /\ crossed' = (crossed \ {s}) \cup Overtaken(s)
    /\ clouded' = IF Writes(s) THEN s \in crossed /\ ~stale' ELSE clouded
    /\ disputed' = IF s \in crossed /\ local[s].new # local[s].payload
                    THEN Highest(version', Highest(version, disputed))
                    ELSE disputed
    /\ UNCHANGED ever

\* The state_version and the acked_state_version a session has in its memory.
VersionKept(r) == r.version     \* mutant: refresh never advances the version
VersionOf(r) == IF r.new # r.payload THEN r.version + 1 ELSE r.version
AckedHeld(r) == IF r.acked < r.held THEN r.held ELSE r.acked     \* mutant: held taken for applied
AckedOf(r) == IF r.acked < r.applied THEN r.applied ELSE r.acked

\* What refresh changed is written; a column that was read as it is now left
\* is not.
WriteSettled(r) ==
    /\ payload' = IF r.new # r.payload THEN r.new ELSE payload
    /\ version' = IF r.new # r.payload THEN VersionOf(r) ELSE version
    /\ stale' = IF r.stale THEN FALSE ELSE stale

\* The device takes the answer if it is still waiting for this one.
TakeAnswer(s) ==
    IF s \in waiting
        THEN /\ waiting' = {}
             /\ held' = VersionOf(local[s])
             /\ document' = IF local[s].held # VersionOf(local[s])
                                THEN local[s].new
                                ELSE document
             /\ UNCHANGED <<applied, running>>
        ELSE UNCHANGED <<agent, waiting>>

\* The check-in's commit: the ack, the settled policy, a confirmed breach.
CommitCheckin(s) ==
    LET r == local[s]
    IN  /\ at[s] = "resolved" /\ r.kind = "checkin"
        /\ acked' = IF AckedOf(r) # r.acked THEN AckedOf(r) ELSE acked
        /\ WriteSettled(r)
        /\ confirmed' = (confirmed \/ (r.breached /\ ~r.confirmed
                                       /\ AckedOf(r) = VersionOf(r)))
        /\ TakeAnswer(s)
        /\ UNCHANGED <<rev, breached, edits>>
        /\ Finish(s)

CommitPage(s) ==
    /\ at[s] = "resolved" /\ local[s].kind = "page"
    /\ WriteSettled(local[s])
    /\ UNCHANGED <<rev, breached, confirmed, acked, agent, waiting, edits>>
    /\ Finish(s)

InvalidateNone(r) == UNCHANGED cacheRow     \* mutant: nobody is told

\* invalidate: marking a row stale that was read stale writes nothing.
Invalidate(r) ==
    /\ stale' = IF r.stale THEN stale ELSE TRUE
    /\ UNCHANGED payload

CommitPublish(s) ==
    /\ at[s] = "resolved" /\ local[s].kind = "publish"
    /\ rev' = rev + 1
    /\ Invalidate(local[s])
    /\ UNCHANGED <<deviceRow, agent, waiting, edits>>
    /\ Finish(s)

\* engage writes a new timestamp, and clears a confirmation it read.
CommitEngage(s) ==
    /\ at[s] = "resolved" /\ local[s].kind = "engage"
    /\ breached' = TRUE
    /\ confirmed' = IF local[s].confirmed THEN FALSE ELSE confirmed
    /\ Invalidate(local[s])
    /\ UNCHANGED <<rev, version, acked, agent, waiting, edits>>
    /\ Finish(s)

CommitClear(s) ==
    /\ at[s] = "resolved" /\ local[s].kind = "clear"
    /\ breached' = IF local[s].breached THEN FALSE ELSE breached
    /\ confirmed' = IF local[s].confirmed THEN FALSE ELSE confirmed
    /\ Invalidate(local[s])
    /\ UNCHANGED <<rev, version, acked, agent, waiting, edits>>
    /\ Finish(s)

-----------------------------------------------------------------------------

Init ==
    /\ rev = 1
    /\ breached = FALSE /\ confirmed = FALSE
    /\ version = 1 /\ acked = 0
    /\ payload = [breach |-> FALSE, rev |-> 1] /\ stale = FALSE
    /\ held = 0 /\ document = NoDocument
    /\ applied = 0 /\ running = NoDocument
    /\ waiting = {}
    /\ at = [s \in Session |-> "free"]
    /\ local = [s \in Session |-> NoLocal]
    /\ edits = 0
    /\ crossed = {} /\ clouded = FALSE
    /\ disputed = 0 /\ ever = {0}

Work(s) ==
    \/ BeginCheckin(s) \/ LoadCache(s) \/ Compute(s)
    \/ CommitCheckin(s) \/ CommitPage(s)
    \/ CommitPublish(s) \/ CommitEngage(s) \/ CommitClear(s)

Next ==
    \/ GiveUp \/ Apply
    \/ \E s \in Session :
          Send(s) \/ Work(s) \/ \E kind \in Kinds \ {"checkin"} : BeginConsole(s, kind)

Spec == Init /\ [][Next]_vars

-----------------------------------------------------------------------------
(* Properties                                                              *)

TypeOK ==
    /\ rev \in Nat
    /\ breached \in BOOLEAN /\ confirmed \in BOOLEAN
    /\ version \in Nat /\ acked \in Nat
    /\ payload \in Payload /\ stale \in BOOLEAN
    /\ held \in Nat /\ applied \in Nat
    /\ document \in Payload /\ running \in Payload
    /\ waiting \in SUBSET Session
    /\ at \in [Session -> Stages]
    /\ local \in [Session -> Local]
    /\ edits \in Nat
    /\ crossed \in SUBSET {s \in Session : Open(s)} /\ clouded \in BOOLEAN
    /\ disputed \in Nat /\ ever \in SUBSET Nat

\* A row that would be served as it is, is what a recompute would give, however many
\* sessions overlap: only a session that an edit crossed can leave it otherwise, and the
\* next one to mark or settle it that none crossed puts it right ("invalidated on any
\* input change", models.EffectivePolicyCache).
RowIsCurrent == ~stale /\ ~clouded => payload = Resolve(breached)

\* A device that holds, or has applied, the server's version has the server's payload,
\* and never a later version, whatever sessions overlapped: a session that an edit
\* crossed can break this for versions in use by then, and for none after them
\* (checkin, effective_policy.refresh).
VersionsBind ==
    version > disputed =>
        /\ held <= version /\ applied <= version
        /\ held = version => document = payload
        /\ applied = version => running = payload

\* Whatever late and overlapping check-ins and edits write, the server believes applied
\* only what the device applied at some time (_record_convergence).
AcksWereApplied == acked \in ever

\* Without the exception: an unmarked row is what a recompute would give
\* ("invalidated on any input change").
RowFollowsEdits == ~stale => payload = Resolve(breached)

\* Without the exception: a device that holds the server's version, and so is told
\* that nothing changed, has the server's payload.
VersionNamesPayload == held = version => document = payload

\* A breach is confirmed only while the device runs the breach policy: "while
\* breached that state is the breach policy" (checkin); with no edit lost before.
ConfirmedIsEarned ==
    [][(confirmed' /\ ~confirmed /\ ~clouded) => running.breach]_vars

=============================================================================
