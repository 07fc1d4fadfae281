------------------------------ MODULE AuditChain ------------------------------
(***************************************************************************)
(* The audit log: a hash chain that several requests append to, a thread   *)
(* prunes from the start, and a page verifies.                             *)
(*                                                                         *)
(* Each append and each prune is a transaction of its own under one        *)
(* advisory lock; statements see what was committed when they began.  The  *)
(* page takes no lock: it reads the last recorded prune, then the rows.    *)
(* A hash is what it covers, so two rows have one hash only if they are    *)
(* the same row.  The wall clock may be set back.                          *)
(***************************************************************************)
EXTENDS Integers, FiniteSets, FiniteSetsExt

CONSTANTS
    Recorder,   \* worker threads that record a request each
    Keep,       \* the retention windows an operator may choose; 0 keeps it all
    MaxRows,    \* bound: rows ever written
    MaxWall     \* bound: the last instant of the wall clock

VARIABLES
    log,        \* audit_event: the committed rows
    holder,     \* who holds the advisory lock
    stage,      \* stage[r]: how far the recorder has come
    tail,       \* tail[r]: the seq and hash it read
    window,     \* audit.retention_days
    pruning,    \* the prune in progress: stage and window read
    checking,   \* the verification in progress
    wall,       \* the wall clock
    \* what happened, for the properties
    written,    \* rows as they were committed
    recorded,   \* ids of the entries whose recorder finished
    doctored    \* whether the table was edited behind the program's back

vars == <<log, holder, stage, tail, window, pruning, checking, wall, written,
          recorded, doctored>>

Pruner == "pruner"
Nobody == "nobody"
Genesis == <<>>
Wall == 0 .. MaxWall

\* A row has an id, a seq, a time `at`, `prunedTo` (the target of a prune's row,
\* else 0), a text, prev and hash.
Hash(r) == <<r.id, r.seq, r.at, r.prunedTo, r.text, r.prev>>

Newest(rows) == CHOOSE r \in rows : \A q \in rows : q.seq <= r.seq
Oldest(rows) == CHOOSE r \in rows : \A q \in rows : r.seq <= q.seq
Unread == [seq |-> 0, hash |-> Genesis]
LastOf(rows) == IF rows = {} THEN [seq |-> 0, hash |-> Genesis]
                ELSE [seq |-> Newest(rows).seq, hash |-> Newest(rows).hash]

Init ==
    /\ log = {} /\ written = {} /\ recorded = {} /\ doctored = FALSE
    /\ holder = Nobody
    /\ stage = [r \in Recorder |-> "idle"]
    /\ tail = [r \in Recorder |-> Unread]
    /\ window = Max(Keep)
    /\ pruning = [stage |-> "idle", window |-> 0]
    /\ checking = [stage |-> "idle", expected |-> 1, disturbed |-> FALSE, ok |-> TRUE]
    /\ wall = 0

-----------------------------------------------------------------------------
(* Appending                                                               *)

FreshId == Cardinality(written) + 1

RowAfter(l, prunedTo) ==
    LET r == [id |-> FreshId, seq |-> l.seq + 1, at |-> wall, prunedTo |-> prunedTo,
              text |-> "said", prev |-> l.hash]
    IN  [id |-> r.id, seq |-> r.seq, at |-> r.at, prunedTo |-> r.prunedTo,
         text |-> r.text, prev |-> r.prev, hash |-> Hash(r)]

LockAsRead(r) ==      \* mutant: the lock is not taken
    /\ holder' = holder
Lock(r) ==
    /\ holder = Nobody
    /\ holder' = r

BeginRecord(r) ==
    /\ stage[r] = "idle"
    /\ Cardinality(written) + Cardinality({q \in Recorder : stage[q] # "idle"}) < MaxRows
    /\ Lock(r)
    /\ stage' = [stage EXCEPT ![r] = "locked"]
    /\ UNCHANGED <<log, tail, window, pruning, checking, wall, written, recorded, doctored>>

ReadLast(r) ==
    /\ stage[r] = "locked"
    /\ tail' = [tail EXCEPT ![r] = LastOf(log)]
    /\ stage' = [stage EXCEPT ![r] = "read"]
    /\ UNCHANGED <<log, holder, window, pruning, checking, wall, written, recorded, doctored>>

Release(r) == holder' = IF holder = r THEN Nobody ELSE holder

\* `seq` is unique: a row that takes another's place is refused, and the
\* middleware logs the failure and lets the request succeed.
CommitRecord(r) ==
    LET row == RowAfter(tail[r], 0)
    IN  /\ stage[r] = "read"
        /\ \/ /\ \A q \in log : q.seq # row.seq
              /\ log' = log \cup {row} /\ written' = written \cup {row}
           \/ /\ \E q \in log : q.seq = row.seq
              /\ UNCHANGED <<log, written>>
        /\ recorded' = recorded \cup {row.id}
        /\ stage' = [stage EXCEPT ![r] = "idle"]
        /\ tail' = [tail EXCEPT ![r] = Unread]
        /\ Release(r)
        /\ UNCHANGED <<window, pruning, checking, wall, doctored>>

\* The database goes away: the transaction and its lock go with it.
FailRecord(r) ==
    /\ stage[r] \in {"locked", "read"}
    /\ stage' = [stage EXCEPT ![r] = "idle"]
    /\ tail' = [tail EXCEPT ![r] = Unread]
    /\ Release(r)
    /\ UNCHANGED <<log, window, pruning, checking, wall, written, recorded, doctored>>

-----------------------------------------------------------------------------
(* Retention                                                               *)

SetDays(d) ==
    /\ window # d
    /\ window' = d
    /\ UNCHANGED <<log, holder, stage, tail, pruning, checking, wall, written, recorded,
                   doctored>>

BeginPrune ==
    /\ pruning.stage = "idle" /\ window # 0
    /\ pruning' = [stage |-> "windowed", window |-> window]
    /\ UNCHANGED <<log, holder, stage, tail, window, checking, wall, written, recorded,
                   doctored>>

LockPrune ==
    /\ pruning.stage = "windowed"
    /\ Lock(Pruner)
    /\ pruning' = [pruning EXCEPT !.stage = "locked"]
    /\ UNCHANGED <<log, stage, tail, window, checking, wall, written, recorded, doctored>>

Old == {r \in log : r.at < wall - pruning.window}

\* The last entry a prune removes: everything up to the newest old one, but
\* never the newest of all.
PruneUpTo == IF Old = {} THEN 0 ELSE Min({Newest(Old).seq, Newest(log).seq - 1})

CommitPrune ==
    LET left == {r \in log : r.seq > PruneUpTo}
        row == RowAfter(LastOf(left), PruneUpTo)
    IN  /\ pruning.stage = "locked"
        /\ \/ /\ PruneUpTo < 1
              /\ UNCHANGED <<log, written, checking>>
           \/ /\ PruneUpTo >= 1
              /\ Cardinality(written) < MaxRows
              /\ log' = left \cup {row} /\ written' = written \cup {row}
              /\ checking' = [checking EXCEPT !.disturbed = checking.stage = "begun"]
        /\ pruning' = [stage |-> "idle", window |-> 0]
        /\ Release(Pruner)
        /\ UNCHANGED <<stage, tail, window, wall, recorded, doctored>>

-----------------------------------------------------------------------------
(* Verification                                                            *)

Prunes == {r \in log : r.prunedTo # 0}

\* mutant: any surviving prune explains the gap, not the last
FirstPruned == IF Prunes = {} THEN 1 ELSE Oldest(Prunes).prunedTo + 1
ExpectedFirst == IF Prunes = {} THEN 1 ELSE Newest(Prunes).prunedTo + 1

BeginVerify ==
    /\ checking.stage = "idle"
    /\ checking' = [stage |-> "begun", expected |-> ExpectedFirst, disturbed |-> FALSE,
                    ok |-> TRUE]
    /\ UNCHANGED <<log, holder, stage, tail, window, pruning, wall, written, recorded,
                   doctored>>

Before(r) == Newest({q \in log : q.seq < r.seq})
RowHolds(r) ==
    /\ IF r = Oldest(log) THEN r.seq = checking.expected ELSE r.prev = Before(r).hash
    /\ Hash(r) = r.hash

Verify ==
    /\ checking.stage = "begun"
    /\ checking' = [stage |-> "idle", expected |-> 1, disturbed |-> FALSE,
                    ok |-> \A r \in log : RowHolds(r)]
    /\ UNCHANGED <<log, holder, stage, tail, window, pruning, wall, written, recorded,
                   doctored>>

-----------------------------------------------------------------------------
(* What the chain is there to show: a row changed, or one before another   *)
(* removed, in the database itself (external).                             *)

Doctor ==
    /\ ~doctored /\ doctored' = TRUE
    /\ \E r \in log :
          \/ log' = (log \ {r}) \cup {[r EXCEPT !.text = "doctored"]}
          \/ r # Newest(log) /\ log' = log \ {r}
    /\ UNCHANGED <<holder, stage, tail, window, pruning, checking, wall, written, recorded>>

SetClock(t) ==
    /\ t # wall /\ wall' = t
    /\ UNCHANGED <<log, holder, stage, tail, window, pruning, checking, written, recorded,
                   doctored>>

Next ==
    \/ \E r \in Recorder : \/ BeginRecord(r) \/ ReadLast(r) \/ CommitRecord(r)
                           \/ FailRecord(r)
    \/ \E d \in Keep : SetDays(d)
    \/ BeginPrune \/ LockPrune \/ CommitPrune
    \/ BeginVerify \/ Verify
    \/ Doctor
    \/ \E t \in Wall : SetClock(t)

Spec == Init /\ [][Next]_vars

-----------------------------------------------------------------------------
(* Properties                                                              *)

\* What the log would be had nobody touched the table: the rows written after
\* the last one a prune removed.
PrunedTo == Max({0} \cup {r.prunedTo : r \in written})
Untouched == log = {r \in written : r.seq > PrunedTo}

\* A verification says the chain holds exactly when no row that remains was
\* changed and none is missing but by a prune.  One during which a prune
\* committed is excepted: it compares rows with the prune before (audit.verify).
VerdictIsTrue == [][Verify /\ ~checking.disturbed => (checking'.ok <=> Untouched)]_vars

\* Every entry whose recorder came to its end is in the log or was removed by a
\* prune that says so, unless the table was touched: appends neither collide
\* nor fork, and nothing is chained to a row that a prune takes away
\* (audit.record, audit_retention.prune).
NothingIsLost ==
    LET to == PrunedTo
    IN  ~doctored => \A i \in recorded : \E r \in written :
                        /\ r.id = i
                        /\ r \in log \/ r.seq <= to
=============================================================================

