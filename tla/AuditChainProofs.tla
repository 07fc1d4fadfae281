---------------------------- MODULE AuditChainProofs ----------------------------
(***************************************************************************)
(* The inductive invariant of AuditChain, for any number of recorders,     *)
(* rows and instants.  ServicesProofs concludes from it.                   *)
(***************************************************************************)
EXTENDS AuditChain, FiniteSetTheorems, NaturalsInduction, WellFoundedInduction, TLAPS

\* What the constants are: nobody and the pruner record nothing.
ConstantsFit ==
    /\ Pruner \notin Recorder /\ Nobody \notin Recorder
    /\ Keep \subseteq Nat /\ \E d \in Keep : \A k \in Keep : k <= d
    /\ MaxWall \in Nat

Count == Cardinality(written)

\* A record with the fields of a row.
IsRow(r) ==
    r = [id |-> r.id, seq |-> r.seq, at |-> r.at, prunedTo |-> r.prunedTo, text |-> r.text,
         prev |-> r.prev, hash |-> r.hash]

\* The rows ever written are numbered without a gap, each chained to the one before,
\* and no prune claims less than the ones before.
Chained ==
    /\ IsFiniteSet(written)
    /\ \A r \in written :
          /\ IsRow(r) /\ r.id = r.seq /\ r.seq \in 1 .. Count /\ r.prunedTo \in 0 .. r.seq - 1
          /\ r.text = "said" /\ r.hash = Hash(r)
    /\ \A k \in 1 .. Count : \E r \in written : r.seq = k
    /\ \A r, q \in written :
          /\ r.seq = q.seq => r = q
          /\ r.seq = q.seq + 1 => r.prev = q.hash
          /\ q.seq <= r.seq /\ r.prunedTo # 0 => q.prunedTo <= r.prunedTo

Doctored(r) == [r EXCEPT !.text = "doctored"]

\* The table: rows that were written and not pruned, one of them perhaps changed, with
\* the newest always there.
Table ==
    /\ \A r \in log : /\ r \in written \/ \E w \in written : r = Doctored(w)
                      /\ r.seq > PrunedTo
    /\ \A r, q \in log : r.seq = q.seq => r = q
    /\ written # {} => \E r \in log : r.seq = Count
    /\ doctored \in BOOLEAN /\ (~doctored => Untouched)

\* Who has read the tail holds the lock, and the tail is still what it read.
Locked ==
    /\ holder \in Recorder \cup {Pruner, Nobody}
    /\ stage \in [Recorder -> {"idle", "locked", "read"}]
    /\ \A r \in Recorder : stage[r] # "idle" <=> holder = r
    /\ pruning \in [stage : {"idle", "windowed", "locked"}, window : Nat]
    /\ pruning.stage = "locked" <=> holder = Pruner
    /\ DOMAIN tail = Recorder
    /\ \A r \in Recorder : stage[r] = "read" => tail[r] = LastOf(log)

\* Whoever finished recording wrote a row.
Kept == \A i \in recorded : \E r \in written : r.id = i

\* What a verification in progress expects explains no gap but the last prune's.
Explained ==
    /\ checking \in [stage : {"idle", "begun"}, expected : Nat, disturbed : BOOLEAN,
                     ok : BOOLEAN]
    /\ checking.stage = "begun" /\ ~checking.disturbed =>
          /\ checking.expected <= PrunedTo + 1
          /\ Untouched => checking.expected = PrunedTo + 1

Unbroken == window \in Nat /\ wall \in Nat /\ Chained /\ Table /\ Locked /\ Kept /\ Explained

-----------------------------------------------------------------------------
(* Extremes of sets of numbers and of rows                                 *)

LEMMA LeastElement ==
    ASSUME NEW S \in SUBSET Nat, S # {}
    PROVE  \E s \in S : \A r \in S : s <= r
<1>1. PICK s \in S : \A r \in S : <<r, s>> \notin OpToRel(<, Nat)
  BY WFMin, NatLessThanWellFounded, Zenon
<1>2. \A r \in S : ~ (r < s)
  BY <1>1, Zenon DEF OpToRel
<1> QED
  BY <1>2

LEMMA GreatestElement ==
    ASSUME NEW n \in Nat, NEW S \in SUBSET (0 .. n), S # {}
    PROVE  \E s \in S : \A r \in S : r <= s
<1> DEFINE T == {n - s : s \in S}
<1>1. T \in SUBSET Nat /\ T # {}
  <2>1. \A s \in S : s \in 0 .. n /\ n - s \in Nat
    OBVIOUS
  <2> QED
    BY <2>1
<1>2. PICK t \in T : \A r \in T : t <= r
  BY <1>1, LeastElement
<1>3. PICK s \in S : t = n - s
  OBVIOUS
<1>4. \A r \in S : r <= s
  BY <1>2, <1>3
<1> QED
  BY <1>4

LEMMA NewestIs ==
    ASSUME NEW n \in Nat, NEW S, S # {}, \A r \in S : r.seq \in 0 .. n
    PROVE  Newest(S) \in S /\ \A q \in S : q.seq <= Newest(S).seq
<1>1. {r.seq : r \in S} \in SUBSET (0 .. n) /\ {r.seq : r \in S} # {}
  OBVIOUS
<1>2. \E r \in S : \A q \in S : q.seq <= r.seq
  BY <1>1, GreatestElement
<1> QED
  BY <1>2 DEF Newest

LEMMA OldestIs ==
    ASSUME NEW S, S # {}, \A r \in S : r.seq \in Nat
    PROVE  Oldest(S) \in S /\ \A q \in S : Oldest(S).seq <= q.seq
<1>1. {r.seq : r \in S} \in SUBSET Nat /\ {r.seq : r \in S} # {}
  OBVIOUS
<1>2. PICK m \in {r.seq : r \in S} : \A k \in {r.seq : r \in S} : m <= k
  BY <1>1, LeastElement
<1>3. \E r \in S : \A q \in S : r.seq <= q.seq
  BY <1>2
<1> QED
  BY <1>3 DEF Oldest

LEMMA CountType ==
    ASSUME Chained
    PROVE  Count \in Nat /\ (written = {} <=> Count = 0)
  BY FS_CardinalityType, FS_EmptySet DEF Chained, Count

\* The greatest claim of a set of rows.
Claimed(W) == Max({0} \cup {r.prunedTo : r \in W})

LEMMA GreatestClaim ==
    ASSUME NEW n \in Nat, NEW W, \A r \in W : r.prunedTo \in 0 .. n
    PROVE  /\ Claimed(W) \in Nat /\ \A r \in W : r.prunedTo <= Claimed(W)
           /\ Claimed(W) = 0 \/ \E r \in W : Claimed(W) = r.prunedTo
<1> DEFINE S == {0} \cup {r.prunedTo : r \in W}
           m == Claimed(W)
<1>1. S \in SUBSET (0 .. n) /\ S # {}
  OBVIOUS
<1>2. \E s \in S : \A r \in S : s >= r
  BY <1>1, GreatestElement
<1>3. m \in S /\ \A r \in S : m >= r
  BY <1>2 DEF Max, Claimed
<1>4. \A r \in W : r.prunedTo \in S /\ r.prunedTo \in Nat
  OBVIOUS
<1>5. m = 0 \/ \E r \in W : m = r.prunedTo
  BY <1>3
<1> HIDE DEF S, m
<1>6. m \in Nat
  BY <1>1, <1>3
<1>7. \A r \in W : r.prunedTo <= m
  BY <1>3, <1>4, <1>6
<1> QED
  BY <1>5, <1>6, <1>7 DEF m

\* What was pruned is what the greatest claim says.
LEMMA PrunedToIs ==
    ASSUME Chained
    PROVE  /\ PrunedTo \in Nat /\ (written # {} => PrunedTo < Count)
           /\ \A r \in written : r.prunedTo <= PrunedTo
           /\ PrunedTo = 0 \/ \E r \in written : PrunedTo = r.prunedTo
<1>1. Count \in Nat /\ \A r \in written : r.prunedTo \in 0 .. Count /\ r.prunedTo < Count
  BY CountType DEF Chained
<1>2. /\ PrunedTo \in Nat /\ \A r \in written : r.prunedTo <= PrunedTo
      /\ PrunedTo = 0 \/ \E r \in written : PrunedTo = r.prunedTo
  <2>1. PrunedTo = Claimed(written)
    BY DEF PrunedTo, Claimed
  <2> QED
    BY <1>1, <2>1, GreatestClaim
<1> QED
  BY <1>1, <1>2, CountType

-----------------------------------------------------------------------------
(* Rows                                                                    *)

LEMMA DoctoredRow ==
    ASSUME NEW r, IsRow(r)
    PROVE  /\ Doctored(r).text = "doctored" /\ Doctored(r).seq = r.seq /\ Doctored(r).id = r.id
           /\ Doctored(r).at = r.at /\ Doctored(r).prunedTo = r.prunedTo
           /\ Doctored(r).prev = r.prev /\ Doctored(r).hash = r.hash
<1>1. Doctored(r) = [id |-> r.id, seq |-> r.seq, at |-> r.at, prunedTo |-> r.prunedTo,
                     text |-> "doctored", prev |-> r.prev, hash |-> r.hash]
  BY DEF IsRow, Doctored
<1> QED
  BY <1>1

\* A row of the table has all but perhaps its text of a row that was written.
LEMMA LogRow ==
    ASSUME Chained, Table, NEW r \in log
    PROVE  /\ r.seq \in 1 .. Count /\ r.prunedTo \in 0 .. r.seq - 1 /\ r.prunedTo <= PrunedTo
           /\ \E w \in written : /\ w.seq = r.seq /\ w.hash = r.hash /\ w.prev = r.prev
                                 /\ w.prunedTo = r.prunedTo
                                 /\ r = w \/ r = Doctored(w)
<1>1. CASE r \in written
  BY <1>1, PrunedToIs DEF Chained
<1>2. CASE \E w \in written : r = Doctored(w)
  <2>1. PICK w \in written : r = Doctored(w)
    BY <1>2
  <2>2. IsRow(w)
    BY DEF Chained
  <2> QED
    BY <2>1, <2>2, DoctoredRow, PrunedToIs DEF Chained
<1> QED
  BY <1>1, <1>2 DEF Table

\* The tail of what is left of the table, if the newest is: the last row written.
LEMMA TailIs ==
    ASSUME Chained, Table, NEW left \in SUBSET log,
           \A r \in log : r.seq = Count => r \in left
    PROVE  /\ LastOf(left).seq = Count
           /\ \A r \in written : r.seq = Count => r.hash = LastOf(left).hash
           /\ written # {} => Newest(left) \in left /\ Newest(left).seq = Count
<1>1. Count \in Nat /\ \A r \in left : r.seq \in 0 .. Count
  BY CountType, LogRow
<1>2. CASE written = {}
  <2>1. log = {}
    BY <1>2 DEF Table
  <2> QED
    BY <1>2, <2>1, CountType DEF LastOf
<1>3. CASE written # {}
  <2>1. PICK r \in left : r.seq = Count
    BY <1>3 DEF Table
  <2>2. Newest(left) \in left /\ Newest(left).seq = Count
    BY <1>1, <2>1, NewestIs
  <2>3. \A w \in written : w.seq = Count => w.hash = Newest(left).hash
    BY <2>2, LogRow DEF Chained
  <2> QED
    BY <2>1, <2>2, <2>3 DEF LastOf
<1> QED
  BY <1>2, <1>3

\* A row chained to the last one written, under the lock, keeps the chain.
LEMMA AppendChains ==
    ASSUME Chained, wall \in Nat, NEW l, l.seq = Count,
           \A r \in written : r.seq = Count => r.hash = l.hash,
           NEW upTo \in 0 .. Count, upTo # 0 => PrunedTo <= upTo,
           written' = written \cup {RowAfter(l, upTo)}
    PROVE  /\ Chained' /\ Count' = Count + 1
           /\ RowAfter(l, upTo).seq = Count + 1 /\ RowAfter(l, upTo).id = Count + 1
           /\ RowAfter(l, upTo).prunedTo = upTo
           /\ PrunedTo' = IF upTo = 0 THEN PrunedTo ELSE upTo
<1> DEFINE row == RowAfter(l, upTo)
<1>1. Count \in Nat
  BY CountType
<1>2. /\ IsRow(row) /\ row.seq = Count + 1 /\ row.id = Count + 1 /\ row.prunedTo = upTo
      /\ row.text = "said" /\ row.prev = l.hash /\ row.hash = Hash(row)
  BY DEF RowAfter, IsRow, FreshId, Count, Hash
<1> HIDE DEF row
<1>3. \A r \in written : r.seq \in 1 .. Count
  BY DEF Chained
<1>4. row \notin written
  BY <1>1, <1>2, <1>3
<1>5. IsFiniteSet(written') /\ Count' = Count + 1
  BY <1>4, FS_AddElement DEF Chained, Count, row
<1>6. \A r \in written' : r \in written \/ r = row
  BY DEF row
<1>7. \A r \in written : r.prunedTo <= PrunedTo /\ r.prunedTo \in Nat
  BY <1>3, PrunedToIs DEF Chained
<1>8. Chained'
  <2>1. ASSUME NEW r \in written'
        PROVE  /\ IsRow(r) /\ r.id = r.seq /\ r.seq \in 1 .. Count'
               /\ r.prunedTo \in 0 .. r.seq - 1 /\ r.text = "said" /\ r.hash = Hash(r)
    BY <1>1, <1>2, <1>5, <1>6, <2>1 DEF Chained
  <2>2. ASSUME NEW k \in 1 .. Count'
        PROVE  \E r \in written' : r.seq = k
    <3>1. k \in 1 .. Count \/ k = Count + 1
      BY <1>1, <1>5
    <3> QED
      BY <1>2, <3>1 DEF Chained, row
  <2>3. ASSUME NEW r \in written', NEW q \in written'
        PROVE  /\ r.seq = q.seq => r = q
               /\ r.seq = q.seq + 1 => r.prev = q.hash
               /\ q.seq <= r.seq /\ r.prunedTo # 0 => q.prunedTo <= r.prunedTo
    <3>1. CASE r \in written /\ q \in written
      BY <3>1 DEF Chained
    <3>2. CASE r = row /\ q \in written
      <4>1. r.seq = q.seq + 1 => q.seq = Count
        BY <1>1, <1>2, <1>3, <3>2
      <4>2. PrunedTo \in Nat
        BY PrunedToIs
      <4>3. r.prunedTo # 0 => q.prunedTo <= r.prunedTo
        BY <1>2, <1>7, <3>2, <4>2
      <4> QED
        BY <1>1, <1>2, <1>3, <3>2, <4>1, <4>3
    <3>3. CASE r \in written /\ q = row
      BY <1>1, <1>2, <1>3, <3>3
    <3>4. CASE r = row /\ q = row
      BY <1>1, <1>2, <3>4
    <3> QED
      BY <1>6, <3>1, <3>2, <3>3, <3>4
  <2> HIDE DEF Chained
  <2> QED
    BY <1>5, <2>1, <2>2, <2>3 DEF Chained
<1>9. PrunedTo' = IF upTo = 0 THEN PrunedTo ELSE upTo
  <2>1. /\ PrunedTo' \in Nat /\ \A r \in written' : r.prunedTo <= PrunedTo'
        /\ PrunedTo' = 0 \/ \E r \in written' : PrunedTo' = r.prunedTo
    <3>1. \A r \in written' : r.prunedTo \in 0 .. Count'
      BY <1>1, <1>2, <1>5, <1>6 DEF Chained
    <3> QED
      <4>1. PrunedTo' = Claimed(written') /\ Count' \in Nat
        BY <1>1, <1>5 DEF PrunedTo, Claimed
      <4> QED
        BY <3>1, <4>1, GreatestClaim
  <2>2. row \in written' /\ written \subseteq written'
    BY DEF row
  <2>3. upTo <= PrunedTo' /\ (PrunedTo = 0 \/ PrunedTo <= PrunedTo')
    BY <1>2, <2>1, <2>2, PrunedToIs
  <2>4. PrunedTo' = 0 \/ PrunedTo' = upTo \/ PrunedTo' <= PrunedTo
    BY <1>2, <1>6, <1>7, <2>1
  <2> QED
    BY <2>1, <2>3, <2>4, PrunedToIs
<1> QED
  BY <1>2, <1>5, <1>8, <1>9 DEF row

LEMMA NewestUnique ==
    ASSUME NEW S, NEW x \in S, x.seq \in Nat,
           \A r \in S : r.seq \in Nat /\ r.seq <= x.seq /\ (r.seq = x.seq => r = x)
    PROVE  Newest(S) = x
<1>1. \E r \in S : \A q \in S : q.seq <= r.seq
  OBVIOUS
<1>2. Newest(S) \in S /\ \A q \in S : q.seq <= Newest(S).seq
  BY <1>1 DEF Newest
<1>3. Newest(S).seq = x.seq
  BY <1>2
<1> QED
  BY <1>2, <1>3

-----------------------------------------------------------------------------
(* The invariant, step by step                                             *)

LEMMA InitUnbroken == ConstantsFit /\ Init => Unbroken
<1> SUFFICES ASSUME ConstantsFit, Init PROVE Unbroken
  OBVIOUS
<1>1. Chained
  BY FS_EmptySet DEF Init, Chained, Count
<1>2. Table
  BY DEF Init, Table, Untouched
<1>3. Locked
  BY DEF ConstantsFit, Init, Locked, Pruner, Nobody
<1>4. Kept /\ Explained
  BY DEF Init, Kept, Explained
<1>5. window \in Nat
  BY DEF Init, Max, ConstantsFit
<1>6. wall \in Nat
  BY DEF Init
<1> QED
  BY <1>1, <1>2, <1>3, <1>4, <1>5, <1>6 DEF Unbroken

\* An entry is committed after the last row, whoever records beside it.
LEMMA AppendIsSafe ==
    ASSUME ConstantsFit, Unbroken, NEW r \in Recorder, CommitRecord(r)
    PROVE  Unbroken'
<1> DEFINE row == RowAfter(tail[r], 0)
<1>1. /\ stage[r] = "read" /\ holder = r /\ tail[r] = LastOf(log)
      /\ Chained /\ Table
  BY DEF CommitRecord, Unbroken, Locked
<1>2. /\ tail[r].seq = Count /\ Count \in Nat /\ PrunedTo \in Nat /\ PrunedTo <= Count
      /\ \A w \in written : w.seq = Count => w.hash = tail[r].hash
  <2>1. written = {} => PrunedTo = 0
    BY <1>1, PrunedToIs
  <2> QED
    BY <1>1, <2>1, TailIs, CountType, PrunedToIs
<1>3. row.seq = Count + 1 /\ row.id = Count + 1
  BY <1>2 DEF RowAfter, FreshId, Count
<1>4. \A q \in log : q.seq \in 1 .. Count /\ q.seq # row.seq
  BY <1>1, <1>2, <1>3, LogRow
<1>5. /\ log' = log \cup {row} /\ written' = written \cup {row}
      /\ recorded' = recorded \cup {row.id}
      /\ stage' = [stage EXCEPT ![r] = "idle"] /\ tail' = [tail EXCEPT ![r] = Unread]
      /\ holder' = Nobody
      /\ UNCHANGED <<window, pruning, checking, wall, doctored>>
  BY <1>1, <1>4 DEF CommitRecord, Release
<1>6. /\ Chained' /\ Count' = Count + 1 /\ PrunedTo' = PrunedTo
  BY <1>1, <1>2, <1>5, AppendChains DEF Unbroken
<1> HIDE DEF row
<1>7. row \notin log /\ row \notin written /\ \A w \in written : w.seq \in 1 .. Count
  BY <1>2, <1>3, <1>4 DEF Unbroken, Chained
<1>8. Untouched' <=> Untouched
  <2>1. {w \in written' : w.seq > PrunedTo} = {w \in written : w.seq > PrunedTo} \cup {row}
    BY <1>2, <1>3, <1>5
  <2> QED
    BY <1>5, <1>6, <1>7, <2>1 DEF Untouched
<1>9. Table'
  <2>1. ASSUME NEW q \in log'
        PROVE  /\ q \in written' \/ \E w \in written' : q = Doctored(w)
               /\ q.seq > PrunedTo'
    BY <1>1, <1>2, <1>3, <1>5, <1>6, <2>1 DEF Table
  <2>2. ASSUME NEW q \in log', NEW p \in log', q.seq = p.seq
        PROVE  q = p
    BY <1>1, <1>4, <1>5, <2>2 DEF Table
  <2>3. \E q \in log' : q.seq = Count'
    BY <1>3, <1>5, <1>6
  <2> QED
    BY <1>1, <1>5, <1>8, <2>1, <2>2, <2>3 DEF Table
<1>10. Locked'
  BY <1>1, <1>5 DEF ConstantsFit, Unbroken, Locked, Pruner, Nobody
<1>11. Kept' /\ Explained'
  BY <1>5, <1>6, <1>8 DEF Unbroken, Kept, Explained
<1> QED
  BY <1>5, <1>6, <1>9, <1>10, <1>11 DEF Unbroken

\* A prune takes away rows at the start, never the newest, and none that were there no
\* longer.
LEMMA PruneUpToIs ==
    ASSUME Chained, Table, PruneUpTo >= 1
    PROVE  PruneUpTo \in 1 .. Count - 1 /\ PrunedTo <= PruneUpTo
<1>1. Old # {} /\ Old \subseteq log /\ log # {}
  BY DEF PruneUpTo, Old
<1>2. written # {} /\ Count \in Nat /\ \A q \in log : q.seq \in 1 .. Count /\ q.seq > PrunedTo
  BY <1>1, LogRow, CountType DEF Table
<1>3. Newest(Old) \in Old
  BY <1>1, <1>2, NewestIs
<1>4. Newest(log).seq = Count
  BY <1>2, TailIs
<1> DEFINE a == Newest(Old).seq
           b == Count - 1
<1>5. a \in 1 .. Count /\ b \in Int /\ PruneUpTo = Min({a, b})
  BY <1>1, <1>2, <1>3, <1>4 DEF PruneUpTo
<1>6. a > PrunedTo /\ b >= PrunedTo
  BY <1>1, <1>2, <1>3, PrunedToIs
<1> HIDE DEF a, b
<1>7. \E x \in {a, b} : \A y \in {a, b} : x <= y
  BY <1>5
<1>8. Min({a, b}) \in {a, b} /\ \A y \in {a, b} : Min({a, b}) <= y
  BY <1>7 DEF Min
<1> QED
  BY <1>2, <1>5, <1>6, <1>8, PrunedToIs DEF b

LEMMA PruneIsSafe ==
    ASSUME ConstantsFit, Unbroken, CommitPrune
    PROVE  Unbroken'
<1> DEFINE left == {q \in log : q.seq > PruneUpTo}
           row == RowAfter(LastOf(left), PruneUpTo)
<1>1. /\ pruning.stage = "locked" /\ holder = Pruner /\ Chained /\ Table
      /\ \A q \in Recorder : stage[q] = "idle"
  BY DEF CommitPrune, Unbroken, Locked, ConstantsFit
<1>2. /\ pruning' = [stage |-> "idle", window |-> 0] /\ holder' = Nobody
      /\ UNCHANGED <<stage, tail, window, wall, recorded, doctored>>
  BY <1>1 DEF CommitPrune, Release
<1>3. Locked'
  BY <1>1, <1>2 DEF Unbroken, Locked, ConstantsFit, Pruner, Nobody
<1>4. CASE UNCHANGED <<log, written, checking>>
  BY <1>2, <1>3, <1>4 DEF Unbroken, Chained, Table, Kept, Explained, Untouched, PrunedTo, Count
<1>5. CASE ~UNCHANGED <<log, written, checking>>
  <2>1. /\ PruneUpTo >= 1
        /\ log' = left \cup {row} /\ written' = written \cup {row}
        /\ checking' = [checking EXCEPT !.disturbed = checking.stage = "begun"]
    BY <1>5 DEF CommitPrune
  <2>2. /\ PruneUpTo \in 1 .. Count - 1 /\ PrunedTo <= PruneUpTo /\ Count \in Nat
        /\ PrunedTo \in Nat
    BY <1>1, <2>1, PruneUpToIs, CountType, PrunedToIs
  <2>3. /\ left \in SUBSET log /\ \A q \in log : q.seq = Count => q \in left
    BY <2>2
  <2>4. /\ LastOf(left).seq = Count
        /\ \A w \in written : w.seq = Count => w.hash = LastOf(left).hash
    BY <1>1, <2>3, TailIs
  <2>5. /\ Chained' /\ Count' = Count + 1 /\ PrunedTo' = PruneUpTo
        /\ row.seq = Count + 1
    <3>1. PruneUpTo \in 0 .. Count /\ PruneUpTo # 0 /\ wall \in Nat
      BY <2>2 DEF Unbroken
    <3> QED
      BY <1>1, <2>1, <2>2, <2>4, <3>1, AppendChains
  <2> HIDE DEF row
  <2>6. \A q \in log : q.seq \in 1 .. Count
    BY <1>1, LogRow
  <2>7. Table'
    <3>1. ASSUME NEW q \in log'
          PROVE  /\ q \in written' \/ \E w \in written' : q = Doctored(w)
                 /\ q.seq > PrunedTo'
      BY <1>1, <2>1, <2>2, <2>5, <3>1 DEF Table
    <3>2. ASSUME NEW q \in log', NEW p \in log', q.seq = p.seq
          PROVE  q = p
      BY <1>1, <2>1, <2>2, <2>5, <2>6, <3>2 DEF Table
    <3>3. \E q \in log' : q.seq = Count'
      BY <2>1, <2>5
    <3>4. ~doctored => Untouched'
      <4>1. ASSUME ~doctored
            PROVE  log' = {w \in written' : w.seq > PruneUpTo}
        <5>1. log = {w \in written : w.seq > PrunedTo}
          BY <1>1, <4>1 DEF Table, Untouched
        <5>2. \A w \in written : w.seq \in Nat
          BY <1>1 DEF Chained
        <5>3. left = {w \in written : w.seq > PruneUpTo}
          BY <2>2, <5>1, <5>2
        <5> HIDE DEF left
        <5> QED
          BY <2>1, <2>2, <2>5, <5>3
      <4> QED
        BY <2>5, <4>1 DEF Untouched
    <3> QED
      BY <1>1, <1>2, <3>1, <3>2, <3>3, <3>4 DEF Table
  <2>8. Kept'
    BY <1>2, <2>1 DEF Unbroken, Kept
  <2>9. Explained'
    BY <2>1 DEF Unbroken, Explained
  <2> QED
    BY <1>2, <1>3, <2>5, <2>7, <2>8, <2>9 DEF Unbroken
<1> QED
  BY <1>4, <1>5

\* Whatever is done to the table behind the program's back shows until it is pruned away,
\* and the newest row is there to append to.
LEMMA DoctorIsSafe ==
    ASSUME ConstantsFit, Unbroken, Doctor
    PROVE  Unbroken'
<1>1. /\ ~doctored /\ doctored' = TRUE /\ Chained /\ Table /\ Untouched
      /\ UNCHANGED <<holder, stage, tail, window, pruning, checking, wall, written, recorded>>
  BY DEF Doctor, Unbroken, Table
<1>2. PICK r \in log : \/ log' = (log \ {r}) \cup {Doctored(r)}
                       \/ r # Newest(log) /\ log' = log \ {r}
  BY DEF Doctor, Doctored
<1>3. /\ r \in written /\ IsRow(r) /\ r.text = "said" /\ r.seq > PrunedTo
      /\ log \subseteq written /\ \A q \in log : q.seq \in 1 .. Count
  BY <1>1, LogRow DEF Untouched, Chained
<1>4. /\ Doctored(r).text = "doctored" /\ Doctored(r).seq = r.seq /\ Doctored(r).hash = r.hash
  BY <1>3, DoctoredRow
<1>5. Chained' /\ Count' = Count /\ PrunedTo' = PrunedTo /\ Count \in Nat /\ written # {}
  BY <1>1, <1>3, CountType DEF Chained, Count, PrunedTo
<1>6. Newest(log) \in log /\ Newest(log).seq = Count
  BY <1>1, <1>5, TailIs
<1>7. ~Untouched'
  <2>1. Doctored(r) \notin written
    BY <1>1, <1>4 DEF Chained
  <2> QED
    BY <1>1, <1>2, <1>3, <1>5, <2>1 DEF Untouched
<1> DEFINE x == IF r = Newest(log) THEN Doctored(r) ELSE Newest(log)
<1>8. x \in log' /\ x.seq = Count /\ x.hash = Newest(log).hash
  BY <1>2, <1>4, <1>6
<1>9. \A q \in log' : (q \in log /\ q # r) \/ q = Doctored(r)
  BY <1>2, <1>3, <1>4, <1>1 DEF Chained
<1>10. Table'
  <2>1. ASSUME NEW q \in log'
        PROVE  /\ q \in written' \/ \E w \in written' : q = Doctored(w)
               /\ q.seq > PrunedTo'
    BY <1>1, <1>3, <1>4, <1>5, <1>9, <2>1 DEF Table
  <2>2. ASSUME NEW q \in log', NEW p \in log', q.seq = p.seq
        PROVE  q = p
    BY <1>1, <1>4, <1>9, <2>2 DEF Table
  <2> HIDE DEF x
  <2> QED
    BY <1>1, <1>5, <1>7, <1>8, <2>1, <2>2 DEF Table
<1>11. LastOf(log') = LastOf(log)
  <2>1. \A q \in log' : q.seq \in Nat /\ q.seq <= x.seq /\ (q.seq = x.seq => q = x)
    <3> HIDE DEF x
    <3>1. \A q \in log' : q.seq \in 1 .. Count
      BY <1>3, <1>4, <1>9
    <3> QED
      BY <1>5, <1>8, <1>10, <3>1 DEF Table
  <2> HIDE DEF x
  <2>2. Newest(log') = x
    BY <1>5, <1>8, <2>1, NewestUnique
  <2> QED
    BY <1>6, <1>8, <2>2 DEF LastOf
<1>12. Locked'
  BY <1>1, <1>11 DEF Unbroken, Locked
<1>13. Kept' /\ Explained'
  BY <1>1, <1>5, <1>7 DEF Unbroken, Kept, Explained
<1> QED
  BY <1>1, <1>5, <1>10, <1>12, <1>13 DEF Unbroken

\* What the last prune left explains no more of a gap than was pruned, and all of it if
\* nobody touched the table.
LEMMA ExpectedFirstIs ==
    ASSUME Chained, Table
    PROVE  /\ ExpectedFirst \in Nat /\ ExpectedFirst <= PrunedTo + 1
           /\ Untouched => ExpectedFirst = PrunedTo + 1
<1>1. Count \in Nat /\ PrunedTo \in Nat /\ \A r \in Prunes : r.seq \in 0 .. Count
  BY LogRow, CountType, PrunedToIs DEF Prunes
<1>2. CASE Prunes = {}
  <2>1. ASSUME Untouched
        PROVE  PrunedTo = 0
    <3> SUFFICES ASSUME PrunedTo # 0 PROVE FALSE
      OBVIOUS
    <3>1. PICK w \in written : PrunedTo = w.prunedTo
      BY PrunedToIs
    <3>2. w.seq > PrunedTo
      BY <3>1 DEF Chained
    <3> QED
      BY <1>2, <2>1, <3>1, <3>2 DEF Untouched, Prunes
  <2> QED
    BY <1>1, <1>2, <2>1 DEF ExpectedFirst
<1>3. CASE Prunes # {}
  <2> DEFINE p == Newest(Prunes)
  <2>1. p \in Prunes /\ \A q \in Prunes : q.seq <= p.seq
    BY <1>1, <1>3, NewestIs
  <2> HIDE DEF p
  <2>2. p \in log /\ p.prunedTo # 0 /\ p.prunedTo \in Nat /\ p.prunedTo <= PrunedTo
    BY <2>1, LogRow DEF Prunes
  <2>3. ASSUME Untouched
        PROVE  p.prunedTo = PrunedTo
    <3>1. PICK w \in written : PrunedTo = w.prunedTo
      BY <1>1, <2>2, PrunedToIs
    <3>2. w \in Prunes
      BY <1>1, <2>2, <2>3, <3>1 DEF Untouched, Prunes, Chained
    <3>3. w.prunedTo <= p.prunedTo
      BY <2>1, <2>2, <2>3, <3>1, <3>2 DEF Untouched, Chained
    <3> QED
      BY <1>1, <2>2, <3>1, <3>3
  <2> QED
    BY <1>1, <1>3, <2>2, <2>3 DEF ExpectedFirst, p
<1> QED
  BY <1>2, <1>3

\* The steps that change no row.
LEMMA OthersAreSafe ==
    ASSUME ConstantsFit, Unbroken,
           \/ \E r \in Recorder : BeginRecord(r) \/ ReadLast(r) \/ FailRecord(r)
           \/ (\E d \in Keep : SetDays(d)) \/ BeginPrune \/ LockPrune
           \/ BeginVerify \/ Verify \/ (\E n \in Wall : SetClock(n)) \/ UNCHANGED vars
    PROVE  Unbroken'
<1>1. UNCHANGED <<log, written, recorded, doctored>>
  BY DEF BeginRecord, ReadLast, FailRecord, SetDays, BeginPrune, LockPrune, BeginVerify,
     Verify, SetClock, vars
<1>2. /\ Chained' /\ Table' /\ Kept' /\ LastOf(log)' = LastOf(log)
      /\ (Untouched' <=> Untouched) /\ PrunedTo' = PrunedTo
  BY <1>1 DEF Unbroken, Chained, Table, Kept, Untouched, PrunedTo, Count, LastOf
<1>3. window' \in Nat /\ wall' \in Nat
  <2>1. window' \in Keep \/ UNCHANGED window
    BY DEF BeginRecord, ReadLast, FailRecord, SetDays, BeginPrune, LockPrune, BeginVerify,
       Verify, SetClock, vars
  <2>2. wall' \in Wall \/ UNCHANGED wall
    BY DEF BeginRecord, ReadLast, FailRecord, SetDays, BeginPrune, LockPrune, BeginVerify,
       Verify, SetClock, vars
  <2>3. Keep \subseteq Nat /\ Wall \subseteq Nat /\ window \in Nat /\ wall \in Nat
    BY DEF Wall, Unbroken, ConstantsFit
  <2> QED
    BY <2>1, <2>2, <2>3
<1>4. Locked'
  <2>1. ASSUME NEW r \in Recorder, BeginRecord(r) PROVE Locked'
    BY <1>1, <2>1 DEF BeginRecord, Lock, Unbroken, Locked, ConstantsFit, Pruner, Nobody
  <2>2. ASSUME NEW r \in Recorder, ReadLast(r) PROVE Locked'
    BY <1>1, <2>2 DEF ReadLast, Unbroken, Locked, ConstantsFit
  <2>3. ASSUME NEW r \in Recorder, FailRecord(r) PROVE Locked'
    BY <1>1, <2>3 DEF FailRecord, Release, Unbroken, Locked, ConstantsFit, Pruner, Nobody
  <2>4. CASE BeginPrune
    BY <1>1, <2>4 DEF BeginPrune, Unbroken, Locked
  <2>5. CASE LockPrune
    BY <1>1, <2>5 DEF LockPrune, Lock, Unbroken, Locked, ConstantsFit, Pruner, Nobody
  <2>6. CASE UNCHANGED <<holder, stage, tail, pruning>>
    BY <1>1, <2>6 DEF Unbroken, Locked
  <2> QED
    BY <2>1, <2>2, <2>3, <2>4, <2>5, <2>6 DEF SetDays, BeginVerify, Verify, SetClock, vars
<1>5. Explained'
  <2>1. CASE BeginVerify
    BY <1>2, <2>1, ExpectedFirstIs DEF BeginVerify, Unbroken, Explained
  <2>2. CASE Verify
    BY <2>2 DEF Verify, Explained
  <2>3. CASE UNCHANGED checking
    BY <1>2, <2>3 DEF Unbroken, Explained
  <2> QED
    BY <2>1, <2>2, <2>3 DEF BeginRecord, ReadLast, FailRecord, SetDays, BeginPrune, LockPrune,
       SetClock, vars
<1> QED
  BY <1>2, <1>3, <1>4, <1>5 DEF Unbroken

LEMMA StepUnbroken ==
    ASSUME ConstantsFit, Unbroken, [Next]_vars
    PROVE  Unbroken'
<1>1. ASSUME NEW r \in Recorder,
             BeginRecord(r) \/ ReadLast(r) \/ CommitRecord(r) \/ FailRecord(r)
      PROVE  Unbroken'
  BY <1>1, AppendIsSafe, OthersAreSafe
<1>2. CASE CommitPrune \/ Doctor
  BY <1>2, PruneIsSafe, DoctorIsSafe
<1>3. CASE \/ (\E d \in Keep : SetDays(d)) \/ BeginPrune \/ LockPrune
           \/ BeginVerify \/ Verify \/ (\E n \in Wall : SetClock(n)) \/ UNCHANGED vars
  BY <1>3, OthersAreSafe
<1> QED
  BY <1>1, <1>2, <1>3 DEF Next

-----------------------------------------------------------------------------
(* What follows                                                            *)

LEMMA UnbrokenImplies == Unbroken => NothingIsLost
<1> SUFFICES ASSUME Unbroken, ~doctored, NEW i \in recorded
             PROVE  \E r \in written : r.id = i /\ (r \in log \/ r.seq <= PrunedTo)
  BY DEF NothingIsLost
<1>1. PICK r \in written : r.id = i
  BY DEF Unbroken, Kept
<1>2. r \in log \/ ~(r.seq > PrunedTo)
  BY <1>1 DEF Unbroken, Table, Untouched
<1>3. r.seq \in Nat /\ PrunedTo \in Nat
  BY PrunedToIs DEF Unbroken, Chained
<1> QED
  BY <1>1, <1>2, <1>3

\* A chain that holds has no row changed and none missing but what the last prune says.
LEMMA VerifiedIsUntouched ==
    ASSUME Chained, Table, checking.expected \in Nat, checking.expected <= PrunedTo + 1,
           \A r \in log : RowHolds(r)
    PROVE  Untouched
<1>1. Count \in Nat /\ PrunedTo \in Nat /\ \A r \in log : r.seq \in 1 .. Count /\ r.seq > PrunedTo
  BY CountType, PrunedToIs, LogRow DEF Table
<1>2. log \subseteq written
  <2> SUFFICES ASSUME NEW r \in log, NEW w \in written, r = Doctored(w) PROVE FALSE
    BY DEF Table
  <2>1. IsRow(w) /\ w.text = "said" /\ w.hash = Hash(w)
    BY DEF Chained
  <2>2. r.text = "doctored" /\ r.hash = w.hash /\ Hash(r) = r.hash
    BY <2>1, DoctoredRow DEF RowHolds
  <2>3. Hash(r)[5] = "doctored" /\ Hash(w)[5] = "said"
    BY <2>1, <2>2 DEF Hash
  <2> QED
    BY <2>1, <2>2, <2>3
<1>3. ASSUME NEW w \in written, w.seq > PrunedTo, w \notin log
      PROVE  FALSE
  <2> DEFINE o == Oldest(log)
             after == {q \in log : q.seq > w.seq}
             r == Oldest(after)
             b == Before(r)
  <2>1. w.seq \in 1 .. Count /\ \A q \in log : q.seq # w.seq
    BY <1>2, <1>3 DEF Chained
  <2>2. PICK n \in log : n.seq = Count
    BY DEF Table
  <2>3. after # {} /\ \A q \in after : q.seq \in Nat
    BY <1>1, <2>1, <2>2
  <2>4. r \in after /\ \A q \in after : r.seq <= q.seq
    BY <2>3, OldestIs
  <2>5. o \in log /\ \A q \in log : o.seq <= q.seq
    BY <1>1, <2>2, OldestIs
  <2>6. RowHolds(o) /\ RowHolds(r) /\ r \in log
    BY <2>4, <2>5
  <2> HIDE DEF o, r
  <2>7. o.seq = checking.expected
    BY <2>6 DEF RowHolds, o
  <2>8. o.seq < w.seq
    BY <1>1, <1>3, <2>1, <2>5, <2>7
  <2>9. r.seq > w.seq /\ r # o
    BY <2>4, <2>8, <1>1, <2>5, <2>1
  <2>10. r.prev = b.hash
    BY <2>6, <2>9 DEF RowHolds, o
  <2>11. b \in log /\ b.seq < r.seq
    <3>1. o \in {q \in log : q.seq < r.seq}
      BY <1>1, <2>1, <2>5, <2>6, <2>8, <2>9
    <3>2. \A q \in {q \in log : q.seq < r.seq} : q.seq \in 0 .. Count
      BY <1>1
    <3>3. b \in {q \in log : q.seq < r.seq}
      BY <1>1, <3>1, <3>2, NewestIs DEF Before
    <3> QED
      BY <3>3
  <2> HIDE DEF b
  <2>12. b.seq < w.seq
    <3>1. b.seq # w.seq /\ ~(b.seq > w.seq)
      BY <1>1, <2>1, <2>4, <2>6, <2>11
    <3> QED
      BY <1>1, <2>1, <2>11, <3>1
  <2>13. r.seq - 1 \in 1 .. Count /\ r.seq - 1 >= w.seq
    BY <1>1, <2>1, <2>6, <2>9
  <2>14. PICK v \in written : v.seq = r.seq - 1
    BY <2>13 DEF Chained
  <2>15. r.prev = v.hash
    BY <1>1, <1>2, <2>6, <2>14 DEF Chained
  <2>16. Hash(v) = Hash(b)
    <3>1. b \in written
      BY <1>2, <2>11
    <3>2. v.hash = Hash(v) /\ b.hash = Hash(b)
      BY <3>1, <2>14 DEF Chained
    <3> QED
      BY <2>10, <2>15, <3>2
  <2>17. Hash(v)[2] = v.seq /\ Hash(b)[2] = b.seq
    BY DEF Hash
  <2> QED
    BY <1>1, <2>1, <2>11, <2>12, <2>13, <2>14, <2>16, <2>17
<1> QED
  BY <1>1, <1>2, <1>3 DEF Untouched

\* A table nobody touched verifies.
LEMMA UntouchedIsVerified ==
    ASSUME Chained, Table, Untouched, checking.expected = PrunedTo + 1, NEW r \in log
    PROVE  RowHolds(r)
<1>1. /\ Count \in Nat /\ PrunedTo \in Nat /\ PrunedTo < Count
      /\ \A q \in log : q \in written /\ q.seq \in 1 .. Count /\ q.seq > PrunedTo
  BY CountType, PrunedToIs, LogRow DEF Untouched
<1>2. r.hash = Hash(r)
  BY <1>1 DEF Chained
<1>3. Oldest(log) \in log /\ \A q \in log : Oldest(log).seq <= q.seq
  BY <1>1, OldestIs
<1>4. CASE r = Oldest(log)
  <2>1. PICK w \in written : w.seq = PrunedTo + 1
    BY <1>1 DEF Chained
  <2>2. w \in log
    BY <1>1, <2>1 DEF Untouched
  <2>3. r.seq = PrunedTo + 1
    BY <1>1, <1>3, <1>4, <2>1, <2>2
  <2> QED
    BY <1>2, <1>4, <2>3 DEF RowHolds
<1>5. CASE r # Oldest(log)
  <2>1. Oldest(log).seq < r.seq
    BY <1>1, <1>3, <1>5 DEF Table
  <2>2. PICK w \in written : w.seq = r.seq - 1
    BY <1>1, <1>3, <2>1 DEF Chained
  <2>3. w \in log
    BY <1>1, <1>3, <2>1, <2>2 DEF Untouched
  <2> DEFINE S == {q \in log : q.seq < r.seq}
  <2>4. w \in S /\ w.seq \in Nat
    BY <1>1, <2>2, <2>3
  <2>5. \A q \in S : q.seq \in Nat /\ q.seq <= w.seq /\ (q.seq = w.seq => q = w)
    BY <1>1, <2>2, <2>3 DEF Table
  <2> HIDE DEF S
  <2>6. Newest(S) = w
    BY <2>4, <2>5, NewestUnique
  <2>7. r.prev = w.hash
    BY <1>1, <2>2 DEF Chained
  <2> QED
    BY <1>2, <1>5, <2>6, <2>7 DEF RowHolds, Before, S
<1> QED
  BY <1>4, <1>5

\* The verdict of a verification that no prune disturbed.
LEMMA VerdictStep ==
    ASSUME Unbroken, Verify, ~checking.disturbed
    PROVE  checking'.ok <=> Untouched
<1>1. /\ Chained /\ Table /\ checking.expected \in Nat /\ checking.expected <= PrunedTo + 1
      /\ Untouched => checking.expected = PrunedTo + 1
  BY DEF Unbroken, Explained, Verify
<1>2. checking'.ok = (\A r \in log : RowHolds(r))
  BY DEF Verify
<1> QED
  BY <1>1, <1>2, VerifiedIsUntouched, UntouchedIsVerified

=============================================================================
