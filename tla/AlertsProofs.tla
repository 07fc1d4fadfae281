------------------------------ MODULE AlertsProofs ------------------------------
(***************************************************************************)
(* The inductive invariant of Alerts, for any devices and any number of    *)
(* changes, occurrences and crashes.  ServicesProofs concludes from it.    *)
(***************************************************************************)
EXTENDS Alerts, FiniteSetTheorems, TLAPS

\* What the constants are: a fleet is finite.
ConstantsFit == IsFiniteSet(Watched)

Occurrences == [id : Nat, rule : {"stale", "event"}, device : Watched, open : BOOLEAN,
                told : BOOLEAN, spell : Nat]
Passes == [stage : {"asleep", "checked", "evaluated", "sending", "sent"},
           cleared : SUBSET Nat, marked : SUBSET Nat, mail : SUBSET Nat]

Shaped ==
    /\ raised \in Nat /\ quiet \in [Watched -> BOOLEAN] /\ spell \in [Watched -> Nat]
    /\ pass \in Passes

\* A pass clears nothing before it has evaluated, and marks what it mailed.
Passing ==
    /\ pass.stage \in {"asleep", "checked"} => pass.cleared = {}
    /\ pass.marked \subseteq mailed

\* An occurrence has a number of its own, and the next is nobody's yet.
Numbered(O, n) ==
    /\ O \subseteq Occurrences
    /\ \A o \in O : o.id <= n
    /\ \A o, p \in O : o.id = p.id => o = p

\* What was raised in the stretch of silence a device is in is open, and a pass that
\* clears c will leave it so; every other occurrence is of an earlier stretch.
StillOpen(O, c) ==
    \A o \in O : o.rule = "stale" =>
        /\ o.spell <= spell[o.device]
        /\ quiet[o.device] /\ o.spell = spell[o.device] => o.open /\ o.id \notin c

\* SentIsTrue and OncePerSpell, of a table.
ToldOnly(O) == \A o \in O : o.told => o.id \in mailed
OnePerSpell(O) ==
    \A o, p \in O :
        /\ o.rule = "stale" /\ p.rule = "stale" /\ o.device = p.device
        /\ o.spell = p.spell
        => o = p

Table(O, n, c) == Numbered(O, n) /\ StillOpen(O, c) /\ ToldOnly(O) /\ OnePerSpell(O)

ToldRight == Shaped /\ Passing /\ Table(occurrence, raised, pass.cleared)

-----------------------------------------------------------------------------
(* What becomes of a table                                                 *)

Rewritten(q, c, m) == [q EXCEPT !.open = @ /\ q.id \notin c, !.told = @ \/ q.id \in m]

\* Nothing but two columns of a row is rewritten.
LEMMA RewrittenIs ==
    ASSUME NEW q \in Occurrences, NEW c, NEW m
    PROVE  LET o == Rewritten(q, c, m)
           IN  /\ o \in Occurrences
               /\ o.id = q.id /\ o.rule = q.rule /\ o.device = q.device /\ o.spell = q.spell
               /\ o.open = (q.open /\ q.id \notin c)
               /\ o.told = (q.told \/ q.id \in m)
  BY DEF Rewritten, Occurrences

\* A table whose pass cleared c and marked m, of what was mailed, is as good.
LEMMA WrittenTable ==
    ASSUME NEW n, NEW c, NEW m, m \subseteq mailed, Table(occurrence, n, c)
    PROVE  Table(Written(c, m), n, {})
<1>1. \A o \in Written(c, m) : \E q \in occurrence : o = Rewritten(q, c, m)
  BY DEF Written, Rewritten
<1>2. \A q \in occurrence : q \in Occurrences
  BY DEF Table, Numbered
<1>3. ASSUME NEW o \in Written(c, m)
      PROVE  /\ o \in Occurrences /\ o.id <= n
             /\ o.told => o.id \in mailed
             /\ o.rule = "stale" =>
                   /\ o.spell <= spell[o.device]
                   /\ quiet[o.device] /\ o.spell = spell[o.device] => o.open
  <2>1. PICK q \in occurrence : o = Rewritten(q, c, m)
    BY <1>1
  <2>2. /\ o \in Occurrences
        /\ o.id = q.id /\ o.rule = q.rule /\ o.device = q.device /\ o.spell = q.spell
        /\ o.open = (q.open /\ q.id \notin c)
        /\ o.told = (q.told \/ q.id \in m)
    BY <1>2, <2>1, RewrittenIs
  <2> QED
    BY <2>2 DEF Table, Numbered, StillOpen, ToldOnly
<1>4. ASSUME NEW o \in Written(c, m), NEW p \in Written(c, m),
             \/ o.id = p.id
             \/ /\ o.rule = "stale" /\ p.rule = "stale" /\ o.device = p.device
                /\ o.spell = p.spell
      PROVE  o = p
  <2>1. PICK q \in occurrence : o = Rewritten(q, c, m)
    BY <1>1
  <2>2. PICK r \in occurrence : p = Rewritten(r, c, m)
    BY <1>1
  <2>3. /\ o.id = q.id /\ o.rule = q.rule /\ o.device = q.device /\ o.spell = q.spell
        /\ p.id = r.id /\ p.rule = r.rule /\ p.device = r.device /\ p.spell = r.spell
    BY <1>2, <2>1, <2>2, RewrittenIs
  <2>4. q = r
    BY <1>4, <2>3 DEF Table, Numbered, OnePerSpell
  <2> QED
    BY <2>1, <2>2, <2>4
<1> QED
  BY <1>3, <1>4 DEF Table, Numbered, StillOpen, ToldOnly, OnePerSpell

\* New rows N have new numbers, have been told to nobody, and one of them that is of
\* a condition is the only one of its stretch.
LEMMA LongerTable ==
    ASSUME NEW O, NEW n \in Nat, NEW c, Table(O, n, c),
           NEW N \in SUBSET Occurrences, NEW k \in Nat, n <= k,
           \A o \in N : n < o.id /\ o.id <= k /\ ~o.told,
           \A o, p \in N : o.id = p.id => o = p,
           \A o \in N : o.rule = "stale" =>
               /\ o.open /\ o.spell = spell[o.device] /\ o.id \notin c
               /\ \A p \in O \cup N :
                     p.rule = "stale" /\ p.device = o.device /\ p.spell = o.spell => p = o
    PROVE  Table(O \cup N, k, c)
<1>1. Numbered(O \cup N, k)
  <2>1. \A o \in O : o.id \in Nat /\ o.id <= n
    BY DEF Table, Numbered, Occurrences
  <2>2. \A o \in N : o.id \in Nat
    BY DEF Occurrences
  <2>3. \A o \in O, p \in N : o.id # p.id
    BY <2>1, <2>2
  <2> QED
    BY <2>1, <2>2, <2>3 DEF Table, Numbered
<1>2. \A o \in N : o.rule = "stale" => o.spell <= spell[o.device]
  BY DEF Occurrences
<1>3. StillOpen(O \cup N, c)
  BY <1>2 DEF Table, StillOpen
<1>4. ToldOnly(O \cup N) /\ OnePerSpell(O \cup N)
  BY DEF Table, ToldOnly, OnePerSpell
<1> QED
  BY <1>1, <1>3, <1>4 DEF Table

LEMMA ShorterTable ==
    ASSUME NEW O, NEW n, NEW c, Table(O, n, c), NEW P \in SUBSET O, NEW d \in SUBSET c
    PROVE  Table(P, n, d)
  BY DEF Table, Numbered, StillOpen, ToldOnly, OnePerSpell

\* A table stays good while no device goes quiet or comes back, and mails go out.
LEMMA Onward ==
    ASSUME Table(occurrence', raised', pass'.cleared), UNCHANGED <<quiet, spell>>,
           mailed \subseteq mailed'
    PROVE  Table(occurrence, raised, pass.cleared)'
  BY DEF Table, Numbered, StillOpen, ToldOnly, OnePerSpell

-----------------------------------------------------------------------------
(* The start, and the shape                                                *)

LEMMA InitToldRight == Init => ToldRight
<1> SUFFICES ASSUME Init PROVE ToldRight
  OBVIOUS
<1>1. pass \in Passes /\ pass.cleared = {} /\ pass.marked = {}
  BY DEF Init, Asleep, Passes
<1>2. Table({}, raised, {})
  BY DEF Table, Numbered, StillOpen, ToldOnly, OnePerSpell
<1> QED
  BY <1>1, <1>2 DEF Init, ToldRight, Shaped, Passing

LEMMA StepShaped ==
    ASSUME ConstantsFit, Shaped, occurrence \subseteq Occurrences, [Next]_vars
    PROVE  Shaped'
<1>1. Asleep \in Passes
  BY DEF Asleep, Passes
<1>2. CASE SweepCompliance
  <2>1. \A S \in SUBSET Watched : Cardinality(S) \in Nat
    BY FS_Subset, FS_CardinalityType DEF ConstantsFit
  <2>2. raised' \in Nat
    BY <1>2, <2>1 DEF SweepCompliance, Shaped
  <2>3. pass' \in Passes
    BY <1>2, <1>1 DEF SweepCompliance, Passes
  <2> QED
    BY <1>2, <2>2, <2>3 DEF SweepCompliance, Shaped, world
<1>3. CASE Evaluate
  <2>1. \A S \in SUBSET Watched : Cardinality(S) \in Nat
    BY FS_Subset, FS_CardinalityType DEF ConstantsFit
  <2>2. raised' \in Nat
    BY <1>3, <2>1 DEF Evaluate, Shaped
  <2>3. {o.id : o \in UNION {OpenFor(d) : d \in {e \in Watched : ~quiet[e]}}} \subseteq Nat
    BY DEF OpenFor, Occurrences
  <2>4. pass' \in Passes
    BY <1>3, <2>3 DEF Evaluate, Passes, Shaped
  <2> QED
    BY <1>3, <2>2, <2>4 DEF Evaluate, Shaped, world
<1>4. CASE NothingToSay \/ FailToSend \/ CommitSent \/ Crash
  BY <1>4, <1>1 DEF NothingToSay, FailToSend, CommitSent, Crash, Shaped, server, world
<1>5. CASE Compose
  <2>1. {o.id : o \in Untold} \subseteq Nat
    BY DEF Untold, Occurrences
  <2>2. pass' \in Passes
    BY <1>5, <2>1 DEF Compose, Passes, Shaped
  <2> QED
    BY <1>5, <2>2 DEF Compose, Shaped, server, world
<1>6. CASE Send
  <2>1. pass' \in Passes
    BY <1>6 DEF Send, Passes, Shaped
  <2> QED
    BY <1>6, <2>1 DEF Send, Shaped, server, world
<1>7. ASSUME NEW d \in Watched, NoteEvent(d)
      PROVE  Shaped'
  BY <1>7 DEF NoteEvent, Shaped
<1>8. ASSUME NEW d \in Watched, GoQuiet(d)
      PROVE  Shaped'
  BY <1>8 DEF GoQuiet, Shaped, server
<1>9. ASSUME NEW d \in Watched, Fail(d)
      PROVE  Shaped'
  BY <1>9 DEF Fail, Shaped, server
<1>10. ASSUME NEW r \in {"stale", "event"}, SetEnabled(r) \/ RemoveRule(r)
       PROVE  Shaped'
  BY <1>10 DEF SetEnabled, RemoveRule, Shaped
<1>11. CASE SetListed
  BY <1>11 DEF SetListed, Shaped
<1>12. CASE UNCHANGED vars
  BY <1>12 DEF vars, server, world, Shaped
<1> QED
  BY <1>2, <1>3, <1>4, <1>5, <1>6, <1>7, <1>8, <1>9, <1>10, <1>11, <1>12 DEF Next

LEMMA StepPassing ==
    ASSUME Shaped, Passing, [Next]_vars
    PROVE  Passing'
<1>1. Asleep.stage = "asleep" /\ Asleep.cleared = {} /\ Asleep.marked = {}
  BY DEF Asleep
<1>2. pass.stage = "checked" => pass.cleared = {}
  BY DEF Passing
<1>3. CASE SweepCompliance
  BY <1>3, <1>1 DEF SweepCompliance, Passing, Asleep
<1>4. CASE Evaluate
  <2>1. pass'.marked = pass.marked /\ pass'.stage = "evaluated"
    BY <1>4 DEF Evaluate, Shaped, Passes
  <2> QED
    BY <1>4, <2>1 DEF Evaluate, Passing
<1>5. CASE NothingToSay \/ FailToSend \/ CommitSent \/ Crash
  BY <1>5, <1>1 DEF NothingToSay, FailToSend, CommitSent, Crash, Passing
<1>6. CASE Compose
  BY <1>6 DEF Compose, Passing, Shaped, Passes
<1>7. CASE Send
  BY <1>7 DEF Send, Passing, Shaped, Passes
<1>8. CASE UNCHANGED <<pass, mailed>>
  BY <1>8 DEF Passing
<1>9. UNCHANGED <<pass, mailed>> \/ SweepCompliance \/ Evaluate \/ NothingToSay \/ FailToSend
        \/ CommitSent \/ Crash \/ Compose \/ Send
  BY DEF Next, NoteEvent, GoQuiet, Fail, SetEnabled, RemoveRule, SetListed, vars
<1> QED
  BY <1>3, <1>4, <1>5, <1>6, <1>7, <1>8, <1>9

-----------------------------------------------------------------------------
(* The table, step by step                                                 *)

LEMMA EventIs ==
    ASSUME NEW d \in Watched, NEW n \in Nat
    PROVE  /\ Event(d, n) \in Occurrences /\ Event(d, n).id = n
           /\ Event(d, n).rule = "event" /\ ~Event(d, n).told
  BY DEF Event, Occurrences

LEMMA ConditionIs ==
    ASSUME NEW d \in Watched, NEW n \in Nat, spell \in [Watched -> Nat]
    PROVE  /\ Condition(d, n) \in Occurrences /\ Condition(d, n).id = n
           /\ Condition(d, n).rule = "stale" /\ ~Condition(d, n).told
           /\ Condition(d, n).device = d /\ Condition(d, n).open
           /\ Condition(d, n).spell = spell[d]
  BY DEF Condition, Occurrences

\* An event is a new row of its own.
LEMMA AddEvents ==
    ASSUME Shaped, NEW c, Table(occurrence, raised, c), NEW S \in SUBSET Watched, NEW k \in Nat,
           raised <= k, NEW number, \A d \in S : number[d] \in Nat /\ raised < number[d],
           \A d \in S : number[d] <= k,
           \A d, e \in S : number[d] = number[e] => d = e
    PROVE  Table(occurrence \cup {Event(d, number[d]) : d \in S}, k, c)
<1> DEFINE N == {Event(d, number[d]) : d \in S}
<1>1. \A o \in N : \E d \in S :
         /\ o = Event(d, number[d]) /\ o \in Occurrences /\ o.id = number[d]
         /\ o.rule = "event" /\ ~o.told
  BY EventIs
<1>2. N \in SUBSET Occurrences /\ \A o \in N : o.rule # "stale"
  BY <1>1
<1>3. \A o \in N : raised < o.id /\ o.id <= k /\ ~o.told
  BY <1>1
<1>4. \A o, p \in N : o.id = p.id => o = p
  BY <1>1
<1> HIDE DEF N
<1>5. Table(occurrence \cup N, k, c)
  BY <1>2, <1>3, <1>4, LongerTable DEF Shaped
<1> QED
  BY <1>5 DEF N

\* What was raised for a device that is quiet no more is of no current stretch.
LEMMA OverSpares ==
    ASSUME Table(occurrence, raised, {}),
           NEW W, W = {o.id : o \in UNION {OpenFor(d) : d \in {e \in Watched : ~quiet[e]}}}
    PROVE  Table(occurrence, raised, W)
<1>1. ASSUME NEW o \in occurrence, o.rule = "stale", quiet[o.device], o.id \in W
      PROVE  FALSE
  <2>1. PICK d \in Watched : ~quiet[d] /\ \E q \in OpenFor(d) : q.id = o.id
    BY <1>1
  <2>2. PICK q \in OpenFor(d) : q.id = o.id
    BY <2>1
  <2>3. q \in occurrence /\ q.device = d
    BY <2>2 DEF OpenFor
  <2>4. q = o
    BY <2>2, <2>3 DEF Table, Numbered
  <2> QED
    BY <1>1, <2>1, <2>3, <2>4
<1> QED
  BY <1>1 DEF Table, StillOpen

\* A device that is quiet with nothing open has nothing of its stretch.
LEMMA AddConditions ==
    ASSUME Shaped, NEW c, Table(occurrence, raised, c), NEW S \in SUBSET Watched,
           \A d \in S : quiet[d] /\ OpenFor(d) = {},
           NEW k \in Nat, raised <= k, NEW number,
           \A d \in S : number[d] \in Nat /\ raised < number[d] /\ number[d] <= k,
           \A d, e \in S : number[d] = number[e] => d = e
    PROVE  Table(Written(c, {}) \cup {Condition(d, number[d]) : d \in S}, k, {})
<1> DEFINE N == {Condition(d, number[d]) : d \in S}
<1>1. \A o \in N : \E d \in S :
         /\ o = Condition(d, number[d]) /\ o \in Occurrences /\ o.id = number[d]
         /\ o.rule = "stale" /\ ~o.told /\ o.device = d /\ o.open /\ o.spell = spell[d]
  BY ConditionIs DEF Shaped
<1>2. Table(Written(c, {}), raised, {})
  BY WrittenTable
<1>3. N \in SUBSET Occurrences
  BY <1>1
<1>4. \A o \in N : raised < o.id /\ o.id <= k /\ ~o.told
  BY <1>1
<1>5. \A o, p \in N : o.id = p.id \/ o.device = p.device => o = p
  BY <1>1
<1>6. \A o \in N : o.open /\ o.spell = spell[o.device] /\ o.rule = "stale" /\ o.device \in S
  BY <1>1
<1>7. ASSUME NEW d \in S, NEW p \in Written(c, {}), p.rule = "stale", p.device = d,
             p.spell = spell[d]
      PROVE  FALSE
  <2>1. PICK q \in occurrence : p = Rewritten(q, c, {})
    BY DEF Written, Rewritten
  <2>2. q \in Occurrences
    BY DEF Table, Numbered
  <2>3. q.rule = "stale" /\ q.device = d /\ q.spell = spell[d]
    BY <1>7, <2>1, <2>2, RewrittenIs
  <2>4. q.open
    BY <2>3 DEF Table, StillOpen
  <2> QED
    BY <2>3, <2>4 DEF OpenFor
<1> HIDE DEF N
<1>8. \A o \in N : \A p \in Written(c, {}) \cup N :
         p.rule = "stale" /\ p.device = o.device /\ p.spell = o.spell => p = o
  BY <1>5, <1>6, <1>7
<1>9. Table(Written(c, {}) \cup N, k, {})
  BY <1>2, <1>3, <1>4, <1>5, <1>6, <1>8, LongerTable DEF Shaped
<1> QED
  BY <1>9 DEF N

LEMMA StepTable ==
    ASSUME ConstantsFit, ToldRight, [Next]_vars
    PROVE  Table(occurrence, raised, pass.cleared)'
<1> USE DEF ToldRight
<1>1. \A S \in SUBSET Watched : Cardinality(S) \in Nat
  BY FS_Subset, FS_CardinalityType DEF ConstantsFit
<1>2. Asleep.cleared = {}
  BY DEF Asleep
<1>3. Table(occurrence, raised, {})
  BY ShorterTable
<1>4. CASE SweepCompliance
  <2> DEFINE changed == {d \in Watched : verdict[d] # failing[d]}
  <2>1. pass'.cleared = {} /\ UNCHANGED <<quiet, spell, mailed>>
    BY <1>4 DEF SweepCompliance, Asleep, world
  <2>2. CASE UNCHANGED <<occurrence, raised>>
    BY <1>3, <2>1, <2>2, Onward
  <2>3. CASE "event" \in rules
    <3>1. Cardinality(changed) \in Nat
      BY <1>1
    <3>2. PICK number \in [changed -> Ids] :
             /\ \A d \in changed : \E j \in 1 .. Cardinality(changed) :
                   number[d] = raised + j
             /\ \A d, e \in changed : number[d] = number[e] => d = e
             /\ occurrence' = occurrence \cup {Event(d, number[d]) : d \in changed}
             /\ raised' = raised + Cardinality(changed)
      BY <1>4, <2>3 DEF SweepCompliance
    <3> HIDE DEF changed
    <3>3. \A d \in changed : number[d] \in Nat /\ raised < number[d] /\ number[d] <= raised'
      BY <3>1, <3>2 DEF Shaped
    <3>4. raised' \in Nat /\ raised <= raised'
      BY <3>1, <3>2 DEF Shaped
    <3>5. changed \in SUBSET Watched
      BY DEF changed
    <3>6. Table(occurrence', raised', {})
      BY <1>3, <3>2, <3>3, <3>4, <3>5, AddEvents
    <3> QED
      BY <2>1, <3>6, Onward
  <2> QED
    BY <1>4, <2>2, <2>3 DEF SweepCompliance
<1>5. CASE Evaluate
  <2> DEFINE watching == "stale" \in rules
             new == IF watching THEN {d \in Watched : quiet[d] /\ OpenFor(d) = {}} ELSE {}
             over == IF watching
                     THEN {o.id : o \in UNION {OpenFor(d) : d \in {e \in Watched : ~quiet[e]}}}
                     ELSE {}
  <2>1. UNCHANGED <<quiet, spell, mailed>> /\ pass.cleared = {} /\ pass \in Passes
    BY <1>5 DEF Evaluate, world, Passing, Shaped
  <2>2. Table(occurrence, raised, over)
    BY <1>3, OverSpares
  <2>3. CASE /\ pass' = [pass EXCEPT !.stage = "evaluated", !.cleared = over]
             /\ UNCHANGED <<occurrence, raised>>
    <3>1. pass'.cleared = over
      BY <2>1, <2>3 DEF Passes
    <3> HIDE DEF over
    <3> QED
      BY <2>1, <2>2, <2>3, <3>1, Onward
  <2>4. CASE new # {} /\ pass' = [pass EXCEPT !.stage = "evaluated"]
    <3>1. pass'.cleared = {}
      BY <2>1, <2>4 DEF Passes
    <3>2. Cardinality(new) \in Nat
      BY <1>1
    <3>3. PICK number \in [new -> raised + 1 .. raised + Cardinality(new)] :
             /\ \A d, e \in new : number[d] = number[e] => d = e
             /\ occurrence' = Written(over, {}) \cup {Condition(d, number[d]) : d \in new}
      BY <1>5, <2>4 DEF Evaluate
    <3>4. raised' = raised + Cardinality(new)
      BY <1>5, <2>4 DEF Evaluate
    <3>5. new \in SUBSET Watched /\ \A d \in new : quiet[d] /\ OpenFor(d) = {}
      OBVIOUS
    <3> HIDE DEF new, over
    <3>6. raised' \in Nat /\ raised <= raised'
      BY <3>2, <3>4 DEF Shaped
    <3>7. \A d \in new : number[d] \in Nat /\ raised < number[d] /\ number[d] <= raised'
      BY <3>2, <3>3, <3>4 DEF Shaped
    <3>8. Table(occurrence', raised', {})
      BY <2>2, <3>3, <3>5, <3>6, <3>7, AddConditions
    <3> QED
      BY <2>1, <3>1, <3>8, Onward
  <2> QED
    BY <1>5, <2>3, <2>4 DEF Evaluate
<1>6. CASE CommitSent
  <2>1. pass'.cleared = {} /\ UNCHANGED <<quiet, spell, mailed, raised>>
    BY <1>2, <1>6 DEF CommitSent, world
  <2>2. pass.marked \subseteq mailed
    BY DEF Passing
  <2>3. occurrence' \in {occurrence, Written(pass.cleared, pass.marked)}
    BY <1>6 DEF CommitSent
  <2>4. Table(occurrence', raised, {})
    BY <1>3, <2>2, <2>3, WrittenTable
  <2> QED
    BY <2>1, <2>4, Onward
<1>7. CASE NothingToSay \/ FailToSend \/ Crash
  BY <1>2, <1>3, <1>7, Onward DEF NothingToSay, FailToSend, Crash, server, world
<1>8. CASE Compose \/ Send
  <2>1. pass'.cleared = pass.cleared /\ mailed \subseteq mailed'
    BY <1>8 DEF Compose, Send, Shaped, Passes
  <2> QED
    BY <1>8, <2>1, Onward DEF Compose, Send, server, world
<1>9. ASSUME NEW d \in Watched, NoteEvent(d)
      PROVE  Table(occurrence, raised, pass.cleared)'
  <2> DEFINE number == [e \in {d} |-> raised + 1]
  <2>1. /\ raised + 1 \in Nat /\ raised <= raised + 1
        /\ \A e \in {d} : number[e] \in Nat /\ raised < number[e]
        /\ \A e \in {d} : number[e] <= raised + 1
    BY DEF Shaped
  <2>2. {Event(e, number[e]) : e \in {d}} = {Event(d, raised + 1)}
    OBVIOUS
  <2> HIDE DEF number
  <2>3. {d} \in SUBSET Watched /\ Shaped /\ Table(occurrence, raised, pass.cleared)
    OBVIOUS
  <2>4. Table(occurrence \cup {Event(e, number[e]) : e \in {d}}, raised + 1, pass.cleared)
    BY <2>1, <2>3, AddEvents
  <2>5. occurrence' = occurrence \cup {Event(d, raised + 1)} /\ raised' = raised + 1
        /\ UNCHANGED <<pass, quiet, spell, mailed>>
    BY <1>9 DEF NoteEvent
  <2> QED
    BY <2>2, <2>4, <2>5, Onward
<1>10. ASSUME NEW d \in Watched, GoQuiet(d)
       PROVE  Table(occurrence, raised, pass.cleared)'
  <2>1. UNCHANGED <<occurrence, raised, pass, mailed>>
    BY <1>10 DEF GoQuiet, server
  <2>2. quiet' = [quiet EXCEPT ![d] = ~@]
    BY <1>10 DEF GoQuiet
  <2>3. spell' = IF quiet[d] THEN spell ELSE [spell EXCEPT ![d] = @ + 1]
    BY <1>10 DEF GoQuiet
  <2>4. ASSUME NEW o \in occurrence, o.rule = "stale"
        PROVE  /\ o.spell <= spell'[o.device]
               /\ quiet'[o.device] /\ o.spell = spell'[o.device] =>
                      o.open /\ o.id \notin pass.cleared
    <3>1. o.device \in Watched /\ o.spell \in Nat
      BY DEF Table, Numbered, Occurrences
    <3>2. o.spell <= spell[o.device]
          /\ (quiet[o.device] /\ o.spell = spell[o.device] =>
                  o.open /\ o.id \notin pass.cleared)
      BY <2>4 DEF Table, StillOpen
    <3>3. CASE o.device # d
      BY <2>2, <2>3, <3>1, <3>2, <3>3 DEF Shaped
    <3>4. CASE o.device = d /\ quiet[d]
      BY <2>2, <2>3, <3>1, <3>2, <3>4 DEF Shaped
    <3>5. CASE o.device = d /\ ~quiet[d]
      <4>1. spell'[d] = spell[d] + 1 /\ spell[d] \in Nat
        BY <2>3, <3>5 DEF Shaped
      <4> QED
        BY <3>1, <3>2, <3>5, <4>1
    <3> QED
      BY <3>3, <3>4, <3>5
  <2>5. StillOpen(occurrence, pass.cleared)'
    BY <2>1, <2>4 DEF StillOpen
  <2> QED
    BY <2>1, <2>5 DEF Table, Numbered, ToldOnly, OnePerSpell
<1>11. ASSUME NEW r \in {"stale", "event"}, RemoveRule(r)
       PROVE  Table(occurrence, raised, pass.cleared)'
  <2>1. occurrence' \subseteq occurrence /\ UNCHANGED <<raised, pass, quiet, spell, mailed>>
    BY <1>11 DEF RemoveRule
  <2>2. Table(occurrence', raised, pass.cleared)
    BY <2>1, ShorterTable
  <2> QED
    BY <2>1, <2>2, Onward
<1>12. CASE UNCHANGED <<occurrence, raised, pass, quiet, spell, mailed>>
  BY <1>12, Onward
<1>13. ASSUME NEW d \in Watched, Fail(d)
       PROVE  UNCHANGED <<occurrence, raised, pass, quiet, spell, mailed>>
  BY <1>13 DEF Fail, server
<1>14. ASSUME NEW r \in {"stale", "event"}, SetEnabled(r)
       PROVE  UNCHANGED <<occurrence, raised, pass, quiet, spell, mailed>>
  BY <1>14 DEF SetEnabled
<1>15. SetListed \/ UNCHANGED vars => UNCHANGED <<occurrence, raised, pass, quiet, spell, mailed>>
  BY DEF SetListed, vars, server, world
<1> QED
  BY <1>4, <1>5, <1>6, <1>7, <1>8, <1>9, <1>10, <1>11, <1>12, <1>13, <1>14, <1>15 DEF Next

LEMMA StepToldRight ==
    ASSUME ConstantsFit, ToldRight, [Next]_vars
    PROVE  ToldRight'
<1>1. occurrence \subseteq Occurrences
  BY DEF ToldRight, Table, Numbered
<1>2. Shaped' /\ Passing'
  BY <1>1, StepShaped, StepPassing DEF ToldRight
<1> QED
  BY <1>2, StepTable DEF ToldRight

LEMMA ToldRightImplies == ToldRight => SentIsTrue /\ OncePerSpell
  BY DEF ToldRight, Table, ToldOnly, OnePerSpell, SentIsTrue, OncePerSpell

=============================================================================
