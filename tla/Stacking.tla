------------------------------- MODULE Stacking -------------------------------
(***************************************************************************)
(* How the policies stacked on one device compose, field by field          *)
(* (policies/resolver.py, policies/strategies.py), and what the pages that *)
(* assign, unassign and rerank do to it.  A behaviour is about one field   *)
(* and the strategy it is declared with; the device is in one group.       *)
(***************************************************************************)
EXTENDS Integers, FiniteSets, Sequences, SequencesExt

CONSTANTS
    MaxStack    \* assignments that can reach the device; an id is its place in the order of ids

VARIABLES
    strategy,   \* the Merge annotation of the field
    stack       \* id -> the assignment row and what its policy's latest version sets

stackVars == <<strategy, stack>>

Id == 1 .. MaxStack
Rank == 0 .. 1

\* What a spec says of the field: one value, or nothing (no such key, or a null).
Absent == <<>>
Value(v) == <<v>>

Strategies == {"most_restrictive", "max", "min", "union", "intersect", "merge_by_key",
               "highest_rank"}

Keyed(k, body) == [key |-> k, body |-> body]

\* What a policy can say of the field.
Values(s) ==
    CASE s = "most_restrictive" -> BOOLEAN
      [] s \in {"max", "min"} -> 0 .. 2
      [] s \in {"union", "intersect"} -> {<<"a">>, <<"b", "a">>, <<"b", "c">>}
      [] s = "merge_by_key" -> {<<Keyed("k", "x")>>, <<Keyed("k", "y")>>,
                                <<Keyed("m", "x"), Keyed("k", "x")>>}
      [] s = "highest_rank" -> {"x", "y"}

NoRow == [on |-> FALSE, scope |-> "device", rank |-> 0, value |-> Absent]
Rows(s) == [on : {TRUE}, scope : {"device", "group"}, rank : Rank,
            value : {Absent} \cup {Value(v) : v \in Values(s)}]

Init ==
    /\ strategy \in Strategies
    /\ stack = [i \in Id |-> NoRow]

-----------------------------------------------------------------------------
(* Resolving.                                                              *)

Specificity(scope) == IF scope = "device" THEN 2 ELSE 1

\* Mutant: rank and specificity only.
PrecedesByRank(i, j) ==
    \/ stack[i].rank > stack[j].rank
    \/ stack[i].rank = stack[j].rank /\ Specificity(stack[i].scope) > Specificity(stack[j].scope)

\* The key order_assignments sorts by: rank and specificity falling, then the id.
Precedes(i, j) ==
    LET a == stack[i]  b == stack[j] IN
    \/ a.rank > b.rank
    \/ a.rank = b.rank /\ Specificity(a.scope) > Specificity(b.scope)
    \/ a.rank = b.rank /\ a.scope = b.scope /\ i < j

\* order_assignments: a stable sort of the ids in the order they were read, here of the
\* places that matter.
OrderAssignments(read, places) ==
    LET First(m, n) == \/ Precedes(read[m], read[n])
                       \/ ~Precedes(read[n], read[m]) /\ m < n
        Place(m) == Cardinality({n \in places : First(n, m)}) + 1
    IN  [n \in 1 .. Cardinality(places) |-> read[CHOOSE m \in places : Place(m) = n]]

\* _collect: who says something of the field, highest precedence first.
Collect(read) ==
    OrderAssignments(read, {m \in DOMAIN read : stack[read[m]].value # Absent})

Said(c, n) == stack[c[n]].value[1]

\* _losers
Losers(c, value) == {c[n] : n \in {m \in DOMAIN c : Said(c, m) # value}}

FirstWith(c, value) ==
    c[CHOOSE n \in DOMAIN c : Said(c, n) = value /\ \A m \in 1 .. n - 1 : Said(c, m) # value]

Outcome(value, winner, overridden, conflict) ==
    [value |-> Value(value), winner |-> winner, overridden |-> overridden, conflict |-> conflict]

Nobody == 0

\* Mutant: the one of highest precedence decides.
FirstDecides(c) == Outcome(Said(c, 1), c[1], Losers(c, Said(c, 1)), FALSE)

MostRestrictive(c) ==
    LET value == \A n \in DOMAIN c : Said(c, n)
    IN  Outcome(value, FirstWith(c, value), Losers(c, value), FALSE)

MergeExtremum(c, takeMax) ==
    LET value == CHOOSE v \in {Said(c, n) : n \in DOMAIN c} :
                     \A n \in DOMAIN c : IF takeMax THEN v >= Said(c, n) ELSE v <= Said(c, n)
    IN  Outcome(value, FirstWith(c, value), Losers(c, value), FALSE)

\* The places items are said at: by whom, and where in what they say, in the order they
\* are met.
Met(c) == UNION {{n} \X DOMAIN Said(c, n) : n \in DOMAIN c}
ItemAt(c, p) == Said(c, p[1])[p[2]]
Earlier(p, q) == p[1] < q[1] \/ (p[1] = q[1] /\ p[2] < q[2])

\* The items at some places, in that order.
Gather(c, places) ==
    LET Place(p) == Cardinality({q \in places : Earlier(q, p)}) + 1
    IN  [n \in 1 .. Cardinality(places) |-> ItemAt(c, CHOOSE p \in places : Place(p) = n)]

\* What tells items apart: _dedupe_key, or the key or identity the field declares.
Identity(item) == IF strategy = "merge_by_key" THEN item.key ELSE item
Alike(c, p, q) == Identity(ItemAt(c, p)) = Identity(ItemAt(c, q))

\* Where an item is met that was not met before.
FirstMet(c) ==
    LET met == Met(c)
    IN  {p \in met : \A q \in met : Earlier(q, p) => ~Alike(c, q, p)}

MergeUnion(c) == Outcome(Gather(c, FirstMet(c)), Nobody, {}, FALSE)

MergeIntersect(c) ==
    LET common == {x \in ToSet(Said(c, 1)) : \A n \in DOMAIN c : Contains(Said(c, n), x)}
        kept == {p \in Met(c) : p[1] = 1 /\ ItemAt(c, p) \in common}
    IN  Outcome(Gather(c, kept), Nobody,
                {c[n] : n \in {m \in DOMAIN c : ToSet(Said(c, m)) # common}}, FALSE)

\* Mutant: an item already met is skipped without being compared.
MergeByKeyOnly(c) == Outcome(Gather(c, FirstMet(c)), Nobody, {}, FALSE)

\* The first item met with a key stays; a later one that differs is a conflict.
MergeByKey(c) ==
    LET first == FirstMet(c)
        Beaten(p) == \E q \in first :
                        Earlier(q, p) /\ Alike(c, q, p) /\ ItemAt(c, q) # ItemAt(c, p)
        losers == {c[p[1]] : p \in {q \in Met(c) : Beaten(q)}}
    IN  Outcome(Gather(c, first), Nobody, losers, losers # {})

HighestRank(c) ==
    LET losers == Losers(c, Said(c, 1))
    IN  Outcome(Said(c, 1), c[1], losers, losers # {})

\* apply_strategy
ApplyStrategy(c) ==
    CASE strategy = "most_restrictive" -> MostRestrictive(c)
      [] strategy = "max" -> MergeExtremum(c, TRUE)
      [] strategy = "min" -> MergeExtremum(c, FALSE)
      [] strategy = "union" -> MergeUnion(c)
      [] strategy = "intersect" -> MergeIntersect(c)
      [] strategy = "merge_by_key" -> MergeByKey(c)
      [] strategy = "highest_rank" -> HighestRank(c)

\* resolve, for the rows as the query gave them.  Nobody set it: it stays absent.
Resolve(read) ==
    LET c == Collect(read)
    IN  IF c = <<>> THEN [Outcome(0, Nobody, {}, FALSE) EXCEPT !.value = Absent] ELSE ApplyStrategy(c)

Assigned == {i \in Id : stack[i].on}
Effective == Resolve(SetToSeq(Assigned))

\* The two pages that own assignments reach the rows of their own scope only.
Owns(page, i) == stack[i].on /\ stack[i].scope = page

-----------------------------------------------------------------------------
(* The pages.                                                              *)

\* create_assignment, of a policy whose latest version says what row.value says
Assign(i) ==
    /\ ~stack[i].on
    /\ \E row \in Rows(strategy) : stack' = [stack EXCEPT ![i] = row]
    /\ UNCHANGED strategy

\* remove_device_assignment, _remove_group_assignment
Unassign(page, i) ==
    /\ Owns(page, i)
    /\ stack' = [stack EXCEPT ![i] = NoRow]
    /\ UNCHANGED strategy

\* rerank_for_device, rerank_for_group
Rerank(page, i, rank) ==
    /\ Owns(page, i)
    /\ stack' = [stack EXCEPT ![i].rank = rank]
    /\ UNCHANGED strategy

Next ==
    \E i \in Id :
        \/ Assign(i)
        \/ \E page \in {"device", "group"} :
               Unassign(page, i) \/ \E rank \in Rank : Rerank(page, i, rank)

-----------------------------------------------------------------------------
(* Properties.                                                             *)

\* Two rows of one rank and scope resolve the same way whatever order the query
\* gave them in: the effective policy, its winner and its conflicts are a function
\* of the rows, so recomputing it never makes a new version of the same policy
\* (resolver.order_assignments, resolve).
ReadOrderIsIrrelevant ==
    LET n == Cardinality(Assigned)
        effective == Effective
    IN
    \A read \in {f \in [1 .. n -> Assigned] : ToSet(f) = Assigned} :
        Resolve(read) = effective

\* b is at least as tight as a, for the strategies that have an order.
Tighter(b, a) ==
    CASE strategy = "most_restrictive" -> b => a
      [] strategy = "max" -> b >= a
      [] strategy = "min" -> b <= a
      [] strategy = "union" -> ToSet(a) \subseteq ToSet(b)
      [] strategy = "intersect" -> ToSet(b) \subseteq ToSet(a)
      [] OTHER -> TRUE

\* What the device would be given without assignment i.
Without(i) == Resolve(SetToSeq(Assigned \ {i}))

\* One more policy on a device never loosens a field with an order, at whatever
\* rank and scope it is assigned or reranked to: it lifts no denial, lowers no
\* maximum, takes nothing out of a union and adds nothing to an intersection
\* (strategies.py, assignment_rank.py).
StackingOnlyTightens ==
    LET effective == Effective
        Holds(without) == without # Absent => Tighter(effective.value[1], without[1])
    IN  \A i \in Assigned : Holds(Without(i).value)

\* Nothing a policy asked for is dropped in silence where there is no order to
\* drop it by: the conflict record names exactly the assignments of which
\* something said is not in effect, and the winner said what is in effect
\* (strategies.MergeOutcome, resolver._record_conflict).
ConflictsAreTold ==
    LET e == Effective
        Unmet(i) == CASE strategy = "highest_rank" -> stack[i].value # e.value
                      [] strategy = "merge_by_key" ->
                             \E x \in ToSet(stack[i].value[1]) : ~Contains(e.value[1], x)
                      [] OTHER -> FALSE
        unmet == {i \in Assigned : stack[i].value # Absent /\ Unmet(i)}
    IN  /\ e.conflict <=> unmet # {}
        /\ e.conflict => e.overridden = unmet
        /\ e.winner # Nobody => stack[e.winner].value = e.value

=============================================================================
