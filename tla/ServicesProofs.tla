----------------------------- MODULE ServicesProofs -----------------------------
(***************************************************************************)
(* What the services promise, for every value of the constants: the        *)
(* inductive invariant of each, from the proofs about its own module, is   *)
(* kept by its steps and by its standing still.                            *)
(***************************************************************************)
EXTENDS MCServices, FiniteSetTheorems, FunctionTheorems, SequenceTheorems, TLAPS

-----------------------------------------------------------------------------
(* The audit chain                                                         *)

LEMMA AuditMoves ==
    [Next]_vars => [Audit!Next]_(Audit!vars)
  BY DEF Next, AuditStep, BellStep, AlertStep, IdentityStep, TakGovStep, StackingStep,
     AppStep, LibraryStep, TrustStep, Others, vars, auditVars, Audit!vars

LEMMA AuditHolds == Spec => []Audit!Unbroken
<1>1. Init => Audit!Unbroken
  BY AuditAssumption, Audit!InitUnbroken DEF Init
<1>2. Audit!Unbroken /\ [Next]_vars => Audit!Unbroken'
  BY AuditAssumption, AuditMoves, Audit!StepUnbroken
<1> QED
  BY <1>1, <1>2, PTL DEF Spec

\* Every entry whose recorder came to its end is in the log or was removed by a prune that
\* says so, unless the table was touched (audit.record, audit_retention.prune).
THEOREM AuditLosesNothing == Spec => []NothingIsLost
<1>1. Audit!Unbroken => NothingIsLost
  BY Audit!UnbrokenImplies DEF NothingIsLost
<1> QED
  BY <1>1, AuditHolds, PTL

\* A verification no prune disturbed says the chain holds exactly when no row that remains
\* was changed and none is missing but by a prune (audit.verify).
THEOREM VerdictsAreTrue == Spec => VerdictIsTrue
<1>1. Audit!Unbroken /\ [Next]_vars =>
         [Audit!Verify /\ ~checking.disturbed => (checking'.ok <=> Audit!Untouched)]_(Audit!vars)
  BY Audit!VerdictStep
<1> QED
  BY <1>1, AuditHolds, PTL DEF Spec, VerdictIsTrue, Audit!VerdictIsTrue

-----------------------------------------------------------------------------
(* Identity                                                                *)

LEMMA IdentityMoves ==
    [Next]_vars => [Who!Next]_(Who!vars)
  BY DEF Next, AuditStep, BellStep, AlertStep, IdentityStep, TakGovStep, StackingStep,
     AppStep, LibraryStep, TrustStep, Others, vars, whoVars, Who!vars, Who!server,
     Who!tablet, Who!tally

LEMMA IdentityHolds == Spec => []Who!LetsIn
<1>1. Init => Who!LetsIn
  BY IdentityAssumption, Who!InitLetsIn DEF Init
<1>2. Who!LetsIn /\ [Next]_vars => Who!LetsIn'
  BY IdentityAssumption, IdentityMoves, Who!StepLetsIn
<1> QED
  BY <1>1, <1>2, PTL DEF Spec

\* A limited QR enrols no more devices than it allows, however many enrolments overlap.
THEOREM ClaimsAreLimited == Spec => []QrIsNotOverspent
<1>1. Who!LetsIn => QrIsNotOverspent
  BY IdentityAssumption, Who!CountedImplies DEF QrIsNotOverspent
<1> QED
  BY <1>1, IdentityHolds, PTL

\* No more wrong codes than the limit are compared until a right one or a reset.
THEOREM CodesAreLimited == Spec => []GuessesAreCapped
<1>1. Who!LetsIn => GuessesAreCapped
  BY IdentityAssumption, Who!CountedImplies DEF GuessesAreCapped
<1> QED
  BY <1>1, IdentityHolds, PTL

\* Nothing of a tablet's earlier life is usable after it enrolled anew.
THEOREM EarlierLivesAreOver == Spec => []OldKeysAreOut
<1>1. Who!LetsIn => OldKeysAreOut
  BY Who!LetsInImplies DEF OldKeysAreOut
<1> QED
  BY <1>1, IdentityHolds, PTL

\* No lost answer costs an enrolled tablet the certificate it has.
THEOREM NobodyIsCutOff == Spec => []NeverCutOff
<1>1. Who!LetsIn => NeverCutOff
  BY Who!LetsInImplies DEF NeverCutOff
<1> QED
  BY <1>1, IdentityHolds, PTL

\* A retired record is enrolled again only by an enrolment that read it as inventory.
THEOREM RetirementLasts == Spec => RetiredStaysOut
<1>1. Who!LetsIn /\ [Next]_vars =>
         [\A t \in Tablet : record[t] = "retired" /\ record'[t] = "enrolled"
                               => enrolling[t].saw = "pending"]_(Who!vars)
  BY IdentityMoves, Who!RetiredStep
<1> QED
  BY <1>1, IdentityHolds, PTL DEF Spec, RetiredStaysOut, Who!RetiredStaysOut

-----------------------------------------------------------------------------
(* The doorbell                                                            *)

\* A reason has been there no longer than the wait has slept in this slice: it is found
\* by the reading before the park, or has come since.  What was committed is there until it
\* is taken up, when its ring follows it, and while that is owed; nobody is rung who is away.
Found(kind) == IF kind = "command" THEN order # "none" ELSE stale \/ version # known
Punctual ==
    /\ slept \in 0 .. Slice /\ left \in Nat /\ overdue \in Nat
    /\ park \in {"away", "reading", "quiet", "parked"}
    /\ overdue <= Slice
    /\ ~Bell!Outstanding \/ park \in {"away", "quiet"} => overdue = 0
    /\ park = "parked" => overdue <= slept
    /\ park # "parked" => bell = "none"
    /\ writing \in Bell!Kinds /\ owed \subseteq Bell!Kinds
    /\ writer = "committed" /\ ~settled => Found(writing)
    /\ \A kind \in owed : Found(kind) /\ park # "away"

LEMMA BellMoves ==
    [Next]_vars => [Bell!Next]_(Bell!vars)
  BY DEF Next, AuditStep, BellStep, AlertStep, IdentityStep, TakGovStep, StackingStep,
     AppStep, LibraryStep, TrustStep, Others, vars, bellVars, Bell!vars, Bell!db, Bell!desk,
     Bell!waiting, Bell!rung

\* What is pending is one of the reasons the doorbell gives.
LEMMA ReasonIsOutstanding == Bell!PendingReason # "none" <=> Bell!Outstanding
  BY DEF Bell!PendingReason, Bell!Outstanding

LEMMA InitPunctual ==
    ASSUME Bell!Init
    PROVE  Punctual
<1>1. slept \in 0 .. Slice /\ left \in Nat /\ overdue \in Nat /\ overdue <= Slice
  BY BellAssumption DEF Bell!Init
<1>2. /\ park = "away" /\ bell = "none" /\ owed = {} /\ overdue = 0 /\ writer = "idle"
      /\ writing \in Bell!Kinds
  BY DEF Bell!Init, Bell!Kinds
<1> QED
  BY <1>1, <1>2 DEF Punctual

LEMMA StepPunctual ==
    ASSUME Punctual, [Bell!Next]_(Bell!vars)
    PROVE  Punctual'
<1> USE BellAssumption
<1>1. ASSUME NEW k \in Bell!Kinds, Bell!BeginWrite(k)
      PROVE  Punctual'
  BY <1>1 DEF Bell!BeginWrite, Bell!db, Bell!waiting, Bell!desk, Bell!rung, Punctual, Found, Bell!Outstanding
<1>2. CASE Bell!Rollback
  BY <1>2 DEF Bell!Rollback, Bell!db, Bell!waiting, Bell!desk, Bell!rung, Punctual, Found, Bell!Outstanding
<1>3. CASE Bell!Commit
  BY <1>3 DEF Bell!Commit, Bell!waiting, Bell!desk, Bell!rung, Punctual, Found, Bell!Outstanding
<1>4. CASE Bell!Ring
  BY <1>4 DEF Bell!Ring, Bell!Notify, Bell!db, Bell!desk, Bell!rung, Punctual, Found, Bell!Outstanding
<1>5. CASE Bell!SetEvent
  BY <1>5 DEF Bell!SetEvent, Bell!db, Bell!desk, Bell!rung, Punctual, Found, Bell!Outstanding
<1>6. CASE Bell!ReadPage
  <2>1. /\ overdue' = (IF Bell!Outstanding' THEN overdue ELSE 0)
        /\ owed' = owed \cap {"command"} /\ settled' = (settled \/ writing # "command")
        /\ UNCHANGED <<order, writer, writing>>
    BY <1>6 DEF Bell!ReadPage, Bell!desk
  <2>2. UNCHANGED <<park, slept, left, bell>>
    BY <1>6 DEF Bell!ReadPage, Bell!waiting
  <2>3. overdue' \in {0, overdue} /\ (~Bell!Outstanding' => overdue' = 0)
    BY <2>1
  <2>4. overdue' \in Nat /\ overdue' <= Slice /\ (overdue = 0 => overdue' = 0)
    BY <2>3 DEF Punctual
  <2>5. park = "parked" => overdue' <= slept
    BY <2>3 DEF Punctual
  <2> QED
    BY <2>1, <2>2, <2>3, <2>4, <2>5 DEF Punctual, Found
<1>7. CASE Bell!BeginWait
  <2>1. park = "away" /\ park' = "reading" /\ left' \in Nat
    BY <1>7 DEF Bell!BeginWait
  <2>2. UNCHANGED <<version, stale, due, order, known, slept, bell, overdue, owed, settled,
                    writer, writing>>
    BY <1>7 DEF Bell!BeginWait, Bell!db, Bell!desk, Bell!rung
  <2>3. Bell!Outstanding' <=> Bell!Outstanding
    BY <2>2 DEF Bell!Outstanding
  <2> QED
    BY <2>1, <2>2, <2>3 DEF Punctual, Found
<1>8. CASE Bell!Read
  <2>1. UNCHANGED <<version, stale, due, order, known, settled, writer, writing>>
    BY <1>8 DEF Bell!Read, Bell!Answer, Bell!db, Bell!desk, Bell!rung
  <2>2. Bell!Outstanding' <=> Bell!Outstanding
    BY <2>1 DEF Bell!Outstanding
  <2>3. CASE Bell!Answer
    <3>1. park' = "away" /\ bell' = "none" /\ owed' = {}
      BY <2>3 DEF Bell!Answer
    <3>2. slept' \in 0 .. Slice /\ left' \in Nat /\ overdue' = 0 /\ overdue' \in Nat
          /\ overdue' <= Slice
      BY <2>3 DEF Bell!Answer
    <3> QED
      BY <2>1, <3>1, <3>2 DEF Punctual, Found
  <2>4. ASSUME ~Bell!Answer
        PROVE  Punctual'
    <3>1. Bell!PendingReason = "none" /\ park = "reading" /\ park' = "quiet"
          /\ UNCHANGED <<slept, left, bell, overdue, owed>>
      BY <1>8, <2>4 DEF Bell!Read, Bell!rung
    <3>2. ~Bell!Outstanding
      BY <3>1, ReasonIsOutstanding
    <3> QED
      BY <2>1, <2>2, <3>1, <3>2 DEF Punctual, Found
  <2> QED
    BY <2>3, <2>4
<1>9. CASE Bell!Park
  BY <1>9 DEF Bell!Park, Bell!db, Bell!desk, Bell!rung, Punctual, Found, Bell!Outstanding
<1>10. CASE Bell!Unpark
  BY <1>10 DEF Bell!Unpark, Bell!db, Bell!desk, Bell!rung, Punctual, Found, Bell!Outstanding
<1>11. CASE Bell!CheckIn
  BY <1>11 DEF Bell!CheckIn, Bell!waiting, Bell!desk, Bell!rung, Punctual, Found
<1>12. CASE Bell!ComesDue
  BY <1>12 DEF Bell!ComesDue, Bell!waiting, Bell!desk, Bell!rung, Punctual, Found, Bell!Outstanding
<1>13. CASE Bell!Tick
  BY <1>13 DEF Bell!Tick, Bell!SliceIsOver, Bell!db, Bell!desk, Bell!rung, Punctual, Found, Bell!Outstanding
<1>14. CASE UNCHANGED Bell!vars
  BY <1>14 DEF Bell!vars, Bell!db, Bell!waiting, Bell!desk, Bell!rung, Punctual, Found, Bell!Outstanding
<1> QED
  BY <1>1, <1>2, <1>3, <1>4, <1>5, <1>6, <1>7, <1>8, <1>9, <1>10, <1>11, <1>12, <1>13, <1>14
  DEF Bell!Next

LEMMA PunctualHolds == Spec => []Punctual
<1>1. Init => Punctual
  BY InitPunctual DEF Init
<1>2. Punctual /\ [Next]_vars => Punctual'
  BY BellMoves, StepPunctual
<1> QED
  BY <1>1, <1>2, PTL DEF Spec

\* Though every ring be lost, an open wait is never parked for longer than one slice with
\* something pending for its device (wait._SLICE).
THEOREM WaitsAreSliced == Spec => []LostRingCostsASlice
<1>1. Punctual => LostRingCostsASlice
  BY DEF Punctual, LostRingCostsASlice, Bell!LostRingCostsASlice
<1> QED
  BY <1>1, PunctualHolds, PTL

\* A wait released by a ring finds a reason, unless somebody took up the change since it was
\* begun: what a writer committed stays until then, and it rings only after its commit
\* (notifications' after_commit).
THEOREM RingsFollowTheirData == Spec => RingsAreHeard
<1>1. Punctual /\ [Next]_vars =>
         [Bell!Unpark /\ bell = "set" /\ owed # {} => Bell!PendingReason # "none"]_(Bell!vars)
  BY ReasonIsOutstanding DEF Punctual, Found, Bell!Outstanding
<1> QED
  BY <1>1, PunctualHolds, PTL DEF Spec, RingsAreHeard, Bell!RingsAreHeard

-----------------------------------------------------------------------------
(* Alerts                                                                  *)

LEMMA AlertMoves ==
    [Next]_vars => [Alert!Next]_(Alert!vars)
  BY DEF Next, AuditStep, BellStep, AlertStep, IdentityStep, TakGovStep, StackingStep,
     AppStep, LibraryStep, TrustStep, Others, vars, alertVars, Alert!vars, Alert!server,
     Alert!world

LEMMA AlertHolds == Spec => []Alert!ToldRight
<1>1. Init => Alert!ToldRight
  BY Alert!InitToldRight DEF Init
<1>2. Alert!ToldRight /\ [Next]_vars => Alert!ToldRight'
  BY AlertAssumption, AlertMoves, Alert!StepToldRight
<1> QED
  BY <1>1, <1>2, PTL DEF Spec

\* No occurrence is marked as sent that was not in a mail (alerts.notify).
THEOREM AlertsAreTrue == Spec => []SentIsTrue
<1>1. Alert!ToldRight => SentIsTrue
  BY Alert!ToldRightImplies DEF SentIsTrue
<1> QED
  BY <1>1, AlertHolds, PTL

\* One stretch of a device's silence is recorded once (alerts.raise_state).
THEOREM SilenceIsToldOnce == Spec => []OncePerSpell
<1>1. Alert!ToldRight => OncePerSpell
  BY Alert!ToldRightImplies DEF OncePerSpell
<1> QED
  BY <1>1, AlertHolds, PTL

-----------------------------------------------------------------------------
(* The app library                                                         *)

LEMMA LibraryMoves ==
    [Next]_vars => [Lib!Next]_(Lib!libraryVars)
  BY DEF Next, AuditStep, BellStep, AlertStep, IdentityStep, TakGovStep, StackingStep,
     AppStep, LibraryStep, TrustStep, Others, vars, libraryVars, Lib!libraryVars

LEMMA LibraryHolds == Spec => []Lib!Sound
<1>1. Init => Lib!Sound
  BY LibraryAssumption, Lib!InitSound DEF Init
<1>2. Lib!Sound /\ [Next]_vars => Lib!Sound'
  BY LibraryAssumption, LibraryMoves, Lib!StepSound
<1> QED
  BY <1>1, <1>2, PTL DEF Spec

\* A policy saved with a build of the library keeps to builds it has, whatever deletions
\* overlap, unless one of two moves it to what the other takes
\* (library_withdrawal.delete_version, profiles.upsert_section).
THEOREM PinsStayStocked == Spec => []PinsAreStocked
<1>1. Lib!Sound => PinsAreStocked
  BY Lib!SoundImplies DEF PinsAreStocked
<1> QED
  BY <1>1, LibraryHolds, PTL

\* What the library lists has its content on the disk, unless a deletion unlinked it before
\* a commit that failed or beside an upload (packages.delete_version).
THEOREM RowsKeepTheirBlobs == Spec => []RowsHaveBlobs
<1>1. Lib!Sound => RowsHaveBlobs
  BY Lib!SoundImplies DEF RowsHaveBlobs
<1> QED
  BY <1>1, LibraryHolds, PTL

\* A deletion moves a pin to the newest build of the same ATAK version while there is one,
\* and unlocks no kiosk (library_withdrawal.replacement, strip).
THEOREM PinsMoveAlongTheirLine == Spec => PinsKeepTheirLine
<1>1. Lib!Sound /\ [Next]_vars =>
         [\A d \in deletions' : (\A o \in deletions : o.edits # d.edits) =>
             \A p \in DOMAIN d.edits :
                 LET b == pins[p].pin
                     fitting == {v \in Lib!Stocked \ d.builds :
                                    library[v].line = library[b].line}
                 IN  /\ pins[p].kind = "kiosk" => d.edits[p].kind = "kiosk"
                     /\ (b \in d.builds /\ fitting # {}) =>
                            /\ d.edits[p].pin \in fitting
                            /\ \A v \in fitting : v <= d.edits[p].pin]_(Lib!libraryVars)
  BY LibraryAssumption, LibraryMoves, Lib!PinsStep DEF Lib!KeepsLine
<1> QED
  BY <1>1, LibraryHolds, PTL DEF Spec, PinsKeepTheirLine, Lib!PinsKeepTheirLine

-----------------------------------------------------------------------------
(* The tak.gov link                                                        *)

Refreshing == {"asking", "retrying", "answered"}

Tasks == [stage : {"idle", "shown", "using"} \cup Refreshing, copy : Tak!Row,
          answer : 0 .. MaxTokens]

\* What the link, the readers and the clicks hold, and that whoever refreshes has the lock.
Linked ==
    /\ issued \in 0 .. MaxTokens /\ live \subseteq 1 .. issued
    /\ row \in Tak!Row /\ row.refresh <= issued
    /\ task \in [Tak!Reader -> Tasks]
    /\ \A r \in Tak!Reader : task[r].copy.refresh <= issued /\ task[r].answer <= issued
    /\ click \in [Click -> Tasks]
    /\ \A c \in Click : click[c].copy.refresh <= issued /\ click[c].answer <= issued
    /\ \A r \in Tak!Reader : task[r].stage \in Refreshing => lock = r

\* A reader that refreshes, while nothing has happened that may cost the link.
Refreshes(r) ==
    /\ task[r].stage # "retrying"
    /\ task[r].stage = "asking" =>
           /\ task[r].copy.refresh # Tak!NoToken
           /\ r \notin Page => task[r].copy.refresh \in live
    /\ task[r].stage = "answered" =>
           task[r].answer \in live /\ task[r].answer # task[r].copy.refresh
    /\ (r \in Page /\ task[r].stage = "shown" /\ task[r].copy.status = "linked")
           => task[r].copy.refresh # Tak!NoToken

\* A token that came for the device code is good, and nobody else has it yet.
Fresh(c) ==
    LET t == click[c].answer IN
    t # Tak!NoToken =>
        /\ t \in live
        /\ t # row.refresh /\ t # click[c].copy.refresh
        /\ \A r \in Tak!Reader : t # task[r].copy.refresh /\ t # task[r].answer
        /\ \A d \in Click \ {c} : t # click[d].answer

\* The token in the row is good, or the one that came for it is about to be written.
Usable ==
    /\ row.status # "broken"
    /\ row.status = "linked" => row.refresh # Tak!NoToken
    /\ row.refresh # Tak!NoToken =>
           row.refresh \in live \/ \E r \in Tak!Reader : task[r].stage = "answered"
    /\ \A r \in Tak!Reader : Refreshes(r)
    /\ \A c \in Click : Fresh(c)

Backed == Linked /\ (excuse = {} => Usable)

LEMMA TakGovMoves ==
    [Next]_vars => [Tak!Next]_(Tak!linkVars)
  BY DEF Next, AuditStep, BellStep, AlertStep, IdentityStep, TakGovStep, StackingStep,
     AppStep, LibraryStep, TrustStep, Others, vars, linkVars, Tak!linkVars

\* A row is committed column by column.
LEMMA CommitGives ==
    ASSUME row \in Tak!Row, NEW copied \in Tak!Row, NEW changed \in Tak!Row
    PROVE  /\ Tak!Commit(copied, changed) \in Tak!Row
           /\ Tak!Commit(copied, changed).refresh =
                  IF changed.refresh # copied.refresh THEN changed.refresh ELSE row.refresh
           /\ Tak!Commit(copied, changed).status =
                  IF changed.status # copied.status THEN changed.status ELSE row.status
  BY DEF Tak!Commit, Tak!Row

LEMMA StoredIsRow ==
    ASSUME NEW copied \in Tak!Row, NEW t \in Tak!Token \cup {0}
    PROVE  /\ Tak!StoreTokens(copied, t) \in Tak!Row
           /\ Tak!StoreTokens(copied, t).refresh = t
           /\ Tak!StoreTokens(copied, t).status = copied.status
  BY DEF Tak!StoreTokens, Tak!Row, Tak!NoToken

LEMMA ClearedIsRow ==
    ASSUME NEW copied \in Tak!Row, NEW s \in {"unlinked", "linked"}
    PROVE  /\ [Tak!ClearFlow(copied) EXCEPT !.status = s] \in Tak!Row
           /\ [Tak!ClearFlow(copied) EXCEPT !.status = s].refresh = copied.refresh
           /\ [Tak!ClearFlow(copied) EXCEPT !.status = s].status = s
  BY DEF Tak!ClearFlow, Tak!Row

LEMMA UnlinkedIsRow ==
    Tak!Unlinked \in Tak!Row /\ Tak!Unlinked.refresh = 0 /\ Tak!Unlinked.status = "unlinked"
  BY DEF Tak!Unlinked, Tak!Row, Tak!NoToken

LEMMA IdleIsTask ==
    /\ Tak!Idle \in Tasks /\ Tak!Idle.stage = "idle"
    /\ Tak!Idle.copy.refresh = 0 /\ Tak!Idle.copy.status = "unlinked" /\ Tak!Idle.answer = 0
  BY TakGovAssumption, UnlinkedIsRow DEF Tak!Idle, Tasks, Tak!NoToken

LEMMA InitBacked ==
    ASSUME Tak!Init
    PROVE  Backed
<1> USE TakGovAssumption, UnlinkedIsRow, IdleIsTask DEF Tak!Init
<1>1. Linked
  BY DEF Linked, Refreshing
<1>2. Usable
  BY DEF Usable, Refreshes, Fresh, Tak!NoToken
<1> QED
  BY <1>1, <1>2 DEF Backed

\* What a reader holds may be replaced by another task that fits.
LEMMA ReaderLinked ==
    ASSUME Linked, NEW r \in Tak!Reader,
           task' \in [Tak!Reader -> Tasks], \A q \in Tak!Reader \ {r} : task'[q] = task[q],
           issued' \in {issued, issued + 1}, issued' <= MaxTokens,
           live' \subseteq 1 .. issued',
           row' \in Tak!Row, row'.refresh <= issued', UNCHANGED click,
           task'[r].copy.refresh <= issued', task'[r].answer <= issued',
           \A q \in Tak!Reader \ {r} : task[q].stage \in Refreshing => lock' = lock,
           task'[r].stage \in Refreshing => lock' = r
    PROVE  Linked'
<1>1. issued' \in 0 .. MaxTokens /\ issued <= issued'
  BY TakGovAssumption DEF Linked
<1>4. \A q \in Tak!Reader : task'[q].copy.refresh <= issued' /\ task'[q].answer <= issued'
  <2> SUFFICES ASSUME NEW q \in Tak!Reader
               PROVE  task'[q].copy.refresh <= issued' /\ task'[q].answer <= issued'
    OBVIOUS
  <2>1. CASE q = r
    BY <2>1
  <2>2. CASE q # r
    <3>1. task[q].copy.refresh <= issued /\ task[q].answer <= issued /\ task[q] \in Tasks
      BY DEF Linked
    <3>2. /\ task[q].copy.refresh \in Int /\ task[q].answer \in Int
          /\ issued \in Int /\ issued' \in Int
      BY <1>1, <3>1, TakGovAssumption DEF Linked, Tasks, Tak!Row, Tak!Token, Tak!NoToken
    <3> QED
      BY <1>1, <2>2, <3>1, <3>2
  <2> QED
    BY <2>1, <2>2
<1>5. \A c \in Click : click'[c].copy.refresh <= issued' /\ click'[c].answer <= issued'
  <2> SUFFICES ASSUME NEW c \in Click
               PROVE  click[c].copy.refresh <= issued' /\ click[c].answer <= issued'
    OBVIOUS
  <2>1. click[c].copy.refresh <= issued /\ click[c].answer <= issued /\ click[c] \in Tasks
    BY DEF Linked
  <2>2. /\ click[c].copy.refresh \in Int /\ click[c].answer \in Int
        /\ issued \in Int /\ issued' \in Int
    BY <1>1, <2>1, TakGovAssumption DEF Linked, Tasks, Tak!Row, Tak!Token, Tak!NoToken
  <2> QED
    BY <1>1, <2>1, <2>2
<1>6. \A q \in Tak!Reader : task'[q].stage \in Refreshing => lock' = q
  BY DEF Linked
<1> QED
  BY <1>1, <1>4, <1>5, <1>6 DEF Linked

\* And so may what a click holds.
LEMMA ClickLinked ==
    ASSUME Linked, NEW c \in Click,
           click' \in [Click -> Tasks], \A d \in Click \ {c} : click'[d] = click[d],
           issued' \in {issued, issued + 1}, issued' <= MaxTokens,
           live' \subseteq 1 .. issued',
           row' \in Tak!Row, row'.refresh <= issued', UNCHANGED <<task, lock>>,
           click'[c].copy.refresh <= issued', click'[c].answer <= issued'
    PROVE  Linked'
<1>1. issued' \in 0 .. MaxTokens /\ issued <= issued'
  BY TakGovAssumption DEF Linked
<1>4. \A d \in Click : click'[d].copy.refresh <= issued' /\ click'[d].answer <= issued'
  <2> SUFFICES ASSUME NEW d \in Click
               PROVE  click'[d].copy.refresh <= issued' /\ click'[d].answer <= issued'
    OBVIOUS
  <2>1. CASE d = c
    BY <2>1
  <2>2. CASE d # c
    <3>1. click[d].copy.refresh <= issued /\ click[d].answer <= issued /\ click[d] \in Tasks
      BY DEF Linked
    <3>2. click[d].copy.refresh \in Int /\ click[d].answer \in Int /\ issued \in Int
          /\ issued' \in Int
      BY <1>1, <3>1, TakGovAssumption DEF Linked, Tasks, Tak!Row, Tak!Token, Tak!NoToken
    <3> QED
      BY <1>1, <2>2, <3>1, <3>2
  <2> QED
    BY <2>1, <2>2
<1>5. \A r \in Tak!Reader : task[r].copy.refresh <= issued' /\ task[r].answer <= issued'
  <2> SUFFICES ASSUME NEW r \in Tak!Reader
               PROVE  task[r].copy.refresh <= issued' /\ task[r].answer <= issued'
    OBVIOUS
  <2>1. task[r].copy.refresh <= issued /\ task[r].answer <= issued /\ task[r] \in Tasks
    BY DEF Linked
  <2>2. task[r].copy.refresh \in Int /\ task[r].answer \in Int /\ issued \in Int /\ issued' \in Int
    BY <1>1, <2>1, TakGovAssumption DEF Linked, Tasks, Tak!Row, Tak!Token, Tak!NoToken
  <2> QED
    BY <1>1, <2>1, <2>2
<1> QED
  BY <1>1, <1>4, <1>5 DEF Linked

\* A task put in place of one.
LEMMA ReaderIs ==
    ASSUME Linked, NEW r \in Tak!Reader, NEW new \in Tasks, task' = [task EXCEPT ![r] = new]
    PROVE  /\ task' \in [Tak!Reader -> Tasks] /\ task'[r] = new
           /\ \A q \in Tak!Reader \ {r} : task'[q] = task[q]
  BY DEF Linked

LEMMA ClickIs ==
    ASSUME Linked, NEW c \in Click, NEW new \in Tasks, click' = [click EXCEPT ![c] = new]
    PROVE  /\ click' \in [Click -> Tasks] /\ click'[c] = new
           /\ \A d \in Click \ {c} : click'[d] = click[d]
  BY DEF Linked

LEMMA StepLinked ==
    ASSUME Linked, [Tak!Next]_(Tak!linkVars)
    PROVE  Linked'
<1> USE TakGovAssumption, UnlinkedIsRow, IdleIsTask
<1>0. issued \in Nat /\ issued <= MaxTokens /\ live \subseteq 1 .. issued /\ row \in Tak!Row
      /\ row.refresh <= issued
  BY DEF Linked
<1>1. CASE Tak!Start
  BY <1>1 DEF Tak!Start, Linked, Tak!Row
<1>2. CASE Tak!Approve
  BY <1>2 DEF Tak!Approve, Linked
<1>3. CASE Tak!Unlink
  BY <1>0, <1>3 DEF Tak!Unlink, Linked
<1>4. CASE Tak!Expire
  BY <1>4 DEF Tak!Expire, Linked, Tak!Row
<1>5. CASE Tak!LoseKey
  <2>1. row' \in Tak!Row /\ row'.refresh = 0
    BY <1>0, <1>5 DEF Tak!LoseKey, Tak!Row, Tak!NoToken
  <2>2. /\ task' = [r \in Tak!Reader |-> Tak!Idle] /\ click' = [c \in Click |-> Tak!Idle]
        /\ UNCHANGED <<issued, live>>
    BY <1>5 DEF Tak!LoseKey
  <2> QED
    BY <1>0, <2>1, <2>2 DEF Linked, Refreshing
<1>6. CASE Tak!Crash
  <2>1. /\ task' = [r \in Tak!Reader |-> Tak!Idle] /\ click' = [c \in Click |-> Tak!Idle]
        /\ UNCHANGED <<issued, live, row>>
    BY <1>6 DEF Tak!Crash
  <2> QED
    BY <1>0, <2>1 DEF Linked, Refreshing
<1>7. ASSUME NEW c \in Click, Tak!PollAsk(c)
      PROVE  Linked'
  <2>0. UNCHANGED <<lock, task>>
    BY <1>7 DEF Tak!PollAsk
  <2>1. ASSUME NEW t \in 0 .. MaxTokens, t <= issued', issued' \in {issued, issued + 1},
               issued' <= MaxTokens, live' \subseteq 1 .. issued', row' = row,
               click' = [click EXCEPT ![c] = [stage |-> "answered", copy |-> row, answer |-> t]]
        PROVE  Linked'
    <3>1. PICK new : new = [stage |-> "answered", copy |-> row, answer |-> t]
      OBVIOUS
    <3>2. new \in Tasks /\ new.copy = row /\ new.answer = t
      BY <1>0, <3>1 DEF Tasks, Refreshing
    <3>3. row.refresh <= issued'
      BY <1>0, <2>1 DEF Tak!Row, Tak!Token, Tak!NoToken
    <3>4. click' = [click EXCEPT ![c] = new]
      BY <2>1, <3>1
    <3>5. /\ click' \in [Click -> Tasks] /\ click'[c] = new
          /\ \A d \in Click \ {c} : click'[d] = click[d]
      BY <3>2, <3>4, ClickIs
    <3>6. click'[c].copy.refresh <= issued' /\ click'[c].answer <= issued'
      BY <2>1, <3>2, <3>3, <3>5
    <3>7. row' \in Tak!Row /\ row'.refresh <= issued'
      BY <1>0, <2>1, <3>3
    <3> QED
      BY <2>0, <2>1, <3>5, <3>6, <3>7, ClickLinked
  <2>2. CASE row' = Tak!Expired(row) /\ UNCHANGED <<click, live, issued>>
    BY <1>0, <2>0, <2>2, ClearedIsRow DEF Linked, Tak!Expired
  <2>3. CASE /\ issued < MaxTokens /\ issued' = issued + 1 /\ live' = live \cup {issued + 1}
             /\ click' = [click EXCEPT ![c] = [stage |-> "answered", copy |-> row,
                                               answer |-> issued + 1]]
             /\ row' = row
    <3>1. issued + 1 \in 0 .. MaxTokens /\ 1 .. issued \subseteq 1 .. issued + 1
      BY <1>0, <2>3
    <3>2. live' \subseteq 1 .. issued' /\ issued + 1 <= issued' /\ issued' <= MaxTokens
      BY <1>0, <2>3, <3>1
    <3> QED
      BY <2>1, <2>3, <3>1, <3>2
  <2>4. CASE /\ click' = [click EXCEPT ![c] = [stage |-> "answered", copy |-> row,
                                               answer |-> 0]]
             /\ UNCHANGED <<row, live, issued>>
    <3>1. 0 \in 0 .. MaxTokens /\ 0 <= issued'
      BY <1>0, <2>4
    <3> QED
      BY <1>0, <2>1, <2>4, <3>1
  <2> QED
    BY <1>7, <2>2, <2>3, <2>4 DEF Tak!PollAsk, Tak!NoToken
<1>8. ASSUME NEW c \in Click, Tak!PollSave(c)
      PROVE  Linked'
  <2>1. /\ click[c] \in Tasks /\ click[c].copy \in Tak!Row /\ click[c].answer \in 0 .. MaxTokens
        /\ click[c].answer <= issued /\ click[c].copy.refresh <= issued
    BY DEF Linked, Tasks
  <2>2. PICK new \in Tak!Row : /\ row' = Tak!Commit(click[c].copy, new)
                               /\ new.refresh \in {click[c].copy.refresh, click[c].answer}
    <3>1. CASE click[c].answer = Tak!NoToken
      <4>1. Tak!Expired(click[c].copy) \in Tak!Row
            /\ Tak!Expired(click[c].copy).refresh = click[c].copy.refresh
        BY <2>1, ClearedIsRow DEF Tak!Expired
      <4> QED
        BY <1>8, <3>1, <4>1 DEF Tak!PollSave
    <3>2. CASE click[c].answer # Tak!NoToken
      <4>1. click[c].answer \in Tak!Token
        BY <2>1, <3>2 DEF Tak!Token, Tak!NoToken
      <4>2. PICK stored \in Tak!Row : /\ stored = Tak!StoreTokens(click[c].copy, click[c].answer)
                                      /\ stored.refresh = click[c].answer
        BY <2>1, <4>1, StoredIsRow
      <4>3. PICK linked : linked = [Tak!ClearFlow(stored) EXCEPT !.status = "linked"]
        OBVIOUS
      <4>4. linked \in Tak!Row /\ linked.refresh = click[c].answer
        BY <4>2, <4>3, ClearedIsRow
      <4>5. row' = Tak!Commit(click[c].copy, linked)
        BY <1>8, <3>2, <4>2, <4>3 DEF Tak!PollSave
      <4> QED
        BY <4>4, <4>5
    <3> QED
      BY <3>1, <3>2
  <2>3. row' \in Tak!Row /\ row'.refresh <= issued
    BY <1>0, <2>1, <2>2, CommitGives
  <2>4. click' = [click EXCEPT ![c] = Tak!Idle] /\ UNCHANGED <<live, issued, lock, task>>
    BY <1>8 DEF Tak!PollSave
  <2>9. /\ click' \in [Click -> Tasks] /\ click'[c] = Tak!Idle
        /\ \A d \in Click \ {c} : click'[d] = click[d]
    BY <1>0, <2>3, <2>4, ClickIs
  <2> QED
    BY <1>0, <2>3, <2>4, <2>9, ClickLinked
<1>9. ASSUME NEW p \in Page, Tak!Show(p)
      PROVE  Linked'
  <2>1. PICK new : new = [Tak!Idle EXCEPT !.stage = "shown", !.copy = row]
    OBVIOUS
  <2>2. new \in Tasks /\ new.stage = "shown" /\ new.copy = row /\ new.answer = 0
    BY <1>0, <2>1 DEF Tasks
  <2>3. task' = [task EXCEPT ![p] = new] /\ UNCHANGED <<row, live, issued, lock, click>>
    BY <1>9, <2>1 DEF Tak!Show
  <2>4. p \in Tak!Reader
    BY DEF Tak!Reader
  <2>9. /\ task' \in [Tak!Reader -> Tasks] /\ task'[p] = new
        /\ \A q \in Tak!Reader \ {p} : task'[q] = task[q]
    BY <1>0, <2>2, <2>3, <2>4, ReaderIs
  <2> QED
    BY <1>0, <2>2, <2>3, <2>4, <2>9, ReaderLinked DEF Refreshing
<1>10. ASSUME NEW r \in Tak!Reader, Tak!Ask(r)
       PROVE  Linked'
  <2>1. Tak!ReadRow(r) \in Tak!Row /\ Tak!ReadRow(r).refresh <= issued
    BY <1>0 DEF Tak!ReadRow, Linked, Tasks
  <2>2. UNCHANGED <<live, issued, click>> /\ lock = Tak!None
    BY <1>10 DEF Tak!Ask, Tak!TakeLock
  <2>3. \A q \in Tak!Reader : task[q].stage \notin Refreshing
    BY <2>2 DEF Linked
  <2>4. CASE task' = [task EXCEPT ![r] = [Tak!Idle EXCEPT !.stage = "using"]]
             /\ UNCHANGED <<lock, row>>
    <3>1. PICK new : new = [Tak!Idle EXCEPT !.stage = "using"]
      OBVIOUS
    <3>2. new \in Tasks /\ new.stage = "using" /\ new.copy.refresh = 0 /\ new.answer = 0
      BY <3>1 DEF Tasks
    <3>9. /\ task' \in [Tak!Reader -> Tasks] /\ task'[r] = new
          /\ \A q \in Tak!Reader \ {r} : task'[q] = task[q]
      BY <1>0, <2>2, <2>3, <2>4, <3>1, <3>2, ReaderIs
    <3> QED
      BY <1>0, <2>2, <2>3, <2>4, <3>1, <3>2, <3>9, ReaderLinked DEF Refreshing
  <2>5. CASE row' = [row EXCEPT !.status = "broken"] /\ task' = [task EXCEPT ![r] = Tak!Idle]
    <3>1. row' \in Tak!Row /\ row'.refresh = row.refresh
      BY <1>0, <2>5 DEF Tak!Row
    <3>9. /\ task' \in [Tak!Reader -> Tasks] /\ task'[r] = Tak!Idle
          /\ \A q \in Tak!Reader \ {r} : task'[q] = task[q]
      BY <1>0, <2>2, <2>3, <2>5, <3>1, ReaderIs
    <3> QED
      BY <1>0, <2>2, <2>3, <2>5, <3>1, <3>9, ReaderLinked DEF Refreshing
  <2>6. CASE /\ lock' = r /\ row' = row
             /\ task' = [task EXCEPT ![r] = [Tak!Idle EXCEPT !.stage = "asking",
                                                             !.copy = Tak!ReadRow(r)]]
    <3>1. PICK copied \in Tak!Row : copied = Tak!ReadRow(r)
      BY <2>1
    <3>2. PICK new : new = [Tak!Idle EXCEPT !.stage = "asking", !.copy = copied]
      OBVIOUS
    <3>3. new \in Tasks /\ new.stage = "asking" /\ new.copy = copied /\ new.answer = 0
      BY <3>2 DEF Tasks, Refreshing
    <3>9. /\ task' \in [Tak!Reader -> Tasks] /\ task'[r] = new
          /\ \A q \in Tak!Reader \ {r} : task'[q] = task[q]
      BY <1>0, <2>1, <2>2, <2>3, <2>6, <3>1, <3>2, <3>3, ReaderIs
    <3> QED
      BY <1>0, <2>1, <2>2, <2>3, <2>6, <3>1, <3>2, <3>3, <3>9, ReaderLinked
  <2> QED
    BY <1>10, <2>4, <2>5, <2>6 DEF Tak!Ask
<1>11. ASSUME NEW r \in Tak!Reader, Tak!Rotated(r)
       PROVE  Linked'
  <2>1. PICK new : new = [task[r] EXCEPT !.stage = "answered", !.answer = issued + 1]
    OBVIOUS
  <2>2. /\ issued < MaxTokens /\ issued' = issued + 1
        /\ live' = (live \ {Tak!Presents(r)}) \cup {issued + 1}
        /\ UNCHANGED <<row, lock, click>> /\ task[r].stage \in Refreshing
        /\ task' = [task EXCEPT ![r].stage = "answered", ![r].answer = issued + 1]
    BY <1>11 DEF Tak!Rotated, Refreshing
  <2>3. task[r] \in Tasks /\ task[r].copy.refresh <= issued /\ lock = r
        /\ task[r].copy.refresh \in Int
    BY <2>2 DEF Linked, Tasks, Tak!Row, Tak!Token, Tak!NoToken
  <2>4. issued + 1 \in 0 .. MaxTokens /\ live' \subseteq 1 .. issued'
    BY <1>0, <2>2
  <2>5. new \in Tasks /\ new.answer = issued' /\ new.copy = task[r].copy
    BY <2>1, <2>2, <2>3, <2>4 DEF Tasks, Refreshing
  <2>6. task' = [task EXCEPT ![r] = new]
    BY <2>1, <2>2, <2>3 DEF Linked
  <2>7. row.refresh <= issued' /\ task[r].copy.refresh <= issued'
    BY <1>0, <2>2, <2>3 DEF Tak!Row, Tak!Token, Tak!NoToken
  <2>9. /\ task' \in [Tak!Reader -> Tasks] /\ task'[r] = new
        /\ \A q \in Tak!Reader \ {r} : task'[q] = task[q]
    BY <1>0, <2>2, <2>3, <2>4, <2>5, <2>6, <2>7, ReaderIs
  <2> QED
    BY <1>0, <2>2, <2>3, <2>4, <2>5, <2>6, <2>7, <2>9, ReaderLinked
<1>12. ASSUME NEW r \in Tak!Reader, Tak!AnswerLost(r)
       PROVE  Linked'
  <2>1. /\ issued < MaxTokens /\ issued' = issued + 1
        /\ live' = (live \ {Tak!Presents(r)}) \cup {issued + 1}
        /\ UNCHANGED <<row, click>> /\ task[r].stage \in Refreshing
        /\ task' = [task EXCEPT ![r] = Tak!Idle]
    BY <1>12 DEF Tak!AnswerLost, Refreshing
  <2>2. \A q \in Tak!Reader \ {r} : task[q].stage \notin Refreshing
    BY <2>1 DEF Linked
  <2>3. 1 .. issued \subseteq 1 .. issued + 1 /\ issued + 1 \in 1 .. issued + 1
    BY <1>0
  <2>4. live' \subseteq 1 .. issued'
    BY <1>0, <2>1, <2>3
  <2>5. row.refresh <= issued'
    BY <1>0, <2>1 DEF Tak!Row, Tak!Token, Tak!NoToken
  <2>9. /\ task' \in [Tak!Reader -> Tasks] /\ task'[r] = Tak!Idle
        /\ \A q \in Tak!Reader \ {r} : task'[q] = task[q]
    BY <1>0, <2>1, ReaderIs
  <2> QED
    BY <1>0, <2>1, <2>2, <2>4, <2>5, <2>9, ReaderLinked DEF Refreshing
<1>13. ASSUME NEW r \in Tak!Reader, Tak!Refused(r)
       PROVE  Linked'
  <2>1. UNCHANGED <<live, issued, click>> /\ task[r].stage \in Refreshing
    BY <1>13 DEF Tak!Refused, Refreshing
  <2>2. \A q \in Tak!Reader \ {r} : task[q].stage \notin Refreshing
    BY <2>1 DEF Linked
  <2>3. CASE task' = [task EXCEPT ![r].stage = "retrying"] /\ UNCHANGED <<row, lock>>
    <3>1. PICK new : new = [task[r] EXCEPT !.stage = "retrying"]
      OBVIOUS
    <3>2. task[r] \in Tasks /\ task[r].copy.refresh <= issued /\ task[r].answer <= issued
          /\ lock = r
      BY <2>1 DEF Linked
    <3>3. new \in Tasks /\ new.copy = task[r].copy /\ new.answer = task[r].answer
      BY <3>1, <3>2 DEF Tasks, Refreshing
    <3>4. task' = [task EXCEPT ![r] = new]
      BY <2>3, <3>1 DEF Linked
    <3>9. /\ task' \in [Tak!Reader -> Tasks] /\ task'[r] = new
          /\ \A q \in Tak!Reader \ {r} : task'[q] = task[q]
      BY <1>0, <2>1, <2>3, <3>2, <3>3, <3>4, ReaderIs
    <3> QED
      BY <1>0, <2>1, <2>3, <3>2, <3>3, <3>4, <3>9, ReaderLinked
  <2>4. CASE /\ row' = [row EXCEPT !.status = "broken"]
             /\ task' = [task EXCEPT ![r] = Tak!Idle] /\ lock' = Tak!None
    <3>1. row' \in Tak!Row /\ row'.refresh = row.refresh
      BY <1>0, <2>4 DEF Tak!Row
    <3>9. /\ task' \in [Tak!Reader -> Tasks] /\ task'[r] = Tak!Idle
          /\ \A q \in Tak!Reader \ {r} : task'[q] = task[q]
      BY <1>0, <2>1, <2>2, <2>4, <3>1, ReaderIs
    <3> QED
      BY <1>0, <2>1, <2>2, <2>4, <3>1, <3>9, ReaderLinked DEF Refreshing
  <2> QED
    BY <1>13, <2>3, <2>4 DEF Tak!Refused
<1>14. ASSUME NEW r \in Tak!Reader, Tak!Save(r)
       PROVE  Linked'
  <2>1. /\ UNCHANGED <<live, issued, click>> /\ task[r].stage \in Refreshing
        /\ row' = Tak!Commit(task[r].copy, Tak!StoreTokens(task[r].copy, task[r].answer))
        /\ task' = [task EXCEPT ![r] = [Tak!Idle EXCEPT !.stage = "using"]]
    BY <1>14 DEF Tak!Save, Refreshing
  <2>2. \A q \in Tak!Reader \ {r} : task[q].stage \notin Refreshing
    BY <2>1 DEF Linked
  <2>3. row' \in Tak!Row /\ row'.refresh <= issued
    <3>1. /\ task[r] \in Tasks /\ task[r].copy \in Tak!Row /\ task[r].answer \in Tak!Token \cup {0}
          /\ task[r].answer <= issued
      BY DEF Linked, Tasks, Tak!Token
    <3>2. PICK stored \in Tak!Row : /\ stored = Tak!StoreTokens(task[r].copy, task[r].answer)
                                    /\ stored.refresh = task[r].answer
      BY <3>1, StoredIsRow
    <3> QED
      BY <1>0, <2>1, <3>1, <3>2, CommitGives
  <2>4. PICK new : new = [Tak!Idle EXCEPT !.stage = "using"]
    OBVIOUS
  <2>5. new \in Tasks /\ new.stage = "using" /\ new.copy.refresh = 0 /\ new.answer = 0
    BY <2>4 DEF Tasks
  <2>9. /\ task' \in [Tak!Reader -> Tasks] /\ task'[r] = new
        /\ \A q \in Tak!Reader \ {r} : task'[q] = task[q]
    BY <1>0, <2>1, <2>2, <2>3, <2>4, <2>5, ReaderIs
  <2> QED
    BY <1>0, <2>1, <2>2, <2>3, <2>4, <2>5, <2>9, ReaderLinked DEF Refreshing
<1>15. ASSUME NEW r \in Tak!Reader, Tak!Done(r)
       PROVE  Linked'
  <2>1. task' = [task EXCEPT ![r] = Tak!Idle] /\ UNCHANGED <<row, live, issued, lock, click>>
    BY <1>15 DEF Tak!Done
  <2>2. /\ task' \in [Tak!Reader -> Tasks] /\ task'[r] = Tak!Idle
        /\ \A q \in Tak!Reader \ {r} : task'[q] = task[q]
    BY <2>1, ReaderIs
  <2>3. issued' \in {issued, issued + 1} /\ issued' <= MaxTokens /\ live' \subseteq 1 .. issued'
    BY <1>0, <2>1
  <2>4. row' \in Tak!Row /\ row'.refresh <= issued' /\ UNCHANGED click /\ lock' = lock
    BY <1>0, <2>1
  <2>5. task'[r].copy.refresh <= issued' /\ task'[r].answer <= issued'
    BY <1>0, <2>1, <2>2
  <2>6. task'[r].stage \notin Refreshing
    BY <2>2 DEF Refreshing
  <2> QED
    BY <2>2, <2>3, <2>4, <2>5, <2>6, ReaderLinked
<1>16. CASE UNCHANGED Tak!linkVars
  BY <1>16 DEF Tak!linkVars, Linked
<1> QED
  BY <1>1, <1>2, <1>3, <1>4, <1>5, <1>6, <1>7, <1>8, <1>9, <1>10, <1>11, <1>12, <1>13,
     <1>14, <1>15, <1>16 DEF Tak!Next
\* What may cost the link stays recorded.
LEMMA ExcuseStays ==
    ASSUME [Tak!Next]_(Tak!linkVars), excuse' = {}
    PROVE  excuse = {}
  BY DEF Tak!Next, Tak!linkVars, Tak!Start, Tak!Approve, Tak!Unlink, Tak!Expire, Tak!LoseKey,
     Tak!Crash, Tak!PollAsk, Tak!PollSave, Tak!Show, Tak!Ask, Tak!Rotated, Tak!AnswerLost,
     Tak!Refused, Tak!Save, Tak!Done, Tak!Mishap

LEMMA RowUsable ==
    ASSUME Usable, UNCHANGED <<live, task, click>>, row'.refresh \in {row.refresh, 0},
           row'.status # "broken", row'.status = "linked" => row'.refresh # 0
    PROVE  Usable'
  BY DEF Usable, Refreshes, Fresh, Tak!NoToken

LEMMA PollAskUsable ==
    ASSUME Linked, Usable, NEW c \in Click, Tak!PollAsk(c)
    PROVE  Usable'
<1> USE DEF Tak!NoToken
<1>0. UNCHANGED task /\ issued \in Nat /\ row \in Tak!Row
  BY DEF Tak!PollAsk, Linked
<1>1. CASE row' = Tak!Expired(row) /\ UNCHANGED <<click, live>>
  BY <1>0, <1>1, ClearedIsRow, RowUsable DEF Tak!Expired
<1>2. ASSUME NEW t \in {0, issued + 1}, row' = row, live \subseteq live', t # 0 => t \in live',
             click' = [click EXCEPT ![c] = [stage |-> "answered", copy |-> row, answer |-> t]]
      PROVE  Usable'
  <2>1. /\ click'[c].answer = t /\ click'[c].copy = row
        /\ \A d \in Click \ {c} : click'[d] = click[d]
    BY <1>2 DEF Linked
  <2>2. Fresh(c)'
    <3> SUFFICES ASSUME t # 0
                 PROVE  /\ t # row.refresh
                        /\ \A r \in Tak!Reader : t # task[r].copy.refresh /\ t # task[r].answer
                        /\ \A d \in Click \ {c} : t # click[d].answer
      BY <1>0, <1>2, <2>1 DEF Fresh
    <3>1. t = issued + 1
      BY <1>2
    <3> QED
      BY <1>0, <3>1 DEF Linked
  <2>3. ASSUME NEW d \in Click \ {c}
        PROVE  Fresh(d)'
    <3>1. Fresh(d) /\ click[d].answer <= issued /\ click'[d] = click[d]
      BY <2>1, <2>3 DEF Usable, Linked
    <3>2. click[d].answer # 0 => click[d].answer # t
      BY <1>0, <1>2, <3>1
    <3>3. \A e \in Click \ {d} : click[d].answer # 0 => click[d].answer # click'[e].answer
      BY <2>1, <3>1, <3>2 DEF Fresh
    <3> QED
      BY <1>0, <1>2, <3>1, <3>3 DEF Fresh
  <2>4. \A r \in Tak!Reader : Refreshes(r)'
    BY <1>0, <1>2 DEF Usable, Refreshes
  <2> QED
    BY <1>0, <1>2, <2>2, <2>3, <2>4 DEF Usable
<1>3. CASE /\ issued < MaxTokens /\ issued' = issued + 1 /\ live' = live \cup {issued + 1}
           /\ click' = [click EXCEPT ![c] = [stage |-> "answered", copy |-> row,
                                             answer |-> issued + 1]]
           /\ row' = row
  BY <1>2, <1>3
<1>4. CASE /\ click' = [click EXCEPT ![c] = [stage |-> "answered", copy |-> row, answer |-> 0]]
           /\ UNCHANGED <<row, live, issued>>
  BY <1>2, <1>4
<1> QED
  BY <1>1, <1>3, <1>4 DEF Tak!PollAsk

LEMMA PollSaveUsable ==
    ASSUME Linked, Usable, NEW c \in Click, Tak!PollSave(c)
    PROVE  Usable'
<1> USE DEF Tak!NoToken
<1>1. /\ click[c].copy \in Tak!Row /\ click[c].answer \in Tak!Token \cup {0}
      /\ row \in Tak!Row /\ Fresh(c)
  BY DEF Linked, Tasks, Usable, Tak!Token
<1>2. /\ click' = [click EXCEPT ![c] = Tak!Idle] /\ UNCHANGED <<live, task>>
      /\ \A d \in Click \ {c} : click'[d] = click[d]
      /\ click'[c].answer = 0
  BY IdleIsTask DEF Tak!PollSave, Linked
<1>3. /\ row'.status # "broken" /\ row'.refresh \in {row.refresh, click[c].answer}
      /\ \/ row'.refresh = click[c].answer /\ click[c].answer # 0
         \/ row'.refresh = row.refresh /\ (row'.status = "linked" => row.status = "linked")
  <2>1. CASE click[c].answer = 0
    <3>1. PICK new \in Tak!Row : /\ new = Tak!Expired(click[c].copy)
                                 /\ new.refresh = click[c].copy.refresh
                                 /\ new.status = "unlinked"
      BY <1>1, ClearedIsRow DEF Tak!Expired
    <3>2. row' = Tak!Commit(click[c].copy, new)
      BY <2>1, <3>1 DEF Tak!PollSave
    <3> QED
      BY <1>1, <3>1, <3>2, CommitGives DEF Usable
  <2>2. CASE click[c].answer # 0
    <3>1. PICK stored \in Tak!Row : /\ stored = Tak!StoreTokens(click[c].copy, click[c].answer)
                                    /\ stored.refresh = click[c].answer
      BY <1>1, StoredIsRow
    <3>2. PICK new \in Tak!Row : /\ new = [Tak!ClearFlow(stored) EXCEPT !.status = "linked"]
                                 /\ new.refresh = click[c].answer /\ new.status = "linked"
      BY <3>1, ClearedIsRow
    <3>3. row' = Tak!Commit(click[c].copy, new)
      BY <2>2, <3>1, <3>2 DEF Tak!PollSave
    <3>4. click[c].answer # click[c].copy.refresh
      BY <1>1, <2>2 DEF Fresh
    <3> QED
      BY <1>1, <2>2, <3>2, <3>3, <3>4, CommitGives DEF Usable
  <2> QED
    BY <2>1, <2>2
<1>4. ASSUME NEW d \in Click
      PROVE  Fresh(d)'
  <2>1. CASE d = c
    BY <1>2, <2>1 DEF Fresh
  <2>2. CASE d # c
    <3>1. Fresh(d) /\ click'[d] = click[d]
      BY <1>2, <2>2 DEF Usable
    <3>2. click[d].answer # 0 => click[d].answer # row'.refresh
      BY <1>3, <2>2, <3>1 DEF Fresh
    <3>3. \A e \in Click \ {d} : click[d].answer # 0 => click[d].answer # click'[e].answer
      BY <1>2, <3>1 DEF Fresh
    <3> QED
      BY <1>2, <3>1, <3>2, <3>3 DEF Fresh
  <2> QED
    BY <2>1, <2>2
<1>5. \A r \in Tak!Reader : Refreshes(r)'
  BY <1>2 DEF Usable, Refreshes
<1>6. click[c].answer # 0 => click[c].answer \in live
  BY <1>1 DEF Fresh
<1> QED
  BY <1>2, <1>3, <1>4, <1>5, <1>6 DEF Usable

\* A reader's step that leaves the row and the clicks as they are.
LEMMA TaskUsable ==
    ASSUME Linked, Usable, NEW r \in Tak!Reader, UNCHANGED <<row, live, click>>,
           \A q \in Tak!Reader \ {r} : task'[q] = task[q],
           task[r].stage # "answered", Refreshes(r)',
           task'[r].copy.refresh \in {0, row.refresh, task[r].copy.refresh},
           task'[r].answer = 0
    PROVE  Usable'
<1>1. \A q \in Tak!Reader : Refreshes(q)'
  BY DEF Usable, Refreshes
<1>2. \A c \in Click : Fresh(c)'
  BY DEF Usable, Fresh, Tak!NoToken
<1>3. (\E q \in Tak!Reader : task[q].stage = "answered")
          => \E q \in Tak!Reader : task'[q].stage = "answered"
  OBVIOUS
<1> QED
  BY <1>1, <1>2, <1>3 DEF Usable

LEMMA AskUsable ==
    ASSUME Linked, Usable, NEW r \in Tak!Reader, Tak!Ask(r)
    PROVE  Usable'
<1> USE DEF Tak!NoToken
<1>1. /\ Tak!ReadRow(r) \in Tak!Row /\ Tak!ReadRow(r).status = "linked"
      /\ Tak!ReadRow(r).refresh # 0
      /\ Tak!ReadRow(r).refresh \in {row.refresh, task[r].copy.refresh}
      /\ r \notin Page => Tak!ReadRow(r) = row
  BY DEF Tak!Ask, Tak!ReadRow, Tak!MayAsk, Usable, Refreshes, Linked, Tasks
<1>2. UNCHANGED <<live, click>> /\ task[r].stage # "answered"
  BY DEF Tak!Ask, Tak!MayAsk
<1>3. \A q \in Tak!Reader : task[q].stage # "answered"
  BY TakGovAssumption DEF Tak!Ask, Tak!TakeLock, Linked, Refreshing
<1>4. CASE task' = [task EXCEPT ![r] = [Tak!Idle EXCEPT !.stage = "using"]] /\ UNCHANGED row
  <2>1. PICK new : new = [Tak!Idle EXCEPT !.stage = "using"]
    OBVIOUS
  <2>2. new \in Tasks /\ new.stage = "using" /\ new.copy.refresh = 0 /\ new.answer = 0
    BY <2>1, IdleIsTask DEF Tasks
  <2>3. task'[r] = new /\ \A q \in Tak!Reader \ {r} : task'[q] = task[q]
    BY <1>4, <2>1, <2>2, ReaderIs
  <2>4. Refreshes(r)'
    BY <2>2, <2>3 DEF Refreshes
  <2> QED
    BY <1>2, <1>4, <2>2, <2>3, <2>4, TaskUsable
<1>5. CASE /\ row' = row
           /\ task' = [task EXCEPT ![r] = [Tak!Idle EXCEPT !.stage = "asking",
                                                           !.copy = Tak!ReadRow(r)]]
  <2>1. PICK copied \in Tak!Row : copied = Tak!ReadRow(r)
    BY <1>1
  <2>2. PICK new : new = [Tak!Idle EXCEPT !.stage = "asking", !.copy = copied]
    OBVIOUS
  <2>3. new \in Tasks /\ new.stage = "asking" /\ new.copy = copied /\ new.answer = 0
    BY <2>2, IdleIsTask DEF Tasks, Refreshing
  <2>4. task'[r] = new /\ \A q \in Tak!Reader \ {r} : task'[q] = task[q]
    BY <1>5, <2>1, <2>2, <2>3, ReaderIs
  <2>5. r \notin Page => copied.refresh \in live
    BY <1>1, <1>3, <2>1 DEF Usable
  <2>6. Refreshes(r)'
    BY <1>1, <1>2, <2>1, <2>3, <2>4, <2>5 DEF Refreshes
  <2> QED
    BY <1>1, <1>2, <1>5, <2>1, <2>3, <2>4, <2>6, TaskUsable
<1> QED
  BY <1>1, <1>4, <1>5 DEF Tak!Ask

LEMMA RotatedUsable ==
    ASSUME Linked, Usable, NEW r \in Tak!Reader, Tak!Rotated(r)
    PROVE  Usable'
<1> USE DEF Tak!NoToken
<1>1. /\ task[r].stage = "asking" /\ Tak!Presents(r) = task[r].copy.refresh
      /\ live' = (live \ {task[r].copy.refresh}) \cup {issued + 1}
      /\ UNCHANGED <<row, click>>
  BY DEF Tak!Rotated, Tak!Presents, Usable, Refreshes
<1>2. /\ task'[r].stage = "answered" /\ task'[r].answer = issued + 1
      /\ task'[r].copy = task[r].copy
      /\ \A q \in Tak!Reader \ {r} : task'[q] = task[q]
  BY DEF Tak!Rotated, Linked, Tasks
<1>3. \A q \in Tak!Reader \ {r} : task[q].stage \notin Refreshing
  BY <1>1 DEF Linked, Refreshing
<1>4. issued \in Nat /\ task[r].copy.refresh <= issued
  BY DEF Linked
<1>5. ASSUME NEW q \in Tak!Reader
      PROVE  Refreshes(q)'
  <2>1. CASE q = r
    BY <1>1, <1>2, <1>4, <2>1 DEF Refreshes
  <2>2. CASE q # r
    BY <1>2, <1>3, <2>2 DEF Refreshes, Usable, Refreshing
  <2> QED
    BY <2>1, <2>2
<1>6. ASSUME NEW c \in Click
      PROVE  Fresh(c)'
  <2>1. Fresh(c) /\ click[c].answer <= issued
    BY DEF Usable, Linked
  <2>2. click[c].answer # 0 => click[c].answer \in live' /\ click[c].answer # issued + 1
    BY <1>1, <1>4, <2>1 DEF Fresh
  <2>3. click[c].answer # 0 => \A q \in Tak!Reader : /\ click[c].answer # task'[q].copy.refresh
                                                     /\ click[c].answer # task'[q].answer
    BY <1>2, <2>1, <2>2 DEF Fresh
  <2> QED
    BY <1>1, <2>1, <2>2, <2>3 DEF Fresh
<1> QED
  BY <1>1, <1>2, <1>5, <1>6 DEF Usable

\* A refusal has a cause: the one who asks has the lock, so nobody is between a rotation and
\* its commit, and the token in the row is good.
LEMMA RefusedHasACause ==
    ASSUME Linked, Usable, NEW r \in Tak!Reader, Tak!Refused(r)
    PROVE  excuse' # {}
<1>1. task[r].stage = "asking" /\ Tak!Presents(r) = task[r].copy.refresh
  BY DEF Tak!Refused, Tak!Presents, Usable, Refreshes
<1>2. \A q \in Tak!Reader : task[q].stage # "answered"
  BY <1>1 DEF Linked, Refreshing
<1>3. Refreshes(r)
  BY DEF Usable
<1>4. CASE Tak!Presents(r) \in live /\ Tak!Mishap("provider failed")
  BY <1>4 DEF Tak!Mishap
<1>5. CASE /\ Tak!Presents(r) \notin live
           /\ excuse' = IF r \in Page /\ task[r].copy.refresh # row.refresh
                        THEN excuse \cup {"old row"} ELSE excuse
  <2>1. r \in Page /\ task[r].copy.refresh # Tak!NoToken
    BY <1>1, <1>3, <1>5 DEF Refreshes
  <2>2. task[r].copy.refresh # row.refresh
    BY <1>1, <1>2, <1>5, <2>1 DEF Usable
  <2> QED
    BY <1>5, <2>1, <2>2
<1> QED
  BY <1>4, <1>5 DEF Tak!Refused

LEMMA SaveUsable ==
    ASSUME Linked, Usable, NEW r \in Tak!Reader, Tak!Save(r)
    PROVE  Usable'
<1> USE DEF Tak!NoToken
<1>1. /\ task[r].stage = "answered" /\ UNCHANGED <<live, click>> /\ row \in Tak!Row
      /\ task[r].copy \in Tak!Row /\ task[r].answer \in Tak!Token \cup {0}
      /\ task[r].answer \in live /\ task[r].answer # task[r].copy.refresh
      /\ task[r].answer # 0
  BY DEF Tak!Save, Linked, Tasks, Usable, Refreshes, Tak!Token
<1>2. PICK stored \in Tak!Row : /\ stored = Tak!StoreTokens(task[r].copy, task[r].answer)
                                /\ stored.refresh = task[r].answer
                                /\ stored.status = task[r].copy.status
  BY <1>1, StoredIsRow
<1>3. row'.refresh = task[r].answer /\ row'.status = row.status
  <2>1. row' = Tak!Commit(task[r].copy, stored)
    BY <1>2 DEF Tak!Save
  <2> QED
    BY <1>1, <1>2, <2>1, CommitGives
<1>4. PICK new : new = [Tak!Idle EXCEPT !.stage = "using"]
  OBVIOUS
<1>5. new \in Tasks /\ new.stage = "using" /\ new.copy.refresh = 0 /\ new.answer = 0
  BY <1>4, IdleIsTask DEF Tasks
<1>6. task'[r] = new /\ \A q \in Tak!Reader \ {r} : task'[q] = task[q]
  <2>1. task' = [task EXCEPT ![r] = new]
    BY <1>4 DEF Tak!Save
  <2> QED
    BY <1>5, <2>1, ReaderIs
<1>7. \A q \in Tak!Reader : Refreshes(q)'
  BY <1>1, <1>5, <1>6 DEF Usable, Refreshes
<1>8. ASSUME NEW c \in Click
      PROVE  Fresh(c)'
  <2>1. Fresh(c)
    BY DEF Usable
  <2>2. click[c].answer # 0 => /\ click[c].answer # row'.refresh
                               /\ \A q \in Tak!Reader : /\ click[c].answer # task'[q].copy.refresh
                                                        /\ click[c].answer # task'[q].answer
    BY <1>3, <1>5, <1>6, <2>1 DEF Fresh
  <2> QED
    BY <1>1, <2>1, <2>2 DEF Fresh
<1> QED
  BY <1>1, <1>3, <1>7, <1>8 DEF Usable

LEMMA StepUsable ==
    ASSUME Linked, Usable, [Tak!Next]_(Tak!linkVars), excuse' = {}
    PROVE  Usable'
<1> USE DEF Tak!NoToken
<1>1. CASE Tak!Start
  <2>1. row'.status = "pending" /\ row'.refresh = row.refresh /\ UNCHANGED <<live, task, click>>
    BY <1>1 DEF Tak!Start, Linked, Tak!Row
  <2> QED
    BY <2>1, RowUsable
<1>2. CASE Tak!Approve
  BY <1>2, RowUsable DEF Tak!Approve, Usable
<1>3. CASE Tak!Unlink
  BY <1>3, UnlinkedIsRow, RowUsable DEF Tak!Unlink
<1>4. CASE Tak!Expire
  <2>1. row'.status = row.status /\ row'.refresh = row.refresh /\ UNCHANGED <<live, task, click>>
    BY <1>4 DEF Tak!Expire, Linked, Tak!Row
  <2> QED
    BY <2>1, RowUsable DEF Usable
<1>5. CASE Tak!LoseKey
  BY <1>5 DEF Tak!LoseKey, Tak!Mishap
<1>6. CASE Tak!Crash
  <2>1. /\ \A r \in Tak!Reader : task[r].stage # "answered"
        /\ UNCHANGED <<row, live>>
        /\ task' = [r \in Tak!Reader |-> Tak!Idle] /\ click' = [c \in Click |-> Tak!Idle]
    BY <1>6 DEF Tak!Crash
  <2> QED
    BY <2>1, IdleIsTask DEF Usable, Refreshes, Fresh
<1>7. ASSUME NEW c \in Click, Tak!PollAsk(c)
      PROVE  Usable'
  BY <1>7, PollAskUsable
<1>8. ASSUME NEW c \in Click, Tak!PollSave(c)
      PROVE  Usable'
  BY <1>8, PollSaveUsable
<1>9. ASSUME NEW p \in Page, Tak!Show(p)
      PROVE  Usable'
  <2>1. PICK new : new = [Tak!Idle EXCEPT !.stage = "shown", !.copy = row]
    OBVIOUS
  <2>2. new \in Tasks /\ new.stage = "shown" /\ new.copy = row /\ new.answer = 0
    BY <2>1, IdleIsTask DEF Tasks, Linked
  <2>3. /\ task' = [task EXCEPT ![p] = new] /\ UNCHANGED <<row, live, click>>
        /\ task[p].stage = "idle" /\ row.status = "linked"
    BY <1>9, <2>1 DEF Tak!Show
  <2>4. p \in Tak!Reader
    BY DEF Tak!Reader
  <2>5. task'[p] = new /\ \A q \in Tak!Reader \ {p} : task'[q] = task[q]
    BY <2>2, <2>3, <2>4, ReaderIs
  <2>6. Refreshes(p)'
    BY <2>2, <2>3, <2>5 DEF Refreshes, Usable
  <2> QED
    BY <2>2, <2>3, <2>4, <2>5, <2>6, TaskUsable
<1>10. ASSUME NEW r \in Tak!Reader, Tak!Ask(r)
       PROVE  Usable'
  BY <1>10, AskUsable
<1>11. ASSUME NEW r \in Tak!Reader, Tak!Rotated(r)
       PROVE  Usable'
  BY <1>11, RotatedUsable
<1>12. ASSUME NEW r \in Tak!Reader, Tak!AnswerLost(r)
       PROVE  Usable'
  BY <1>12 DEF Tak!AnswerLost, Tak!Mishap
<1>13. ASSUME NEW r \in Tak!Reader, Tak!Refused(r)
       PROVE  Usable'
  BY <1>13, RefusedHasACause
<1>14. ASSUME NEW r \in Tak!Reader, Tak!Save(r)
       PROVE  Usable'
  BY <1>14, SaveUsable
<1>15. ASSUME NEW r \in Tak!Reader, Tak!Done(r)
       PROVE  Usable'
  <2>1. /\ task' = [task EXCEPT ![r] = Tak!Idle] /\ UNCHANGED <<row, live, click>>
        /\ task[r].stage # "answered"
    BY <1>15 DEF Tak!Done
  <2>2. task'[r] = Tak!Idle /\ \A q \in Tak!Reader \ {r} : task'[q] = task[q]
    BY <2>1, IdleIsTask, ReaderIs
  <2>3. Refreshes(r)'
    BY <2>2, IdleIsTask DEF Refreshes
  <2> QED
    BY <2>1, <2>2, <2>3, IdleIsTask, TaskUsable
<1>16. CASE UNCHANGED Tak!linkVars
  BY <1>16, RowUsable DEF Tak!linkVars, Usable
<1> QED
  BY <1>1, <1>2, <1>3, <1>4, <1>5, <1>6, <1>7, <1>8, <1>9, <1>10, <1>11, <1>12, <1>13,
     <1>14, <1>15, <1>16 DEF Tak!Next

LEMMA BackedHolds == Spec => []Backed
<1>1. Init => Backed
  BY InitBacked DEF Init
<1>2. Backed /\ [Next]_vars => Backed'
  BY TakGovMoves, StepLinked, ExcuseStays, StepUsable DEF Backed
<1> QED
  BY <1>1, <1>2, PTL DEF Spec

\* A link is broken only after an answer was lost, the provider failed, the vault key went,
\* or a page judged by the row it had loaded before (tak_gov_link.access_token).
THEOREM BreaksAreExplained == Spec => []BrokenHasACause
<1>1. Backed => BrokenHasACause
  BY DEF Backed, Usable, BrokenHasACause, Tak!BrokenHasACause
<1> QED
  BY <1>1, BackedHolds, PTL

-----------------------------------------------------------------------------
(* The certificate authority                                               *)

LEMMA TrustMoves ==
    [Next]_vars => [Trust!Next]_(Trust!trustVars)
  BY DEF Next, AuditStep, BellStep, AlertStep, IdentityStep, TakGovStep, StackingStep,
     AppStep, LibraryStep, TrustStep, Others, vars, trustVars, Trust!trustVars, Trust!files,
     Trust!fleet

\* Every certificate a tablet may hold that was signed by a pair that belongs together
\* was signed by one of these.
Signers == {Trust!Root} \cup retired \cup (IF Trust!Pair THEN {issuing} ELSE {})

\* T holds the signer of a tablet's certificate, which it will not outlive.
Vouched(leaf, T) ==
    \/ Trust!Torn(leaf)
    \/ \E c \in T : c.serial = leaf.key /\ c.name = leaf.name /\ leaf.until <= c.until - Margin

\* A set that may be published, or verified by, while the server signs as it does.
Serves(T) ==
    /\ \A h \in Holder : Vouched(held[h], T)
    /\ server # NoFile => server.cert \in T

\* What p would publish if it read retired/ now.
Gathered(p) ==
    IF loader[p].at = "publish" THEN loader[p].trusted ELSE Trust!TrustSet(loader[p].cert)

Readers == [at : {"read"}, cert : Trust!Certificate]
Publishers == [at : {"publish"}, cert : Trust!Certificate, key : Nat,
               trusted : SUBSET Trust!Certificate]
Authorities == [cert : Trust!Certificate, key : Nat, trusted : SUBSET Trust!Certificate]
Leaves == [name : Nat, key : Nat, by : Nat, until : Int]

Files ==
    /\ rootKey \in BOOLEAN
    /\ issuing \in Trust!Certificate \cup {NoFile} /\ issuingKey \in Nat \cup {NoFile}
    /\ retired \subseteq Trust!Certificate
    /\ command = "unlink certificate" => issuing \in retired
    /\ command \in {"unlink key", "sign"} => issuing = NoFile
    /\ command \in {"write key", "publish"} => issuing # NoFile
    /\ command = "publish" => issuingKey # NoFile
    /\ command \in {"unlink certificate", "unlink key", "sign"} => Trust!Unused # {}

Fleet ==
    /\ server \in Authorities \cup {NoFile}
    /\ loader \in [Trust!Processes -> Readers \cup Publishers \cup {Trust!Idle}]
    /\ held \in [Holder -> Leaves]
    /\ heard \subseteq Holder
    /\ today \in 0 .. MaxTime

\* Serials, and names where each intermediate has one of its own, tell certificates apart.
Distinct ==
    /\ \A c \in Trust!Known : c.serial >= 1 /\ c.name = c.serial
    /\ \A c, d \in Trust!Known : c.serial = d.serial => c = d

Loads ==
    /\ \A p \in Trust!Processes : loader[p].at # "idle" =>
           /\ Gathered(p) \subseteq {Trust!Root} \cup Trust!Known
           /\ Serves(Gathered(p))
           /\ loader[p].cert \in Signers \cap Gathered(p)
    /\ loader["server"].at # "idle" => server = NoFile
    /\ loader["console"].at # "idle" => server # NoFile

Serving ==
    /\ Serves(Signers) /\ Serves(bundle)
    /\ server # NoFile => /\ server.trusted \subseteq {Trust!Root} \cup Trust!Known
                          /\ Serves(server.trusted)

InTime ==
    \A h \in Holder :
        \/ Trust!Torn(held[h])
        \/ today <= held[h].until /\ (h \in heard => today < held[h].until)

Trusted == Files /\ Fleet /\ Distinct /\ Loads /\ Serving /\ InTime

LEMMA VouchedMore ==
    ASSUME NEW leaf, NEW S, NEW T, S \subseteq T, Vouched(leaf, S)
    PROVE  Vouched(leaf, T)
  BY DEF Vouched

LEMMA LoaderAt ==
    ASSUME Fleet, NEW p \in Trust!Processes
    PROVE  /\ loader[p].at = "idle" <=> loader[p] = Trust!Idle
           /\ loader[p].at = "read" <=> loader[p] \in Readers
           /\ loader[p].at = "publish" <=> loader[p] \in Publishers
           /\ loader[p].at \in {"idle", "read", "publish"}
  BY DEF Fleet, Readers, Publishers, Trust!Idle

LEMMA RootIsCertificate ==
    /\ Trust!Root \in Trust!Certificate /\ Trust!Root.serial = 0 /\ Trust!Root.name = 0
    /\ Trust!Root.until = MaxTime + DeviceLife + Margin
  BY TrustAssumption DEF Trust!Root, Trust!Certificate

LEMMA InitTrusted ==
    ASSUME Trust!Init
    PROVE  Trusted
<1> USE TrustAssumption, RootIsCertificate DEF Trust!Init
<1>1. Files
  BY DEF Files
<1>2. Fleet
  BY DEF Fleet, Authorities, Leaves, Trust!Signed
<1>3. Distinct
  BY DEF Distinct, Trust!Known
<1>4. server.cert = Trust!Root
  OBVIOUS
<1>5. Serves({Trust!Root})
  BY <1>4 DEF Serves, Vouched, Trust!Signed
<1>6. Loads
  BY DEF Loads, Trust!Processes, Trust!Idle
<1>7. Serving
  BY <1>5 DEF Serving, Signers, Trust!Pair, Trust!Known
<1>8. InTime
  BY DEF InTime, Trust!Signed
<1> QED
  BY <1>1, <1>2, <1>3, <1>6, <1>7, <1>8 DEF Trusted

-----------------------------------------------------------------------------
\* The server and the tablets stand still while files come and the bundle is written
\* with all that ever signed.
LEMMA FilesServe ==
    ASSUME Trusted, Files', UNCHANGED <<server, loader, held, heard, today>>,
           retired \subseteq retired', Signers \subseteq Signers',
           Trust!Known \subseteq Trust!Known',
           bundle' \in {bundle, Signers}
    PROVE  Fleet' /\ Loads' /\ Serving' /\ InTime'
<1>1. Fleet'
  BY DEF Trusted, Fleet
<1>2. InTime'
  BY DEF Trusted, InTime
<1>3. ASSUME NEW S, NEW T, S \subseteq T, Serves(S)
      PROVE  Serves(T)'
  BY <1>3, VouchedMore DEF Serves
<1>4. Serving'
  BY <1>3 DEF Trusted, Serving
<1>5. ASSUME NEW p \in Trust!Processes, loader[p].at # "idle"
      PROVE  /\ Gathered(p)' \subseteq {Trust!Root} \cup Trust!Known'
             /\ Serves(Gathered(p))'
             /\ loader'[p].cert \in Signers' \cap Gathered(p)'
  <2>1. /\ Gathered(p) \subseteq {Trust!Root} \cup Trust!Known
        /\ Serves(Gathered(p))
        /\ loader[p].cert \in Signers \cap Gathered(p)
    BY <1>5 DEF Trusted, Loads
  <2>2. Gathered(p) \subseteq Gathered(p)'
    BY DEF Gathered, Trust!TrustSet
  <2>3. Gathered(p)' \subseteq Gathered(p) \cup retired'
    BY DEF Gathered, Trust!TrustSet
  <2>4. retired' \subseteq Trust!Known'
    BY DEF Trust!Known
  <2> QED
    BY <1>3, <2>1, <2>2, <2>3, <2>4
<1>6. Loads'
  BY <1>5 DEF Trusted, Loads
<1> QED
  BY <1>1, <1>2, <1>4, <1>6

LEMMA NewSerial ==
    ASSUME Trust!Unused # {}
    PROVE  /\ Trust!NextSerial \in 1 .. MaxIssuers
           /\ \A c \in Trust!Known : c.serial # Trust!NextSerial
  BY DEF Trust!NextSerial, Trust!Unused

FilesMove ==
    /\ Files' /\ Distinct'
    /\ UNCHANGED <<server, loader, held, heard, today>>
    /\ retired \subseteq retired' /\ Signers \subseteq Signers'
    /\ Trust!Known \subseteq Trust!Known'
    /\ bundle' \in {bundle, Signers}

LEMMA RetireMoves ==
    ASSUME Files, Distinct, Trust!Retire
    PROVE  FilesMove
<1> USE DEF Trust!Retire, Trust!fleet
<1>1. Trust!Known' = Trust!Known /\ Trust!Unused' = Trust!Unused
  BY DEF Trust!Known, Trust!Unused
<1>2. Files'
  BY <1>1 DEF Files, Trust!Known
<1>3. Distinct'
  BY <1>1 DEF Distinct
<1>4. retired \subseteq retired' /\ Signers \subseteq Signers'
  BY DEF Trust!Known, Signers, Trust!Pair
<1> QED
  BY <1>1, <1>2, <1>3, <1>4 DEF FilesMove

LEMMA UnlinkMoves ==
    ASSUME Files, Distinct, Trust!UnlinkCertificate \/ Trust!UnlinkKey
    PROVE  FilesMove
<1> USE DEF Trust!UnlinkCertificate, Trust!UnlinkKey, Trust!fleet
<1>1. Trust!Known' = Trust!Known
  BY DEF Trust!Known, Files
<1>2. Trust!Unused' = Trust!Unused
  BY <1>1 DEF Trust!Unused
<1>3. Files'
  BY <1>2 DEF Files
<1>4. Distinct'
  BY <1>1 DEF Distinct
<1>5. Signers \subseteq Signers'
  BY DEF Signers, Trust!Pair, Files
<1> QED
  BY <1>1, <1>3, <1>4, <1>5 DEF FilesMove

LEMMA WriteCertificateMoves ==
    ASSUME Files, Distinct, today \in Nat, ~SameName, Trust!WriteCertificate
    PROVE  FilesMove
<1>1. MaxIssuers \in Nat /\ IssuerLife \in Nat /\ NoFile \notin Trust!Certificate
  BY TrustAssumption
<1>2. PICK n : n = Trust!NextSerial
  OBVIOUS
<1>3. n \in 1 .. MaxIssuers /\ \A c \in Trust!Known : c.serial # n
  BY <1>2, NewSerial DEF Files, Trust!WriteCertificate
<1>4. n \in Nat /\ n >= 1
  BY <1>1, <1>3
<1>5. PICK new : new = [serial |-> n, name |-> n, until |-> today + IssuerLife]
  OBVIOUS
<1>6. new \in Trust!Certificate /\ new.serial = n /\ new.name = n /\ new # NoFile
  <2>1. today + IssuerLife \in Int
    BY <1>1
  <2>2. new \in Trust!Certificate /\ new.serial = n /\ new.name = n
    BY <1>4, <1>5, <2>1 DEF Trust!Certificate
  <2> QED
    BY <1>1, <2>2
<1>7. /\ issuing = NoFile /\ issuing' = new /\ command' = "write key"
      /\ UNCHANGED <<rootKey, issuingKey, retired, bundle, server, loader, held, heard, today>>
  BY <1>2, <1>5 DEF Files, Trust!WriteCertificate, Trust!fleet
<1>8. Trust!Known = retired /\ Trust!Known' = retired \cup {new}
  BY <1>6, <1>7 DEF Trust!Known
<1>9. Files'
  BY <1>6, <1>7 DEF Files
<1>10. Distinct'
  BY <1>3, <1>4, <1>6, <1>8 DEF Distinct
<1>11. Signers \subseteq Signers'
  BY <1>7 DEF Signers, Trust!Pair
<1> QED
  BY <1>7, <1>8, <1>9, <1>10, <1>11 DEF FilesMove

LEMMA WriteKeyMoves ==
    ASSUME Files, Distinct, Trust!WriteKey
    PROVE  FilesMove
<1> USE TrustAssumption DEF Trust!WriteKey, Trust!fleet
<1>1. Trust!Known' = Trust!Known
  BY DEF Trust!Known
<1>2. issuing \in Trust!Certificate /\ issuing # NoFile /\ issuing.serial \in Nat
  BY DEF Files, Trust!Certificate
<1>3. Files'
  BY <1>2 DEF Files
<1>4. Distinct'
  BY <1>1 DEF Distinct
<1>5. Signers \subseteq Signers'
  BY DEF Signers, Trust!Pair
<1> QED
  BY <1>1, <1>3, <1>4, <1>5 DEF FilesMove

LEMMA PublishMoves ==
    ASSUME Files, Distinct, Trust!WriteBundle \/ Trust!DeleteRoot
    PROVE  FilesMove
<1> USE DEF Trust!WriteBundle, Trust!DeleteRoot, Trust!fleet
<1>1. Trust!Known' = Trust!Known /\ Signers' = Signers
  BY DEF Trust!Known, Signers, Trust!Pair
<1>2. Trust!Pair /\ bundle' = Signers
  BY DEF Files, Trust!Pair, Signers, Trust!TrustSet
<1>3. Files'
  BY DEF Files
<1>4. Distinct'
  BY <1>1 DEF Distinct
<1> QED
  BY <1>1, <1>2, <1>3, <1>4 DEF FilesMove

LEMMA DieMoves ==
    ASSUME Files, Distinct, Trust!Die \/ Trust!RestoreRoot
    PROVE  FilesMove
<1> USE DEF Trust!Die, Trust!RestoreRoot, Trust!fleet, Trust!files
<1>1. Trust!Known' = Trust!Known /\ Signers' = Signers
  BY DEF Trust!Known, Signers, Trust!Pair
<1>2. Files'
  BY DEF Files
<1>3. Distinct'
  BY <1>1 DEF Distinct
<1> QED
  BY <1>1, <1>2, <1>3 DEF FilesMove

-----------------------------------------------------------------------------
\* The files stand still, but for the bundle, while somebody loads them.
LEMMA FilesStay ==
    ASSUME Files, Distinct, UNCHANGED <<rootKey, issuing, issuingKey, retired, command>>
    PROVE  Files' /\ Distinct' /\ Signers' = Signers /\ Trust!Known' = Trust!Known
<1>1. Trust!Known' = Trust!Known /\ Signers' = Signers
  BY DEF Trust!Known, Signers, Trust!Pair
<1>2. Trust!Unused' = Trust!Unused
  BY <1>1 DEF Trust!Unused
<1> QED
  BY <1>1, <1>2 DEF Files, Distinct

\* What was read of a directory that still stands as it did.
LEMMA LoadStays ==
    ASSUME Trusted, NEW p \in Trust!Processes, loader'[p] = loader[p], loader[p].at # "idle",
           UNCHANGED <<retired, held>>, Signers' = Signers, Trust!Known' = Trust!Known,
           server' = server
    PROVE  /\ Gathered(p)' \subseteq {Trust!Root} \cup Trust!Known'
           /\ Serves(Gathered(p))'
           /\ loader'[p].cert \in Signers' \cap Gathered(p)'
<1>1. Gathered(p)' = Gathered(p)
  BY DEF Gathered, Trust!TrustSet
<1> QED
  BY <1>1 DEF Trusted, Loads, Serves

LEMMA BeginLoadTrusted ==
    ASSUME Trusted, NEW p \in Trust!Processes, Trust!BeginLoad(p)
    PROVE  Trusted'
<1> DEFINE shape == IF Trust!Pair THEN [at |-> "read", cert |-> issuing]
                    ELSE IF rootKey THEN [at |-> "publish", cert |-> Trust!Root, key |-> 0,
                                          trusted |-> Trust!TrustSet(Trust!Root)]
                    ELSE Trust!Idle
<1>1. /\ loader[p] = Trust!Idle
      /\ IF p = "server" THEN /\ loader' = [loader EXCEPT !["server"] = shape,
                                                          !["console"] = Trust!Idle]
                              /\ server' = NoFile
         ELSE server # NoFile /\ loader' = [loader EXCEPT ![p] = shape] /\ UNCHANGED server
      /\ UNCHANGED <<rootKey, issuing, issuingKey, retired, bundle, command, held, heard, today>>
  BY DEF Trust!BeginLoad, Trust!files, Trust!fleet
<1>2. Files' /\ Distinct' /\ Signers' = Signers /\ Trust!Known' = Trust!Known
  BY <1>1, FilesStay DEF Trusted
<1>3. Trust!Processes = {"server", "console"}
  BY DEF Trust!Processes
<1>4. PICK new : new = shape
  OBVIOUS
<1>5. /\ new \in Readers \cup Publishers \cup {Trust!Idle}
      /\ new.at # "idle" => /\ new.cert \in Signers
                            /\ (IF new.at = "publish" THEN new.trusted
                                ELSE Trust!TrustSet(new.cert)) = Signers
  <2>1. CASE Trust!Pair
    <3>1. issuing \in Trust!Certificate /\ new = [at |-> "read", cert |-> issuing]
      BY <1>4, <2>1 DEF Trusted, Files, Trust!Pair
    <3> QED
      BY <2>1, <3>1 DEF Readers, Signers, Trust!TrustSet
  <2>2. CASE ~Trust!Pair /\ rootKey
    <3>1. new = [at |-> "publish", cert |-> Trust!Root, key |-> 0,
                 trusted |-> Trust!TrustSet(Trust!Root)]
      BY <1>4, <2>2
    <3>2. Trust!TrustSet(Trust!Root) = Signers /\ Signers \subseteq Trust!Certificate
      BY <2>2, RootIsCertificate DEF Signers, Trust!TrustSet, Trusted, Files
    <3> QED
      BY <3>1, <3>2, RootIsCertificate DEF Publishers, Signers
  <2>3. CASE ~Trust!Pair /\ ~rootKey
    BY <1>4, <2>3 DEF Trust!Idle
  <2> QED
    BY <2>1, <2>2, <2>3
<1>6. /\ loader' \in [Trust!Processes -> Readers \cup Publishers \cup {Trust!Idle}]
      /\ loader'[p] = new
      /\ \A q \in Trust!Processes \ {p} :
             loader'[q] = IF p = "server" THEN Trust!Idle ELSE loader[q]
  BY <1>1, <1>3, <1>4, <1>5 DEF Trusted, Fleet
<1>7. Fleet'
  BY <1>1, <1>6 DEF Trusted, Fleet
<1>8. server' \in {server, NoFile}
  BY <1>1
<1>9. ASSUME NEW S, Serves(S)
      PROVE  Serves(S)'
  BY <1>1, <1>8, <1>9 DEF Serves
<1>10. Serving'
  BY <1>1, <1>2, <1>8, <1>9 DEF Trusted, Serving
<1>11. ASSUME NEW q \in Trust!Processes, loader'[q].at # "idle"
       PROVE  /\ Gathered(q)' \subseteq {Trust!Root} \cup Trust!Known'
              /\ Serves(Gathered(q))'
              /\ loader'[q].cert \in Signers' \cap Gathered(q)'
  <2>1. CASE q = p
    <3>1. Gathered(q)' = Signers /\ new.cert \in Signers
      BY <1>1, <1>5, <1>6, <1>11, <2>1 DEF Gathered, Trust!TrustSet
    <3>2. Signers \subseteq {Trust!Root} \cup Trust!Known
      BY DEF Signers, Trust!Known, Trust!Pair
    <3>3. Serves(Signers)
      BY DEF Trusted, Serving
    <3> QED
      BY <1>2, <1>6, <1>9, <2>1, <3>1, <3>2, <3>3
  <2>2. CASE q # p
    <3>1. p # "server" /\ loader'[q] = loader[q] /\ server' = server
      BY <1>1, <1>6, <1>11, <2>2 DEF Trust!Idle
    <3> QED
      BY <1>1, <1>2, <1>11, <3>1, LoadStays
  <2> QED
    BY <2>1, <2>2
<1>12. Loads'
  <2>1. loader'["server"].at # "idle" => server' = NoFile
    BY <1>1, <1>3, <1>6 DEF Trusted, Loads
  <2>2. loader'["console"].at # "idle" => server' # NoFile
    BY <1>1, <1>3, <1>6 DEF Trusted, Loads, Trust!Idle
  <2> QED
    BY <1>11, <2>1, <2>2 DEF Loads
<1>13. InTime'
  BY <1>1 DEF Trusted, InTime
<1> QED
  BY <1>2, <1>7, <1>10, <1>12, <1>13 DEF Trusted

LEMMA ReadKeyTrusted ==
    ASSUME Trusted, NEW p \in Trust!Processes, Trust!ReadKey(p)
    PROVE  Trusted'
<1>1. /\ loader[p].at = "read"
      /\ loader' = [loader EXCEPT ![p] =
                       IF issuingKey = NoFile THEN Trust!Idle
                       ELSE [at |-> "publish", cert |-> loader[p].cert, key |-> issuingKey,
                             trusted |-> Trust!TrustSet(loader[p].cert)]]
      /\ UNCHANGED <<rootKey, issuing, issuingKey, retired, bundle, command, server, held,
                     heard, today>>
  BY DEF Trust!ReadKey, Trust!files, Trust!fleet, Trusted, Fleet
<1>2. Files' /\ Distinct' /\ Signers' = Signers /\ Trust!Known' = Trust!Known
  BY <1>1, FilesStay DEF Trusted
<1>3. PICK new : new = IF issuingKey = NoFile THEN Trust!Idle
                       ELSE [at |-> "publish", cert |-> loader[p].cert, key |-> issuingKey,
                             trusted |-> Trust!TrustSet(loader[p].cert)]
  OBVIOUS
<1>4. loader[p] \in Readers
  BY <1>1, LoaderAt DEF Trusted
<1>5. /\ new \in Publishers \cup {Trust!Idle}
      /\ new.at # "idle" => /\ new.at = "publish" /\ new.cert = loader[p].cert
                            /\ new.trusted = Gathered(p)
  <2>1. Trust!TrustSet(loader[p].cert) \subseteq Trust!Certificate
    BY <1>4, RootIsCertificate DEF Readers, Trust!TrustSet, Trusted, Files
  <2>2. Gathered(p) = Trust!TrustSet(loader[p].cert)
    BY <1>1 DEF Gathered
  <2>3. CASE issuingKey = NoFile
    BY <1>3, <2>3 DEF Trust!Idle
  <2>4. CASE issuingKey # NoFile
    <3>1. issuingKey \in Nat
      BY <2>4 DEF Trusted, Files
    <3>2. new = [at |-> "publish", cert |-> loader[p].cert, key |-> issuingKey,
                 trusted |-> Trust!TrustSet(loader[p].cert)]
      BY <1>3, <2>4
    <3> QED
      BY <1>4, <2>1, <2>2, <3>1, <3>2 DEF Readers, Publishers
  <2> QED
    BY <2>3, <2>4
<1>6. /\ loader' \in [Trust!Processes -> Readers \cup Publishers \cup {Trust!Idle}]
      /\ loader'[p] = new /\ \A q \in Trust!Processes \ {p} : loader'[q] = loader[q]
  BY <1>1, <1>3, <1>5 DEF Trusted, Fleet
<1>7. Fleet'
  BY <1>1, <1>6 DEF Trusted, Fleet
<1>8. Serving'
  BY <1>1, <1>2 DEF Trusted, Serving, Serves
<1>9. ASSUME NEW q \in Trust!Processes, loader'[q].at # "idle"
      PROVE  /\ Gathered(q)' \subseteq {Trust!Root} \cup Trust!Known'
             /\ Serves(Gathered(q))'
             /\ loader'[q].cert \in Signers' \cap Gathered(q)'
  <2>1. CASE q = p
    <3>1. Gathered(q)' = Gathered(p) /\ loader'[q].cert = loader[p].cert
      BY <1>5, <1>6, <1>9, <2>1 DEF Gathered
    <3>2. /\ Gathered(p) \subseteq {Trust!Root} \cup Trust!Known
          /\ Serves(Gathered(p))
          /\ loader[p].cert \in Signers \cap Gathered(p)
      BY <1>1 DEF Trusted, Loads
    <3> QED
      BY <1>1, <1>2, <3>1, <3>2 DEF Serves
  <2>2. CASE q # p
    BY <1>1, <1>2, <1>6, <1>9, <2>2, LoadStays
  <2> QED
    BY <2>1, <2>2
<1>10. ASSUME NEW q \in Trust!Processes, loader'[q].at # "idle"
       PROVE  loader[q].at # "idle"
  BY <1>1, <1>6, <1>10
<1>11. Loads'
  BY <1>1, <1>9, <1>10 DEF Trusted, Loads, Trust!Processes
<1>12. InTime'
  BY <1>1 DEF Trusted, InTime
<1> QED
  BY <1>2, <1>7, <1>8, <1>11, <1>12 DEF Trusted

LEMMA EndLoadTrusted ==
    ASSUME Trusted, NEW p \in Trust!Processes, Trust!EndLoad(p)
    PROVE  Trusted'
<1>1. /\ loader[p].at = "publish" /\ bundle' = loader[p].trusted
      /\ server' = IF p = "server" THEN [cert |-> loader[p].cert, key |-> loader[p].key,
                                         trusted |-> loader[p].trusted]
                   ELSE server
      /\ loader' = [loader EXCEPT ![p] = Trust!Idle]
      /\ UNCHANGED <<rootKey, issuing, issuingKey, retired, command, held, heard, today>>
  BY DEF Trust!EndLoad, Trust!fleet
<1>2. Files' /\ Distinct' /\ Signers' = Signers /\ Trust!Known' = Trust!Known
  BY <1>1, FilesStay DEF Trusted
<1>3. loader[p] \in Publishers
  BY <1>1, LoaderAt DEF Trusted
<1>4. /\ loader' \in [Trust!Processes -> Readers \cup Publishers \cup {Trust!Idle}]
      /\ loader'[p] = Trust!Idle /\ \A q \in Trust!Processes \ {p} : loader'[q] = loader[q]
  BY <1>1 DEF Trusted, Fleet
<1>5. server' \in Authorities \cup {NoFile}
  BY <1>1, <1>3 DEF Trusted, Fleet, Publishers, Authorities
<1>6. Fleet'
  BY <1>1, <1>4, <1>5 DEF Trusted, Fleet
<1>7. /\ loader[p].trusted \subseteq {Trust!Root} \cup Trust!Known
      /\ Serves(loader[p].trusted)
      /\ loader[p].cert \in Signers \cap loader[p].trusted
  BY <1>1 DEF Trusted, Loads, Gathered
<1>8. ASSUME NEW S, Serves(S), p = "server" => loader[p].cert \in S
      PROVE  Serves(S)'
  BY <1>1, <1>8 DEF Serves
<1>9. Serves(Signers)' /\ Serves(bundle)'
  BY <1>1, <1>2, <1>7, <1>8 DEF Trusted, Serving
<1>10. server' # NoFile => /\ server'.trusted \subseteq {Trust!Root} \cup Trust!Known'
                           /\ Serves(server.trusted)'
  <2>1. CASE p = "server"
    <3>1. server'.trusted = loader[p].trusted
      BY <1>1, <2>1
    <3> QED
      BY <1>2, <1>7, <1>8, <3>1
  <2>2. CASE p # "server"
    <3>1. server' = server
      BY <1>1, <2>2
    <3> QED
      BY <1>2, <1>8, <2>2, <3>1 DEF Trusted, Serving
  <2> QED
    BY <2>1, <2>2
<1>11. Serving'
  BY <1>9, <1>10 DEF Serving
<1>12. ASSUME NEW q \in Trust!Processes, loader'[q].at # "idle"
       PROVE  /\ q # p /\ loader'[q] = loader[q] /\ server' = server
              /\ Gathered(q)' \subseteq {Trust!Root} \cup Trust!Known'
              /\ Serves(Gathered(q))'
              /\ loader'[q].cert \in Signers' \cap Gathered(q)'
  <2>1. q # p /\ loader'[q] = loader[q]
    BY <1>4, <1>12 DEF Trust!Idle
  <2>2. p # "server"
    BY <1>1, <1>12, <2>1 DEF Trusted, Loads, Trust!Processes
  <2>3. server' = server
    BY <1>1, <2>2
  <2> QED
    BY <1>1, <1>2, <1>12, <2>1, <2>3, LoadStays
<1>13. Loads'
  <2>1. loader'["server"].at # "idle" => server' = NoFile
    BY <1>12 DEF Trusted, Loads, Trust!Processes
  <2>2. loader'["console"].at # "idle" => server' # NoFile
    BY <1>12 DEF Trusted, Loads, Trust!Processes
  <2> QED
    BY <1>12, <2>1, <2>2 DEF Loads
<1>14. InTime'
  BY <1>1 DEF Trusted, InTime
<1> QED
  BY <1>2, <1>6, <1>11, <1>13, <1>14 DEF Trusted

-----------------------------------------------------------------------------
\* A tablet whose certificate belongs together is let in.
LEMMA VouchedIsAccepted ==
    ASSUME Trusted, server # NoFile, NEW h \in Holder, ~Trust!Torn(held[h])
    PROVE  Trust!Accepted(held[h])
<1>1. PICK w \in server.trusted : /\ w.serial = held[h].key /\ w.name = held[h].name
                                  /\ held[h].until <= w.until - Margin
  BY DEF Trusted, Serving, Serves, Vouched
<1>2. \A i \in {Trust!Root} \cup Trust!Known : i \in Trust!Certificate /\ i.name = i.serial
  BY RootIsCertificate DEF Trusted, Distinct, Files, Trust!Known
<1>3. ASSUME NEW i \in {Trust!Root} \cup Trust!Known, i.name = held[h].name
      PROVE  i = w
  BY <1>1, <1>2, <1>3, RootIsCertificate DEF Trusted, Serving, Distinct
<1>4. today <= held[h].until /\ today <= w.until
  <2>1. today <= held[h].until /\ today \in Int /\ held[h].until \in Int
    BY TrustAssumption DEF Trusted, InTime, Fleet, Leaves
  <2>2. w.until \in Int
    BY <1>1, <1>2 DEF Trusted, Serving, Trust!Certificate
  <2>3. Margin \in Nat
    BY TrustAssumption
  <2> QED
    BY <1>1, <2>1, <2>2, <2>3
<1>5. w \in server.trusted /\ \A i \in server.trusted : i.name = held[h].name => i = w
  BY <1>1, <1>3 DEF Trusted, Serving
<1>6. Trust!IssuersOf(held[h]) = {w}
  BY <1>1, <1>5 DEF Trust!IssuersOf
<1>7. Trust!Verifies(held[h])
  BY <1>1, <1>4, <1>6 DEF Trust!Verifies
<1>8. Trust!PassesTheEdge(held[h])
  BY DEF Trusted, Serving, Serves, Vouched, Trust!PassesTheEdge
<1> QED
  BY <1>7, <1>8 DEF Trust!Accepted

LEMMA MinOf ==
    ASSUME NEW a \in Int, NEW b \in Int
    PROVE  Trust!Min({a, b}) \in {a, b} /\ Trust!Min({a, b}) <= a /\ Trust!Min({a, b}) <= b
<1>1. \E x \in {a, b} : \A y \in {a, b} : x <= y
  <2>1. CASE a <= b
    BY <2>1
  <2>2. CASE b <= a
    BY <2>2
  <2> QED
    BY <2>1, <2>2
<1> QED
  BY <1>1 DEF Trust!Min

\* A renewed certificate names the signer, ends before it, and not at once.
LEMMA RenewedIsVouched ==
    ASSUME Trusted, Trust!CanSign,
           NEW leaf, leaf = Trust!Signed(server.cert, server.key, Trust!CappedExpiry(server.cert))
    PROVE  /\ leaf \in Leaves /\ today < leaf.until
           /\ \A T : server.cert \in T => Vouched(leaf, T)
<1>1. server \in Authorities
  BY DEF Trusted, Fleet, Trust!CanSign
<1>2. /\ server.cert.until \in Int /\ server.cert.name \in Nat /\ server.cert.serial \in Nat
      /\ server.key \in Nat
  BY <1>1 DEF Authorities, Trust!Certificate
<1>3. Margin \in Nat /\ DeviceLife \in Nat \ {0} /\ today \in Int
  BY TrustAssumption DEF Trusted, Fleet
<1>4. /\ Trust!CappedExpiry(server.cert) \in Int
      /\ Trust!CappedExpiry(server.cert) <= server.cert.until - Margin
      /\ today < Trust!CappedExpiry(server.cert)
  <2>1. PICK a, b : a = today + DeviceLife /\ b = server.cert.until - Margin
    OBVIOUS
  <2>2. a \in Int /\ b \in Int /\ today < a /\ today < b
    BY <1>2, <1>3, <2>1 DEF Trust!CanSign
  <2>3. Trust!CappedExpiry(server.cert) = Trust!Min({a, b})
    BY <2>1 DEF Trust!CappedExpiry
  <2> QED
    BY <2>1, <2>2, <2>3, MinOf
<1>5. leaf = [name |-> server.cert.name, key |-> server.key, by |-> server.cert.serial,
              until |-> Trust!CappedExpiry(server.cert)]
  BY DEF Trust!Signed
<1>6. leaf \in Leaves /\ today < leaf.until
  BY <1>2, <1>4, <1>5 DEF Leaves
<1>7. ASSUME NEW T, server.cert \in T
      PROVE  Vouched(leaf, T)
  BY <1>4, <1>5, <1>7 DEF Vouched, Trust!Torn
<1> QED
  BY <1>6, <1>7

LEMMA CheckinTrusted ==
    ASSUME Trusted, NEW h \in Holder, Trust!Checkin(h)
    PROVE  Trusted'
<1>1. /\ server # NoFile
      /\ heard' = IF Trust!CanSign THEN heard \cup {h} ELSE heard
      /\ UNCHANGED <<rootKey, issuing, issuingKey, retired, bundle, command, server, loader, today>>
  BY DEF Trust!Checkin, Trust!files
<1>2. Files' /\ Distinct' /\ Signers' = Signers /\ Trust!Known' = Trust!Known
  BY <1>1, FilesStay DEF Trusted
<1>3. PICK leaf : leaf = Trust!Signed(server.cert, server.key, Trust!CappedExpiry(server.cert))
  OBVIOUS
<1>4. \/ held' = held /\ ~(/\ Trust!Accepted(held[h]) /\ held[h].until - today <= Window
                           /\ Trust!CanSign)
      \/ held' = [held EXCEPT ![h] = leaf] /\ Trust!CanSign
  BY <1>3 DEF Trust!Checkin
<1>5. Trust!CanSign => /\ leaf \in Leaves /\ today < leaf.until
                       /\ \A T : server.cert \in T => Vouched(leaf, T)
  BY <1>3, RenewedIsVouched
<1>6. held' \in [Holder -> Leaves]
  BY <1>4, <1>5 DEF Trusted, Fleet
<1>7. Fleet'
  BY <1>1, <1>6 DEF Trusted, Fleet
<1>8. \A g \in Holder : held'[g] = held[g] \/ (Trust!CanSign /\ held'[g] = leaf)
  BY <1>4, <1>5 DEF Trusted, Fleet
<1>9. ASSUME NEW S, Serves(S)
      PROVE  Serves(S)'
  BY <1>1, <1>5, <1>8, <1>9 DEF Serves
<1>10. Serving'
  BY <1>1, <1>2, <1>9 DEF Trusted, Serving
<1>11. \A p \in Trust!Processes : Gathered(p)' = Gathered(p)
  BY <1>1 DEF Gathered, Trust!TrustSet
<1>12. Loads'
  BY <1>1, <1>2, <1>9, <1>11 DEF Trusted, Loads
<1>13. ASSUME NEW g \in Holder, ~Trust!Torn(held'[g])
       PROVE  today <= held'[g].until /\ (g \in heard' => today < held'[g].until)
  <2>1. CASE Trust!CanSign /\ held'[g] = leaf
    <3>1. today < leaf.until /\ today \in Int /\ leaf.until \in Int
      BY <1>5, <2>1, TrustAssumption DEF Trusted, Fleet, Leaves
    <3> QED
      BY <2>1, <3>1
  <2>2. CASE held'[g] = held[g] /\ ~(Trust!CanSign /\ held'[g] = leaf)
    <3>1. /\ today <= held[g].until /\ (g \in heard => today < held[g].until)
          /\ ~Trust!Torn(held[g])
      BY <1>13, <2>2 DEF Trusted, InTime
    <3>2. CASE g # h \/ ~Trust!CanSign
      BY <1>1, <2>2, <3>1, <3>2
    <3>3. CASE g = h /\ Trust!CanSign
      <4>1. held' = held
        BY <1>4, <1>6, <2>2, <3>3 DEF Trusted, Fleet
      <4>2. Trust!Accepted(held[h])
        BY <1>1, <3>1, <3>3, VouchedIsAccepted
      <4>3. ~(held[h].until - today <= Window) \/ held' = [held EXCEPT ![h] = leaf]
        BY <1>4, <3>3, <4>2
      <4>4. ~(held[h].until - today <= Window)
        BY <2>2, <3>3, <4>3 DEF Trusted, Fleet
      <4>5. held[h].until \in Int /\ today \in Int /\ Window \in Nat
        BY TrustAssumption DEF Trusted, Fleet, Leaves
      <4> QED
        BY <1>1, <2>2, <3>1, <3>3, <4>4, <4>5
    <3> QED
      BY <3>2, <3>3
  <2> QED
    BY <1>8, <2>1, <2>2
<1>14. InTime'
  BY <1>1, <1>13 DEF InTime, Trust!Torn
<1> QED
  BY <1>2, <1>7, <1>10, <1>12, <1>14 DEF Trusted

LEMMA TickTrusted ==
    ASSUME Trusted, Trust!Tick
    PROVE  Trusted'
<1>1. /\ today < MaxTime /\ heard = Holder /\ today' = today + 1 /\ heard' = {}
      /\ UNCHANGED <<rootKey, issuing, issuingKey, retired, bundle, command, server, loader, held>>
  BY DEF Trust!Tick, Trust!files
<1>2. Files' /\ Distinct' /\ Signers' = Signers /\ Trust!Known' = Trust!Known
  BY <1>1, FilesStay DEF Trusted
<1>3. today \in Int /\ today >= 0 /\ MaxTime \in Nat
  BY TrustAssumption DEF Trusted, Fleet
<1>4. today' \in 0 .. MaxTime
  BY <1>1, <1>3
<1>5. Fleet'
  BY <1>1, <1>4 DEF Trusted, Fleet
<1>6. ASSUME NEW S, Serves(S)
      PROVE  Serves(S)'
  BY <1>1, <1>6 DEF Serves
<1>7. Serving'
  BY <1>1, <1>2, <1>6 DEF Trusted, Serving
<1>8. \A p \in Trust!Processes : Gathered(p)' = Gathered(p)
  BY <1>1 DEF Gathered, Trust!TrustSet
<1>9. Loads'
  BY <1>1, <1>2, <1>6, <1>8 DEF Trusted, Loads
<1>10. ASSUME NEW h \in Holder, ~Trust!Torn(held[h])
       PROVE  today' <= held[h].until
  <2>1. today < held[h].until /\ held[h].until \in Int
    BY <1>1, <1>10 DEF Trusted, InTime, Fleet, Leaves
  <2> QED
    BY <1>1, <1>3, <2>1
<1>11. InTime'
  BY <1>1, <1>10 DEF InTime
<1> QED
  BY <1>2, <1>5, <1>7, <1>9, <1>11 DEF Trusted

LEMMA StepTrusted ==
    ASSUME Trusted, ~SameName, [Trust!Next]_(Trust!trustVars)
    PROVE  Trusted'
<1>1. Files /\ Distinct /\ today \in Nat
  BY TrustAssumption DEF Trusted, Fleet
<1>2. CASE FilesMove
  BY <1>2, FilesServe DEF FilesMove, Trusted
<1>3. CASE \/ Trust!Retire \/ Trust!UnlinkCertificate \/ Trust!UnlinkKey
           \/ Trust!WriteCertificate \/ Trust!WriteKey \/ Trust!WriteBundle
           \/ Trust!Die \/ Trust!DeleteRoot \/ Trust!RestoreRoot
  BY <1>1, <1>2, <1>3, RetireMoves, UnlinkMoves, WriteCertificateMoves, WriteKeyMoves,
     PublishMoves, DieMoves
<1>4. ASSUME NEW p \in Trust!Processes, Trust!BeginLoad(p)
      PROVE  Trusted'
  BY <1>4, BeginLoadTrusted
<1>5. ASSUME NEW p \in Trust!Processes, Trust!ReadKey(p)
      PROVE  Trusted'
  BY <1>5, ReadKeyTrusted
<1>6. ASSUME NEW p \in Trust!Processes, Trust!EndLoad(p)
      PROVE  Trusted'
  BY <1>6, EndLoadTrusted
<1>7. ASSUME NEW h \in Holder, Trust!Checkin(h)
      PROVE  Trusted'
  BY <1>7, CheckinTrusted
<1>8. CASE Trust!Tick
  BY <1>8, TickTrusted
<1>9. CASE UNCHANGED Trust!trustVars
  <2>1. UNCHANGED <<rootKey, issuing, issuingKey, retired, bundle, command, server, loader,
                    held, heard, today>>
    BY <1>9 DEF Trust!trustVars, Trust!files, Trust!fleet
  <2>2. FilesMove
    BY <1>1, <2>1, FilesStay DEF FilesMove
  <2> QED
    BY <1>2, <2>2
<1> QED
  BY <1>3, <1>4, <1>5, <1>6, <1>7, <1>8, <1>9 DEF Trust!Next

\* A tablet that keeps checking in is let in by the proxy and by the server whenever the
\* intermediate is replaced, a command dies, the server restarts or a page loads the
\* directory, if each intermediate has a name of its own (ca.issue_intermediate,
\* ca.CertificateAuthority.verify): the run `rotation` shows the name is needed.
THEOREM RotationIsSafe ==
    ASSUME ~SameName
    PROVE  Spec => []RotationStrandsNobody
<1>1. Init => Trusted
  BY InitTrusted DEF Init
<1>2. Trusted /\ [Next]_vars => Trusted'
  BY TrustMoves, StepTrusted
<1>3. Trusted => RotationStrandsNobody
  BY VouchedIsAccepted DEF RotationStrandsNobody, Trust!RotationStrandsNobody
<1> QED
  BY <1>1, <1>2, <1>3, PTL DEF Spec

-----------------------------------------------------------------------------
(* The merge of stacked policies                                           *)

LEMMA StackMoves ==
    [Next]_vars => [Stack!Next]_(Stack!stackVars)
  BY DEF Next, AuditStep, BellStep, AlertStep, IdentityStep, TakGovStep, StackingStep,
     AppStep, LibraryStep, TrustStep, Others, vars, stackVars, Stack!stackVars

\* Every row says what its strategy lets it say.
Stacked ==
    /\ strategy \in Stack!Strategies
    /\ stack \in [Stack!Id -> {Stack!NoRow} \cup Stack!Rows(strategy)]

LEMMA SameCardinality == \A S : Stack!Cardinality(S) = Cardinality(S)
  BY DEF Stack!Cardinality, Cardinality

\* The assignments that say something of the field.
Saying(A) == {i \in A : stack[i].value # Stack!Absent}

\* Those that come before i, and the place that gives it.
Above(A, i) == {j \in Saying(A) : Stack!Precedes(j, i)}
PlaceOf(A, i) == Cardinality(Above(A, i)) + 1

LEMMA InitStacked ==
    ASSUME Stack!Init
    PROVE  Stacked
  BY DEF Stack!Init, Stacked

LEMMA StepStacked ==
    ASSUME Stacked, [Stack!Next]_(Stack!stackVars)
    PROVE  Stacked'
<1>1. ASSUME NEW i \in Stack!Id, Stack!Assign(i)
      PROVE  Stacked'
  BY <1>1 DEF Stack!Assign, Stacked
<1>2. ASSUME NEW i \in Stack!Id, NEW page \in {"device", "group"}, Stack!Unassign(page, i)
      PROVE  Stacked'
  BY <1>2 DEF Stack!Unassign, Stacked
<1>3. ASSUME NEW i \in Stack!Id, NEW page \in {"device", "group"}, NEW rank \in Stack!Rank,
             Stack!Rerank(page, i, rank)
      PROVE  Stacked'
  <2>1. stack[i] \in Stack!Rows(strategy)
    BY <1>3 DEF Stack!Rerank, Stack!Owns, Stacked, Stack!NoRow
  <2>2. [stack[i] EXCEPT !.rank = rank] \in Stack!Rows(strategy)
    BY <2>1 DEF Stack!Rows
  <2> QED
    BY <1>3, <2>2 DEF Stack!Rerank, Stacked
<1>4. CASE UNCHANGED Stack!stackVars
  BY <1>4 DEF Stack!stackVars, Stacked
<1> QED
  BY <1>1, <1>2, <1>3, <1>4 DEF Stack!Next

LEMMA PrecedesIsTotal ==
    ASSUME Stacked, NEW A \in SUBSET Stack!Assigned
    PROVE  /\ \A i \in Saying(A) : ~Stack!Precedes(i, i)
           /\ \A i, j \in Saying(A) : i # j => Stack!Precedes(i, j) \/ Stack!Precedes(j, i)
           /\ \A i, j \in Saying(A) : ~(Stack!Precedes(i, j) /\ Stack!Precedes(j, i))
           /\ \A i, j, k \in Saying(A) :
                  Stack!Precedes(i, j) /\ Stack!Precedes(j, k) => Stack!Precedes(i, k)
<1>1. \A i \in Saying(A) : /\ i \in Int /\ stack[i].rank \in Int
                        /\ stack[i].scope \in {"device", "group"}
  <2> SUFFICES ASSUME NEW i \in Saying(A)
               PROVE  i \in Int /\ stack[i].rank \in Int /\ stack[i].scope \in {"device", "group"}
    OBVIOUS
  <2>1. stack[i] \in Stack!Rows(strategy)
    BY DEF Saying, Stack!Assigned, Stacked, Stack!NoRow
  <2>2. stack[i].rank \in 0 .. 1 /\ stack[i].scope \in {"device", "group"}
    BY <2>1 DEF Stack!Rows, Stack!Rank
  <2>3. i \in 1 .. MaxStack
    BY DEF Saying, Stack!Assigned, Stack!Id
  <2> QED
    BY <2>2, <2>3, StackingAssumption
<1> QED
  BY <1>1 DEF Stack!Precedes, Stack!Specificity

LEMMA SayingIsFinite ==
    ASSUME NEW A \in SUBSET Stack!Assigned
    PROVE  IsFiniteSet(A) /\ IsFiniteSet(Saying(A)) /\ Cardinality(Saying(A)) \in Nat
<1>1. IsFiniteSet(Stack!Id)
  BY StackingAssumption, FS_Interval DEF Stack!Id
<1>2. A \in SUBSET Stack!Id /\ Saying(A) \in SUBSET A
  BY DEF Stack!Assigned, Saying
<1> QED
  BY <1>1, <1>2, FS_Subset, FS_CardinalityType

-----------------------------------------------------------------------------
(* Places in an order                                                      *)

\* The pairs of R order S strictly and leave no two apart.
Orders(R, S) ==
    /\ \A x \in S : <<x, x>> \notin R
    /\ \A x, y \in S : x # y => <<x, y>> \in R \/ <<y, x>> \in R
    /\ \A x, y, z \in S : <<x, y>> \in R /\ <<y, z>> \in R => <<x, z>> \in R

Below(R, S, x) == {y \in S : <<y, x>> \in R}
PlaceIn(R, S, x) == Cardinality(Below(R, S, x)) + 1

\* Counting what comes before gives each its place, and each place its own.
LEMMA PlacesAreTaken ==
    ASSUME NEW S, IsFiniteSet(S), NEW R, Orders(R, S)
    PROVE  /\ \A x, y \in S : <<x, y>> \in R => PlaceIn(R, S, x) < PlaceIn(R, S, y)
           /\ [x \in S |-> PlaceIn(R, S, x)] \in Bijection(S, 1 .. Cardinality(S))
<1> DEFINE n == Cardinality(S)
           f == [x \in S |-> PlaceIn(R, S, x)]
<1>0. n \in Nat
  BY FS_CardinalityType
<1>1. ASSUME NEW x \in S
      PROVE  /\ Below(R, S, x) \in SUBSET S /\ x \notin Below(R, S, x)
             /\ IsFiniteSet(Below(R, S, x)) /\ Cardinality(Below(R, S, x)) \in Nat
             /\ PlaceIn(R, S, x) \in 1 .. n
  <2>1. Below(R, S, x) \in SUBSET S /\ x \notin Below(R, S, x)
    BY DEF Below, Orders
  <2>2. /\ IsFiniteSet(Below(R, S, x)) /\ Cardinality(Below(R, S, x)) <= n
        /\ n = Cardinality(Below(R, S, x)) => S = Below(R, S, x)
    BY <2>1, FS_Subset
  <2>3. Cardinality(Below(R, S, x)) \in Nat
    BY <2>2, FS_CardinalityType
  <2>4. Cardinality(Below(R, S, x)) < n
    BY <1>0, <2>1, <2>2, <2>3
  <2> QED
    BY <1>0, <2>1, <2>2, <2>3, <2>4 DEF PlaceIn
<1>2. ASSUME NEW x \in S, NEW y \in S, <<x, y>> \in R
      PROVE  PlaceIn(R, S, x) < PlaceIn(R, S, y)
  <2>1. /\ Below(R, S, x) \in SUBSET Below(R, S, y)
        /\ x \in Below(R, S, y) /\ x \notin Below(R, S, x)
    BY <1>1, <1>2 DEF Below, Orders
  <2>2. /\ Cardinality(Below(R, S, x)) <= Cardinality(Below(R, S, y))
        /\ Cardinality(Below(R, S, y)) = Cardinality(Below(R, S, x)) =>
               Below(R, S, y) = Below(R, S, x)
    BY <1>1, <2>1, FS_Subset
  <2> QED
    BY <1>1, <2>1, <2>2 DEF PlaceIn
<1>3. \A x, y \in S : f[x] = f[y] => x = y
  <2> SUFFICES ASSUME NEW x \in S, NEW y \in S, x # y
               PROVE  f[x] # f[y]
    OBVIOUS
  <2>1. PlaceIn(R, S, x) \in Int /\ PlaceIn(R, S, y) \in Int
    BY <1>1
  <2>2. <<x, y>> \in R \/ <<y, x>> \in R
    BY DEF Orders
  <2> QED
    BY <1>2, <2>1, <2>2
<1>4. f \in [S -> 1 .. n]
  BY <1>1
<1>5. f \in Injection(S, 1 .. n)
  BY <1>3, <1>4 DEF Injection, IsInjective
<1>6. IsFiniteSet(1 .. n) /\ Cardinality(1 .. n) = n
  BY <1>0, FS_Interval
<1>7. f \in Surjection(S, 1 .. n)
  BY <1>5, <1>6, FS_Injection
<1> QED
  BY <1>2, <1>5, <1>7 DEF Bijection

-----------------------------------------------------------------------------
(* The order of the assignments                                            *)

LEMMA PlacesDiffer ==
    ASSUME Stacked, NEW A \in SUBSET Stack!Assigned
    PROVE  [i \in Saying(A) |-> PlaceOf(A, i)] \in Bijection(Saying(A), 1 .. Cardinality(Saying(A)))
<1> DEFINE S == Saying(A)
           R == {p \in S \X S : Stack!Precedes(p[1], p[2])}
<1>1. \A x, y \in S : <<x, y>> \in R <=> Stack!Precedes(x, y)
  OBVIOUS
<1>2. Orders(R, S)
  <2> HIDE DEF R
  <2> QED
    BY <1>1, PrecedesIsTotal DEF Orders
<1>3. \A i \in S : PlaceIn(R, S, i) = PlaceOf(A, i)
  <2> HIDE DEF R
  <2> QED
    BY <1>1 DEF PlaceIn, PlaceOf, Below, Above
<1>4. [i \in S |-> PlaceIn(R, S, i)] \in Bijection(S, 1 .. Cardinality(S))
  <2> HIDE DEF R, S
  <2> QED
    BY <1>2, SayingIsFinite, PlacesAreTaken DEF S
<1>5. [i \in S |-> PlaceIn(R, S, i)] = [i \in S |-> PlaceOf(A, i)]
  BY <1>3
<1> QED
  BY <1>4, <1>5

\* What the rows of A come to, in whatever order they are read.
Resolved(A) == Stack!Resolve(Stack!SetToSeq(A))

\* The ids that say something, in the one order that Precedes puts them in.
Ranked(A) == [k \in 1 .. Cardinality(Saying(A)) |-> CHOOSE i \in Saying(A) : PlaceOf(A, i) = k]

LEMMA RankedIs ==
    ASSUME Stacked, NEW A \in SUBSET Stack!Assigned, NEW i \in Saying(A)
    PROVE  PlaceOf(A, i) \in 1 .. Cardinality(Saying(A)) /\ Ranked(A)[PlaceOf(A, i)] = i
<1> DEFINE f == [j \in Saying(A) |-> PlaceOf(A, j)]
<1>1. f \in Bijection(Saying(A), 1 .. Cardinality(Saying(A)))
  BY PlacesDiffer
<1>2. /\ PlaceOf(A, i) \in 1 .. Cardinality(Saying(A))
      /\ \A j \in Saying(A) : PlaceOf(A, j) = PlaceOf(A, i) => j = i
  BY <1>1 DEF Bijection, Injection, IsInjective
<1> QED
  BY <1>2 DEF Ranked

LEMMA RankedHasAll ==
    ASSUME Stacked, NEW A \in SUBSET Stack!Assigned
    PROVE  /\ \A k \in 1 .. Cardinality(Saying(A)) :
                  Ranked(A)[k] \in Saying(A) /\ PlaceOf(A, Ranked(A)[k]) = k
           /\ DOMAIN Ranked(A) = 1 .. Cardinality(Saying(A))
<1> DEFINE f == [j \in Saying(A) |-> PlaceOf(A, j)]
<1>1. f \in Surjection(Saying(A), 1 .. Cardinality(Saying(A)))
  BY PlacesDiffer DEF Bijection
<1>2. \A k \in 1 .. Cardinality(Saying(A)) : \E i \in Saying(A) : PlaceOf(A, i) = k
  BY <1>1 DEF Surjection
<1> QED
  BY <1>2 DEF Ranked

\* However the rows were read, they come out in that order.
LEMMA CollectIsRanked ==
    ASSUME Stacked, NEW A \in SUBSET Stack!Assigned, NEW n, NEW read \in Bijection(1 .. n, A)
    PROVE  Stack!Collect(read) = Ranked(A)
<1> DEFINE places == {m \in DOMAIN read : stack[read[m]].value # Stack!Absent}
           First(m, k) == \/ Stack!Precedes(read[m], read[k])
                          \/ ~Stack!Precedes(read[k], read[m]) /\ m < k
           Before(m) == {k \in places : First(k, m)}
           Place(m) == Stack!Cardinality(Before(m)) + 1
<1>1. /\ read \in [1 .. n -> A] /\ DOMAIN read = 1 .. n
      /\ \A m, k \in 1 .. n : read[m] = read[k] => m = k
      /\ \A i \in A : \E m \in 1 .. n : read[m] = i
  BY DEF Bijection, Injection, Surjection, IsInjective
<1>2. /\ \A m \in places : m \in 1 .. n /\ read[m] \in Saying(A)
      /\ \A i \in Saying(A) : \E m \in places : read[m] = i
  BY <1>1 DEF Saying
<1>3. \A m, k \in places : read[m] = read[k] => m = k
  BY <1>1, <1>2
<1>4. ASSUME NEW m \in places, NEW k \in places
      PROVE  First(m, k) <=> Stack!Precedes(read[m], read[k])
  <2>1. CASE m = k
    <3>1. m \in Int
      BY <1>2
    <3> QED
      BY <1>2, <2>1, <3>1, PrecedesIsTotal
  <2>2. CASE m # k
    <3>1. read[m] # read[k]
      BY <1>3, <2>2
    <3> QED
      BY <1>2, <3>1, PrecedesIsTotal
  <2> QED
    BY <2>1, <2>2
<1>5. [m \in places |-> read[m]] \in Bijection(places, Saying(A))
  BY <1>2, <1>3 DEF Bijection, Injection, Surjection, IsInjective
<1>6. Cardinality(places) = Cardinality(Saying(A)) /\ IsFiniteSet(places)
  <2>1. ExistsBijection(Saying(A), places)
    BY <1>5, Fun_ExistsBijSymmetric DEF ExistsBijection
  <2> QED
    BY <2>1, SayingIsFinite, FS_Bijection
<1>7. ASSUME NEW m \in places
      PROVE  Place(m) = PlaceOf(A, read[m])
  <2>1. [k \in Before(m) |-> read[k]] \in Bijection(Before(m), Above(A, read[m]))
    <3>1. \A k \in Before(m) : read[k] \in Above(A, read[m])
      BY <1>2, <1>4 DEF Above
    <3>2. \A i \in Above(A, read[m]) : \E k \in Before(m) : read[k] = i
      BY <1>2, <1>4 DEF Above
    <3>3. \A k, l \in Before(m) : read[k] = read[l] => k = l
      BY <1>3
    <3> QED
      BY <3>1, <3>2, <3>3 DEF Bijection, Injection, Surjection, IsInjective
  <2>2. IsFiniteSet(Before(m))
    BY <1>6, FS_Subset
  <2>3. Cardinality(Above(A, read[m])) = Cardinality(Before(m))
    BY <2>1, <2>2, FS_Bijection DEF ExistsBijection
  <2> QED
    BY <2>3, SameCardinality DEF PlaceOf
<1>8. ASSUME NEW k \in 1 .. Cardinality(Saying(A))
      PROVE  read[CHOOSE m \in places : Place(m) = k] = Ranked(A)[k]
  <2>1. PICK m \in places : read[m] = Ranked(A)[k]
    BY <1>2, RankedHasAll
  <2>2. Place(m) = k
    BY <1>7, <2>1, RankedHasAll
  <2>3. \E l \in places : Place(l) = k
    BY <2>2
  <2>4. PICK l : l = CHOOSE q \in places : Place(q) = k
    OBVIOUS
  <2>5. l \in places /\ Place(l) = k
    BY <2>3, <2>4
  <2>6. PlaceOf(A, read[l]) = k /\ read[l] \in Saying(A)
    BY <1>2, <1>7, <2>5
  <2> QED
    BY <2>4, <2>6, RankedIs
<1>9. Stack!Cardinality(places) = Cardinality(Saying(A))
  BY <1>6, SameCardinality
<1>10. Stack!Collect(read) = [k \in 1 .. Stack!Cardinality(places) |->
                                  read[CHOOSE m \in places : Place(m) = k]]
  BY DEF Stack!Collect, Stack!OrderAssignments
<1> QED
  BY <1>8, <1>9, <1>10, RankedHasAll DEF Ranked

LEMMA ReadersAgree ==
    ASSUME Stacked, NEW A \in SUBSET Stack!Assigned, NEW n, NEW f \in Bijection(1 .. n, A)
    PROVE  Stack!Resolve(f) = Resolved(A)
<1> DEFINE m == Stack!Cardinality(A)
           g == Stack!SetToSeq(A)
<1>1. m = Cardinality(A)
  BY SameCardinality
<1>2. \E h \in [1 .. m -> A] : Stack!IsInjective(h)
  <2>1. ExistsBijection(1 .. m, A)
    BY <1>1, SayingIsFinite, FS_CardinalityType
  <2> QED
    BY <2>1 DEF ExistsBijection, Bijection, Injection, IsInjective, Stack!IsInjective
<1>3. g \in [1 .. m -> A] /\ Stack!IsInjective(g)
  BY <1>2 DEF Stack!SetToSeq
<1>4. g \in Injection(1 .. m, A)
  BY <1>3 DEF Injection, IsInjective, Stack!IsInjective
<1>5. IsFiniteSet(1 .. m) /\ Cardinality(1 .. m) = m
  <2>1. m \in Nat
    BY <1>1, SayingIsFinite, FS_CardinalityType
  <2> QED
    BY <2>1, FS_Interval
<1>6. g \in Bijection(1 .. m, A)
  BY <1>1, <1>4, <1>5, SayingIsFinite, FS_Injection DEF Bijection
<1>7. Stack!Collect(f) = Stack!Collect(g)
  BY <1>6, CollectIsRanked
<1> QED
  BY <1>7 DEF Stack!Resolve, Resolved

LEMMA LeastOf ==
    ASSUME NEW T, T \subseteq Nat, T # {}
    PROVE  \E x \in T : \A y \in T : x <= y
<1>1. PICK x \in T : \A y \in T : ~(<<y, x>> \in OpToRel(<, Nat))
  BY NatLessThanWellFounded, WFMin
<1>2. ASSUME NEW y \in T, y < x
      PROVE  FALSE
  <2>1. <<y, x>> \in Nat \X Nat
    OBVIOUS
  <2>2. <<y, x>>[1] < <<y, x>>[2]
    BY <1>2
  <2>3. <<y, x>> \in OpToRel(<, Nat)
    BY <2>1, <2>2, Zenon DEF OpToRel
  <2> QED
    BY <1>1, <2>3
<1> QED
  BY <1>2

LEMMA EffectiveIs ==
    ASSUME Stacked, NEW A \in SUBSET Stack!Assigned
    PROVE  /\ Saying(A) = {} => /\ Resolved(A).value = Stack!Absent
                             /\ Resolved(A).winner = Stack!Nobody
                             /\ Resolved(A).conflict = FALSE
           /\ Saying(A) # {} => /\ Resolved(A) = Stack!ApplyStrategy(Ranked(A))
                             /\ 1 \in DOMAIN Ranked(A)
<1>1. PICK n, f : f \in Bijection(1 .. n, A)
  BY SayingIsFinite, FS_CardinalityType DEF ExistsBijection
<1>2. Resolved(A) = Stack!Resolve(f) /\ Stack!Collect(f) = Ranked(A)
  BY <1>1, ReadersAgree, CollectIsRanked
<1>3. CASE Saying(A) = {}
  <2>1. Cardinality(Saying(A)) = 0
    BY <1>3, FS_EmptySet
  <2>2. Ranked(A) = <<>>
    BY <2>1 DEF Ranked
  <2> QED
    BY <1>2, <1>3, <2>2 DEF Stack!Resolve, Stack!Outcome
<1>4. CASE Saying(A) # {}
  <2>1. Cardinality(Saying(A)) # 0 /\ Cardinality(Saying(A)) \in Nat
    BY <1>4, SayingIsFinite, FS_EmptySet
  <2>2. 1 \in DOMAIN Ranked(A)
    BY <2>1, RankedHasAll
  <2>3. Ranked(A) # <<>>
    BY <2>2
  <2> QED
    BY <1>2, <1>4, <2>2, <2>3 DEF Stack!Resolve
<1> QED
  BY <1>3, <1>4

LEMMA SayingSays ==
    ASSUME Stacked, NEW A \in SUBSET Stack!Assigned, NEW i \in Saying(A)
    PROVE  /\ i \in Stack!Assigned /\ i # Stack!Nobody
           /\ stack[i].value = Stack!Value(stack[i].value[1])
           /\ stack[i].value[1] \in Stack!Values(strategy)
<1>1. stack[i] \in Stack!Rows(strategy) /\ stack[i].value # Stack!Absent
  BY DEF Saying, Stack!Assigned, Stacked, Stack!NoRow
<1>2. stack[i].value \in {Stack!Value(v) : v \in Stack!Values(strategy)}
  BY <1>1 DEF Stack!Rows
<1>3. i \in 1 .. MaxStack
  BY DEF Saying, Stack!Assigned, Stack!Id
<1>4. i # 0
  BY <1>3, StackingAssumption
<1> QED
  BY <1>2, <1>4 DEF Stack!Value, Stack!Nobody, Saying

\* Whoever first says a value that somebody says.
LEMMA FirstSays ==
    ASSUME Stacked, NEW A \in SUBSET Stack!Assigned, NEW v,
           \E k \in DOMAIN Ranked(A) : Stack!Said(Ranked(A), k) = v
    PROVE  /\ Stack!FirstWith(Ranked(A), v) \in Saying(A)
           /\ stack[Stack!FirstWith(Ranked(A), v)].value = Stack!Value(v)
<1> DEFINE Says == {k \in DOMAIN Ranked(A) : Stack!Said(Ranked(A), k) = v}
<1>1. DOMAIN Ranked(A) = 1 .. Cardinality(Saying(A)) /\ Cardinality(Saying(A)) \in Nat
  BY RankedHasAll, SayingIsFinite
<1>2. PICK k \in Says : \A m \in Says : k <= m
  <2>1. Says \subseteq Nat /\ Says # {}
    BY <1>1
  <2> QED
    BY <2>1, LeastOf
<1>3. \A m \in 1 .. k - 1 : Stack!Said(Ranked(A), m) # v
  BY <1>1, <1>2
<1>4. PICK q : q = CHOOSE n \in DOMAIN Ranked(A) :
                       /\ Stack!Said(Ranked(A), n) = v
                       /\ \A m \in 1 .. n - 1 : Stack!Said(Ranked(A), m) # v
  OBVIOUS
<1>5. q \in DOMAIN Ranked(A) /\ Stack!Said(Ranked(A), q) = v
  BY <1>2, <1>3, <1>4
<1>6. Stack!FirstWith(Ranked(A), v) = Ranked(A)[q]
  BY <1>4 DEF Stack!FirstWith
<1>7. Ranked(A)[q] \in Saying(A)
  BY <1>1, <1>5, RankedHasAll
<1> QED
  BY <1>5, <1>6, <1>7, SayingSays DEF Stack!Said

\* What is said, wherever it comes in the order.
LEMMA SaidIs ==
    ASSUME Stacked, NEW A \in SUBSET Stack!Assigned
    PROVE  /\ \A k \in DOMAIN Ranked(A) : /\ Ranked(A)[k] \in Saying(A)
                                       /\ Stack!Said(Ranked(A), k) = stack[Ranked(A)[k]].value[1]
           /\ \A i \in Saying(A) : \E k \in DOMAIN Ranked(A) : Ranked(A)[k] = i
  BY RankedHasAll, RankedIs DEF Stack!Said

-----------------------------------------------------------------------------
(* Lists of items                                                          *)

Lists == {"union", "intersect", "merge_by_key"}

LEMMA ListIsFinite ==
    ASSUME Stacked, strategy \in Lists, NEW A \in SUBSET Stack!Assigned, NEW i \in Saying(A)
    PROVE  /\ \E m \in Nat : DOMAIN stack[i].value[1] = 1 .. m
           /\ \A x : Stack!Contains(stack[i].value[1], x) <=> x \in Stack!ToSet(stack[i].value[1])
<1>1. stack[i].value[1] \in Stack!Values(strategy)
  BY SayingSays
<1>2. \A v \in Stack!Values(strategy) : \/ Len(v) = 1 /\ DOMAIN v = 1 .. 1
                                        \/ Len(v) = 2 /\ DOMAIN v = 1 .. 2
  <2>1. \A x : Len(<<x>>) = 1 /\ DOMAIN <<x>> = 1 .. 1
    OBVIOUS
  <2>2. \A x, y : Len(<<x, y>>) = 2 /\ DOMAIN <<x, y>> = 1 .. 2
    OBVIOUS
  <2>3. \A v \in Stack!Values(strategy) : (\E x : v = <<x>>) \/ \E x, y : v = <<x, y>>
    BY DEF Lists, Stack!Values
  <2> QED
    BY <2>1, <2>2, <2>3
<1>3. \A v \in Stack!Values(strategy) : (\E m \in Nat : DOMAIN v = 1 .. m) /\ DOMAIN v = 1 .. Len(v)
  BY <1>2
<1>4. \A x : Stack!Contains(stack[i].value[1], x) <=> x \in Stack!ToSet(stack[i].value[1])
  BY <1>1, <1>3 DEF Stack!Contains, Stack!ToSet
<1> QED
  BY <1>1, <1>3, <1>4

\* Where the items of the assignments are said, in their order.
Spots(A) == Stack!Met(Ranked(A))

LEMMA SpotsAre ==
    ASSUME Stacked, strategy \in Lists, NEW A \in SUBSET Stack!Assigned
    PROVE  /\ IsFiniteSet(Spots(A)) /\ Spots(A) \subseteq Nat \X Nat
           /\ \A p \in Spots(A) : /\ p[1] \in DOMAIN Ranked(A)
                                  /\ p[2] \in DOMAIN Stack!Said(Ranked(A), p[1])
           /\ \A n \in DOMAIN Ranked(A) : \A k \in DOMAIN Stack!Said(Ranked(A), n) :
                  <<n, k>> \in Spots(A)
<1> DEFINE c == Ranked(A)
           D(n) == DOMAIN Stack!Said(c, n)
           of == [n \in DOMAIN c |-> {n} \X D(n)]
           all == {{n} \X D(n) : n \in DOMAIN c}
<1>1. \A n \in DOMAIN c : \E m \in Nat : D(n) = 1 .. m
  BY SaidIs, ListIsFinite
<1>2. DOMAIN c = 1 .. Cardinality(Saying(A)) /\ Cardinality(Saying(A)) \in Nat
  BY RankedHasAll, SayingIsFinite
<1>3. IsFiniteSet(DOMAIN c)
  BY <1>2, FS_Interval
<1>4. \A n \in DOMAIN c : IsFiniteSet({n} \X D(n))
  <2> SUFFICES ASSUME NEW n \in DOMAIN c
               PROVE  IsFiniteSet({n} \X D(n))
    OBVIOUS
  <2>1. IsFiniteSet(D(n))
    BY <1>1, FS_Interval
  <2>2. IsFiniteSet({n})
    BY FS_Singleton
  <2> QED
    BY <2>1, <2>2, FS_Product
<1>5. IsFiniteSet(all)
  <2>1. of \in Surjection(DOMAIN c, all)
    BY DEF Surjection
  <2> HIDE DEF of, all
  <2> QED
    BY <1>3, <2>1, FS_Surjection
<1>6. \A T \in all : IsFiniteSet(T)
  BY <1>4
<1>7. IsFiniteSet(UNION all)
  <2> HIDE DEF all
  <2> QED
    BY <1>5, <1>6, FS_UNION
<1>8. Spots(A) = UNION all
  BY DEF Spots, Stack!Met
<1>9. \A p \in UNION all : \E n \in DOMAIN c : p \in {n} \X D(n)
  OBVIOUS
<1>10. \A n \in DOMAIN c : n \in Nat /\ D(n) \subseteq Nat
  BY <1>1, <1>2
<1>11. \A n \in DOMAIN c : \A k \in D(n) : <<n, k>> \in UNION all
  OBVIOUS
<1>12. UNION all \subseteq Nat \X Nat
  BY <1>9, <1>10
<1>13. \A p \in UNION all : p[1] \in DOMAIN c /\ p[2] \in D(p[1])
  BY <1>9
<1> QED
  BY <1>7, <1>8, <1>11, <1>12, <1>13

Soonest(P) == {r \in P \X P : Stack!Earlier(r[1], r[2])}

LEMMA SpotsAreOrdered ==
    ASSUME NEW P, P \subseteq Nat \X Nat
    PROVE  /\ \A p, q \in P : <<p, q>> \in Soonest(P) <=> Stack!Earlier(p, q)
           /\ Orders(Soonest(P), P)
<1>1. \A p, q \in P : <<p, q>> \in Soonest(P) <=> Stack!Earlier(p, q)
  BY DEF Soonest
<1>2. \A p \in P : p = <<p[1], p[2]>> /\ p[1] \in Nat /\ p[2] \in Nat
  OBVIOUS
<1>3. \A p \in P : ~Stack!Earlier(p, p)
  BY <1>2 DEF Stack!Earlier
<1>4. \A p, q \in P : p # q => Stack!Earlier(p, q) \/ Stack!Earlier(q, p)
  BY <1>2 DEF Stack!Earlier
<1>5. \A p, q, r \in P : Stack!Earlier(p, q) /\ Stack!Earlier(q, r) => Stack!Earlier(p, r)
  BY <1>2 DEF Stack!Earlier
<1> QED
  BY <1>1, <1>3, <1>4, <1>5 DEF Orders

\* What is gathered is what is said at the places given.
LEMMA GatherIs ==
    ASSUME Stacked, strategy \in Lists, NEW A \in SUBSET Stack!Assigned,
           NEW P \in SUBSET Spots(A)
    PROVE  /\ Stack!ToSet(Stack!Gather(Ranked(A), P)) = {Stack!ItemAt(Ranked(A), p) : p \in P}
           /\ \A x : Stack!Contains(Stack!Gather(Ranked(A), P), x) <=>
                      x \in Stack!ToSet(Stack!Gather(Ranked(A), P))
<1> DEFINE c == Ranked(A)
           R == Soonest(P)
           n == Cardinality(P)
           Place(p) == Stack!Cardinality({q \in P : Stack!Earlier(q, p)}) + 1
           g == Stack!Gather(c, P)
<1>1. P \subseteq Nat \X Nat /\ IsFiniteSet(P)
  BY SpotsAre, FS_Subset
<1>2. [p \in P |-> PlaceIn(R, P, p)] \in Bijection(P, 1 .. n)
  <2> HIDE DEF R
  <2> QED
    BY <1>1, SpotsAreOrdered, PlacesAreTaken DEF R
<1>3. \A p \in P : Place(p) = PlaceIn(R, P, p)
  <2> SUFFICES ASSUME NEW p \in P
               PROVE  Place(p) = PlaceIn(R, P, p)
    OBVIOUS
  <2>1. {q \in P : Stack!Earlier(q, p)} = Below(R, P, p)
    BY <1>1, SpotsAreOrdered DEF Below
  <2> QED
    BY <2>1, SameCardinality DEF PlaceIn
<1>4. /\ \A p \in P : Place(p) \in 1 .. n
      /\ \A k \in 1 .. n : \E p \in P : Place(p) = k
      /\ \A p, q \in P : Place(p) = Place(q) => p = q
  <2> HIDE DEF Place, R, n
  <2>1. PICK f : f = [p \in P |-> PlaceIn(R, P, p)]
    OBVIOUS
  <2>2. \A p \in P : f[p] = Place(p)
    BY <1>3, <2>1
  <2>3. f \in Bijection(P, 1 .. n)
    BY <1>2, <2>1
  <2>4. /\ \A p \in P : f[p] \in 1 .. n
        /\ \A k \in 1 .. n : \E p \in P : f[p] = k
        /\ \A p, q \in P : f[p] = f[q] => p = q
    BY <2>3 DEF Bijection, Injection, Surjection, IsInjective
  <2> QED
    BY <2>2, <2>4
<1>5. g = [k \in 1 .. n |-> Stack!ItemAt(c, CHOOSE p \in P : Place(p) = k)]
  BY SameCardinality DEF Stack!Gather
<1>6. \A p \in P : g[Place(p)] = Stack!ItemAt(c, p)
  <2> HIDE DEF Place, g, n, c
  <2> SUFFICES ASSUME NEW p \in P
               PROVE  g[Place(p)] = Stack!ItemAt(c, p)
    OBVIOUS
  <2>1. (CHOOSE q \in P : Place(q) = Place(p)) = p
    BY <1>4
  <2> QED
    BY <1>4, <1>5, <2>1
<1>7. DOMAIN g = 1 .. n
  BY <1>5
<1>8. Stack!ToSet(g) = {g[k] : k \in 1 .. n}
  <2> HIDE DEF g, n
  <2> QED
    BY <1>7 DEF Stack!ToSet
<1>9. Stack!ToSet(g) = {Stack!ItemAt(c, p) : p \in P}
  <2> HIDE DEF Place, g, n, c, R
  <2> QED
    BY <1>4, <1>6, <1>8
<1>10. Len(g) = n
  <2>1. n \in Nat
    BY <1>1, FS_CardinalityType
  <2> HIDE DEF n, Place, c
  <2> QED
    BY <1>5, <2>1
<1>11. \A x : Stack!Contains(g, x) <=> x \in Stack!ToSet(g)
  <2> HIDE DEF g, n
  <2> QED
    BY <1>8, <1>10 DEF Stack!Contains
<1> QED
  BY <1>9, <1>11

\* Whatever is met, something like it was met first.
LEMMA FirstMetIs ==
    ASSUME Stacked, strategy \in Lists, NEW A \in SUBSET Stack!Assigned, NEW p \in Spots(A)
    PROVE  \E q \in Stack!FirstMet(Ranked(A)) :
               Stack!Alike(Ranked(A), q, p) /\ (q = p \/ Stack!Earlier(q, p))
<1> DEFINE c == Ranked(A)
           M == Spots(A)
           R == Soonest(M)
           T == {PlaceIn(R, M, q) : q \in {r \in M : Stack!Alike(c, r, p)}}
<1>1. IsFiniteSet(M) /\ M \subseteq Nat \X Nat
  BY SpotsAre
<1>2. /\ Orders(R, M)
      /\ \A q, r \in M : <<q, r>> \in R <=> Stack!Earlier(q, r)
  BY <1>1, SpotsAreOrdered
<1>3. /\ \A q, r \in M : <<q, r>> \in R => PlaceIn(R, M, q) < PlaceIn(R, M, r)
      /\ \A q \in M : PlaceIn(R, M, q) \in Nat
  <2> HIDE DEF R, M
  <2>1. /\ \A q, r \in M : <<q, r>> \in R => PlaceIn(R, M, q) < PlaceIn(R, M, r)
        /\ [q \in M |-> PlaceIn(R, M, q)] \in Bijection(M, 1 .. Cardinality(M))
    BY <1>1, <1>2, PlacesAreTaken
  <2> QED
    BY <2>1 DEF Bijection, Injection
<1>4. Stack!Alike(c, p, p)
  BY DEF Stack!Alike
<1> HIDE DEF R
<1>5. T \subseteq Nat /\ T # {}
  BY <1>3, <1>4
<1>6. PICK m \in T : \A y \in T : m <= y
  BY <1>5, LeastOf
<1>7. PICK q \in M : Stack!Alike(c, q, p) /\ PlaceIn(R, M, q) = m
  BY <1>6
<1>8. ASSUME NEW r \in M, Stack!Earlier(r, q), Stack!Alike(c, r, p)
      PROVE  FALSE
  <2>1. PlaceIn(R, M, r) < m
    BY <1>2, <1>3, <1>7, <1>8
  <2>2. m <= PlaceIn(R, M, r)
    BY <1>6, <1>8
  <2> QED
    BY <1>3, <1>7, <2>1, <2>2
<1>9. q \in Stack!FirstMet(c)
  BY <1>7, <1>8 DEF Stack!FirstMet, Stack!Alike, Spots
<1>10. q = p \/ Stack!Earlier(q, p)
  BY <1>2, <1>4, <1>8 DEF Orders
<1> QED
  BY <1>7, <1>9, <1>10

\* Every item said is met where it is said, and nothing else is.
LEMMA ItemsAreMet ==
    ASSUME Stacked, strategy \in Lists, NEW A \in SUBSET Stack!Assigned
    PROVE  /\ \A p \in Spots(A) :
                  /\ Ranked(A)[p[1]] \in Saying(A)
                  /\ Stack!ItemAt(Ranked(A), p) \in Stack!ToSet(stack[Ranked(A)[p[1]]].value[1])
           /\ \A i \in Saying(A) : \A x \in Stack!ToSet(stack[i].value[1]) :
                  \E p \in Spots(A) : Ranked(A)[p[1]] = i /\ Stack!ItemAt(Ranked(A), p) = x
<1> DEFINE c == Ranked(A)
<1>1. ASSUME NEW p \in Spots(A)
      PROVE  /\ c[p[1]] \in Saying(A)
             /\ Stack!ItemAt(c, p) \in Stack!ToSet(stack[c[p[1]]].value[1])
  <2>1. p[1] \in DOMAIN c /\ p[2] \in DOMAIN Stack!Said(c, p[1])
    BY SpotsAre
  <2>2. c[p[1]] \in Saying(A) /\ Stack!Said(c, p[1]) = stack[c[p[1]]].value[1]
    BY <2>1, SaidIs
  <2>3. Stack!Said(c, p[1])[p[2]] \in Stack!ToSet(Stack!Said(c, p[1]))
    BY <2>1 DEF Stack!ToSet
  <2> QED
    BY <2>2, <2>3 DEF Stack!ItemAt
<1>2. ASSUME NEW i \in Saying(A), NEW x \in Stack!ToSet(stack[i].value[1])
      PROVE  \E p \in Spots(A) : c[p[1]] = i /\ Stack!ItemAt(c, p) = x
  <2>1. PICK n \in DOMAIN c : c[n] = i
    BY SaidIs
  <2>2. Stack!Said(c, n) = stack[i].value[1]
    BY <2>1, SaidIs
  <2>3. PICK k \in DOMAIN Stack!Said(c, n) : Stack!Said(c, n)[k] = x
    BY <2>2 DEF Stack!ToSet
  <2>4. <<n, k>> \in Spots(A)
    BY SpotsAre
  <2>5. Stack!ItemAt(c, <<n, k>>) = x
    BY <2>3 DEF Stack!ItemAt
  <2> QED
    BY <2>1, <2>4, <2>5
<1> QED
  BY <1>1, <1>2

LEMMA FirstAreSpots ==
    ASSUME NEW A
    PROVE  Stack!FirstMet(Ranked(A)) \in SUBSET Spots(A)
  BY DEF Stack!FirstMet, Spots

\* A union is all that anybody says.
LEMMA UnionIs ==
    ASSUME Stacked, NEW A \in SUBSET Stack!Assigned, strategy = "union", Saying(A) # {}
    PROVE  \A x : x \in Stack!ToSet(Resolved(A).value[1]) <=>
                      \E i \in Saying(A) : x \in Stack!ToSet(stack[i].value[1])
<1> DEFINE c == Ranked(A)
           F == Stack!FirstMet(c)
<1>1. strategy \in Lists
  BY DEF Lists
<1>2. Resolved(A) = Stack!MergeUnion(c)
  BY EffectiveIs DEF Stack!ApplyStrategy
<1>3. Resolved(A).value[1] = Stack!Gather(c, F)
  BY <1>2 DEF Stack!MergeUnion, Stack!Outcome, Stack!Value
<1>4. Stack!ToSet(Resolved(A).value[1]) = {Stack!ItemAt(c, p) : p \in F}
  BY <1>1, <1>3, FirstAreSpots, GatherIs
<1>5. \A p, q : Stack!Alike(c, p, q) <=> Stack!ItemAt(c, p) = Stack!ItemAt(c, q)
  BY DEF Stack!Alike, Stack!Identity
<1>6. \A p \in Spots(A) : \E q \in F : Stack!ItemAt(c, q) = Stack!ItemAt(c, p)
  BY <1>1, <1>5, FirstMetIs
<1> HIDE DEF c, F
<1>7. ASSUME NEW x, NEW i \in Saying(A), x \in Stack!ToSet(stack[i].value[1])
      PROVE  x \in Stack!ToSet(Resolved(A).value[1])
  BY <1>1, <1>4, <1>6, <1>7, ItemsAreMet DEF c
<1>8. ASSUME NEW x \in Stack!ToSet(Resolved(A).value[1])
      PROVE  \E i \in Saying(A) : x \in Stack!ToSet(stack[i].value[1])
  BY <1>1, <1>4, <1>8, ItemsAreMet, FirstAreSpots DEF c, F
<1> QED
  BY <1>7, <1>8

\* An intersection is what all of them say.
LEMMA IntersectIs ==
    ASSUME Stacked, NEW A \in SUBSET Stack!Assigned, strategy = "intersect", Saying(A) # {}
    PROVE  \A x : x \in Stack!ToSet(Resolved(A).value[1]) <=>
                      \A i \in Saying(A) : x \in Stack!ToSet(stack[i].value[1])
<1> DEFINE c == Ranked(A)
           common == {x \in Stack!ToSet(Stack!Said(c, 1)) :
                          \A n \in DOMAIN c : Stack!Contains(Stack!Said(c, n), x)}
           kept == {p \in Stack!Met(c) : p[1] = 1 /\ Stack!ItemAt(c, p) \in common}
<1>1. strategy \in Lists
  BY DEF Lists
<1>2. Resolved(A) = Stack!MergeIntersect(c) /\ 1 \in DOMAIN c
  BY EffectiveIs DEF Stack!ApplyStrategy
<1>3. Resolved(A).value[1] = Stack!Gather(c, kept)
  BY <1>2 DEF Stack!MergeIntersect, Stack!Outcome, Stack!Value
<1>4. kept \in SUBSET Spots(A)
  BY DEF Spots
<1>5. Stack!ToSet(Resolved(A).value[1]) = {Stack!ItemAt(c, p) : p \in kept}
  <2> HIDE DEF kept
  <2> QED
    BY <1>1, <1>3, <1>4, GatherIs
<1>6. \A x : x \in common <=> \A i \in Saying(A) : x \in Stack!ToSet(stack[i].value[1])
  <2>1. ASSUME NEW n \in DOMAIN c, NEW x
        PROVE  Stack!Contains(Stack!Said(c, n), x) <=> x \in Stack!ToSet(Stack!Said(c, n))
    <3>1. c[n] \in Saying(A) /\ Stack!Said(c, n) = stack[c[n]].value[1]
      BY SaidIs
    <3>2. Stack!Contains(stack[c[n]].value[1], x) <=> x \in Stack!ToSet(stack[c[n]].value[1])
      BY <1>1, <3>1, ListIsFinite
    <3> QED
      BY <3>1, <3>2
  <2>2. \A x : x \in common <=> \A n \in DOMAIN c : x \in Stack!ToSet(Stack!Said(c, n))
    BY <1>2, <2>1
  <2> HIDE DEF common
  <2> QED
    BY <2>2, SaidIs
<1>7. \A x \in common : \E p \in kept : Stack!ItemAt(c, p) = x
  <2> SUFFICES ASSUME NEW x \in common
               PROVE  \E p \in kept : Stack!ItemAt(c, p) = x
    OBVIOUS
  <2>1. PICK k \in DOMAIN Stack!Said(c, 1) : Stack!Said(c, 1)[k] = x
    BY DEF Stack!ToSet
  <2>2. <<1, k>> \in Spots(A)
    BY <1>1, <1>2, SpotsAre
  <2>3. Stack!ItemAt(c, <<1, k>>) = x
    BY <2>1 DEF Stack!ItemAt
  <2> HIDE DEF common
  <2> QED
    BY <2>2, <2>3 DEF Spots
<1>8. \A p \in kept : Stack!ItemAt(c, p) \in common
  OBVIOUS
<1> HIDE DEF kept, common
<1> QED
  BY <1>5, <1>6, <1>7, <1>8

\* A merge by key leaves out what differs from the first met of its key, and nothing else.
LEMMA MergeIs ==
    ASSUME Stacked, NEW A \in SUBSET Stack!Assigned, strategy = "merge_by_key", Saying(A) # {}
    PROVE  /\ Resolved(A).winner = Stack!Nobody
           /\ Resolved(A).overridden =
                  {i \in Saying(A) : \E x \in Stack!ToSet(stack[i].value[1]) :
                                         ~Stack!Contains(Resolved(A).value[1], x)}
           /\ Resolved(A).conflict <=> Resolved(A).overridden # {}
<1> DEFINE c == Ranked(A)
           F == Stack!FirstMet(c)
           I(p) == Stack!ItemAt(c, p)
           Beaten(p) == \E q \in F : Stack!Earlier(q, p) /\ Stack!Alike(c, q, p) /\ I(q) # I(p)
           losers == {c[p[1]] : p \in {q \in Stack!Met(c) : Beaten(q)}}
<1>1. strategy \in Lists
  BY DEF Lists
<1>2. Resolved(A) = Stack!MergeByKey(c)
  BY EffectiveIs DEF Stack!ApplyStrategy
<1>3. PICK b : b = (losers # {}) /\ Resolved(A) = Stack!Outcome(Stack!Gather(c, F), Stack!Nobody, losers, b)
  BY <1>2 DEF Stack!MergeByKey
<1>4. /\ Resolved(A).value[1] = Stack!Gather(c, F) /\ Resolved(A).winner = Stack!Nobody
      /\ Resolved(A).overridden = losers /\ Resolved(A).conflict = b
  <2> HIDE DEF losers, F, c
  <2> QED
    BY <1>3 DEF Stack!Outcome, Stack!Value
<1>5. \A x : Stack!Contains(Resolved(A).value[1], x) <=> \E q \in F : I(q) = x
  <2> HIDE DEF losers
  <2>1. /\ Stack!ToSet(Stack!Gather(c, F)) = {I(p) : p \in F}
        /\ \A x : Stack!Contains(Stack!Gather(c, F), x) <=> x \in Stack!ToSet(Stack!Gather(c, F))
    BY <1>1, FirstAreSpots, GatherIs
  <2> HIDE DEF F, c, I
  <2> QED
    BY <1>4, <2>1
<1>6. \A p \in F : \A q \in F : Stack!Alike(c, p, q) => p = q
  <2> SUFFICES ASSUME NEW p \in F, NEW q \in F, Stack!Alike(c, p, q), p # q
               PROVE  FALSE
    OBVIOUS
  <2>1. p \in Spots(A) /\ q \in Spots(A)
    BY FirstAreSpots
  <2>2. Stack!Earlier(p, q) \/ Stack!Earlier(q, p)
    <3>1. Spots(A) \subseteq Nat \X Nat
      BY <1>1, SpotsAre
    <3> HIDE DEF F, c
    <3> QED
      BY <2>1, <3>1, SpotsAreOrdered DEF Orders
  <2>3. Stack!Alike(c, q, p)
    BY DEF Stack!Alike
  <2> QED
    BY <2>1, <2>2, <2>3 DEF Stack!FirstMet, Spots
<1>7. ASSUME NEW p \in Spots(A)
      PROVE  Beaten(p) <=> ~\E q \in F : I(q) = I(p)
  <2>1. PICK q \in F : Stack!Alike(c, q, p) /\ (q = p \/ Stack!Earlier(q, p))
    BY <1>1, FirstMetIs
  <2>2. \A r \in F : I(r) = I(p) => r = q
    <3>1. \A r \in F : I(r) = I(p) => Stack!Alike(c, r, q)
      BY <2>1 DEF Stack!Alike
    <3> QED
      BY <1>6, <3>1
  <2>3. \A r \in F : Stack!Alike(c, r, p) => r = q
    <3>1. \A r \in F : Stack!Alike(c, r, p) => Stack!Alike(c, r, q)
      BY <2>1 DEF Stack!Alike
    <3> QED
      BY <1>6, <3>1
  <2> HIDE DEF F, I, c
  <2> QED
    BY <2>1, <2>2, <2>3
<1>8. losers = {i \in Saying(A) : \E x \in Stack!ToSet(stack[i].value[1]) : ~\E q \in F : I(q) = x}
  <2> HIDE DEF Beaten, F
  <2>1. losers = {c[p[1]] : p \in {q \in Spots(A) : Beaten(q)}}
    BY DEF Spots
  <2> HIDE DEF losers, c, I
  <2>2. ASSUME NEW i \in losers
        PROVE  i \in Saying(A) /\ \E x \in Stack!ToSet(stack[i].value[1]) : ~\E q \in F : I(q) = x
    <3>1. PICK p \in Spots(A) : Beaten(p) /\ i = c[p[1]]
      BY <2>1
    <3>2. i \in Saying(A) /\ I(p) \in Stack!ToSet(stack[i].value[1])
      BY <1>1, <3>1, ItemsAreMet DEF I, c
    <3> QED
      BY <1>7, <3>1, <3>2
  <2>3. ASSUME NEW i \in Saying(A), NEW x \in Stack!ToSet(stack[i].value[1]), ~\E q \in F : I(q) = x
        PROVE  i \in losers
    <3>1. PICK p \in Spots(A) : c[p[1]] = i /\ I(p) = x
      BY <1>1, ItemsAreMet DEF I, c
    <3> QED
      BY <1>7, <2>1, <2>3, <3>1
  <2> QED
    BY <2>2, <2>3
<1> HIDE DEF losers, F, I, c
<1>9. Resolved(A).overridden = {i \in Saying(A) : \E x \in Stack!ToSet(stack[i].value[1]) :
                                    ~Stack!Contains(Resolved(A).value[1], x)}
  BY <1>4, <1>5, <1>8
<1> QED
  BY <1>3, <1>4, <1>9

\* A denial by anybody is in effect, and is said to be of somebody who denies.
LEMMA DenialWins ==
    ASSUME Stacked, NEW A \in SUBSET Stack!Assigned, strategy = "most_restrictive", Saying(A) # {}
    PROVE  /\ Resolved(A).value[1] <=> \A i \in Saying(A) : stack[i].value[1]
           /\ Resolved(A).value[1] \in BOOLEAN
           /\ ~Resolved(A).conflict
           /\ Resolved(A).winner \in Saying(A)
           /\ stack[Resolved(A).winner].value = Resolved(A).value
<1>1. Resolved(A) = Stack!MostRestrictive(Ranked(A)) /\ 1 \in DOMAIN Ranked(A)
  BY EffectiveIs DEF Stack!ApplyStrategy
<1>2. PICK v : v = (\A n \in DOMAIN Ranked(A) : Stack!Said(Ranked(A), n))
  OBVIOUS
<1>3. \A n \in DOMAIN Ranked(A) : Stack!Said(Ranked(A), n) \in BOOLEAN
  BY SaidIs, SayingSays DEF Stack!Values
<1>4. v \in BOOLEAN
  BY <1>2
<1>5. \E n \in DOMAIN Ranked(A) : Stack!Said(Ranked(A), n) = v
  <2>1. CASE v
    <3>1. Stack!Said(Ranked(A), 1)
      BY <1>1, <1>2, <2>1
    <3> QED
      BY <1>1, <1>3, <1>4, <2>1, <3>1
  <2>2. CASE ~v
    <3>1. PICK n \in DOMAIN Ranked(A) : ~Stack!Said(Ranked(A), n)
      BY <1>2, <2>2
    <3> QED
      BY <1>3, <1>4, <2>2, <3>1
  <2> QED
    BY <2>1, <2>2
<1>6. Resolved(A) = Stack!Outcome(v, Stack!FirstWith(Ranked(A), v), Stack!Losers(Ranked(A), v), FALSE)
  BY <1>1, <1>2 DEF Stack!MostRestrictive
<1>7. /\ Resolved(A).value = Stack!Value(v) /\ ~Resolved(A).conflict
      /\ Resolved(A).winner = Stack!FirstWith(Ranked(A), v)
  BY <1>6 DEF Stack!Outcome
<1>8. Stack!Value(v)[1] = v
  BY DEF Stack!Value
<1>9. v <=> \A i \in Saying(A) : stack[i].value[1]
  BY <1>2, <1>4, SaidIs
<1> QED
  BY <1>4, <1>5, <1>7, <1>8, <1>9, FirstSays

\* The greatest or the least of what is said is in effect.
LEMMA ExtremumWins ==
    ASSUME Stacked, NEW A \in SUBSET Stack!Assigned, strategy \in {"max", "min"}, Saying(A) # {}
    PROVE  /\ Resolved(A).value[1] \in 0 .. 2
           /\ \A i \in Saying(A) : /\ stack[i].value[1] \in 0 .. 2
                                /\ IF strategy = "max"
                                   THEN Resolved(A).value[1] >= stack[i].value[1]
                                   ELSE Resolved(A).value[1] <= stack[i].value[1]
           /\ ~Resolved(A).conflict
           /\ Resolved(A).winner \in Saying(A)
           /\ stack[Resolved(A).winner].value = Resolved(A).value
<1> DEFINE takeMax == strategy = "max"
           All == {Stack!Said(Ranked(A), n) : n \in DOMAIN Ranked(A)}
           Beats(v) == \A n \in DOMAIN Ranked(A) : IF takeMax THEN v >= Stack!Said(Ranked(A), n)
                                                ELSE v <= Stack!Said(Ranked(A), n)
<1>1. Resolved(A) = Stack!MergeExtremum(Ranked(A), takeMax) /\ 1 \in DOMAIN Ranked(A)
  <2>1. CASE strategy = "max"
    <3>1. takeMax = TRUE
      BY <2>1
    <3>2. Resolved(A) = Stack!MergeExtremum(Ranked(A), TRUE)
      BY <2>1, EffectiveIs DEF Stack!ApplyStrategy
    <3> QED
      BY <3>1, <3>2, EffectiveIs
  <2>2. CASE strategy = "min"
    <3>1. takeMax = FALSE
      BY <2>2
    <3>2. Resolved(A) = Stack!MergeExtremum(Ranked(A), FALSE)
      BY <2>2, EffectiveIs DEF Stack!ApplyStrategy
    <3> QED
      BY <3>1, <3>2, EffectiveIs
  <2> QED
    BY <2>1, <2>2
<1>2. All \subseteq {0, 1, 2} /\ All # {}
  <2>1. \A n \in DOMAIN Ranked(A) : Stack!Said(Ranked(A), n) \in 0 .. 2
    BY SaidIs, SayingSays DEF Stack!Values
  <2> QED
    BY <1>1, <2>1
<1>3. \E v \in All : Beats(v)
  <2>1. \E v \in All : \A w \in All : IF takeMax THEN v >= w ELSE v <= w
    <3>1. CASE takeMax
      BY <1>2, <3>1
    <3>2. CASE ~takeMax
      BY <1>2, <3>2
    <3> QED
      BY <3>1, <3>2
  <2> QED
    BY <2>1
<1>4. PICK v : v = CHOOSE w \in All : Beats(w)
  OBVIOUS
<1>5. v \in All /\ Beats(v)
  BY <1>3, <1>4
<1>6. Resolved(A) = Stack!Outcome(v, Stack!FirstWith(Ranked(A), v), Stack!Losers(Ranked(A), v), FALSE)
  BY <1>1, <1>4 DEF Stack!MergeExtremum
<1>7. /\ Resolved(A).value = Stack!Value(v) /\ ~Resolved(A).conflict
      /\ Resolved(A).winner = Stack!FirstWith(Ranked(A), v)
  BY <1>6 DEF Stack!Outcome
<1>8. Resolved(A).value[1] = v
  BY <1>7 DEF Stack!Value
<1>9. \A i \in Saying(A) : /\ stack[i].value[1] \in {0, 1, 2}
                        /\ IF takeMax THEN v >= stack[i].value[1] ELSE v <= stack[i].value[1]
  <2> SUFFICES ASSUME NEW i \in Saying(A)
               PROVE  /\ stack[i].value[1] \in {0, 1, 2}
                      /\ IF takeMax THEN v >= stack[i].value[1] ELSE v <= stack[i].value[1]
    OBVIOUS
  <2>1. PICK n \in DOMAIN Ranked(A) : Ranked(A)[n] = i /\ Stack!Said(Ranked(A), n) = stack[i].value[1]
    BY SaidIs
  <2>2. stack[i].value[1] \in All
    BY <2>1
  <2>3. IF takeMax THEN v >= Stack!Said(Ranked(A), n) ELSE v <= Stack!Said(Ranked(A), n)
    BY <1>5
  <2> QED
    BY <1>2, <2>1, <2>2, <2>3
<1> QED
  BY <1>2, <1>5, <1>7, <1>8, <1>9, FirstSays

\* The highest tells of all that said something else; the merge by key, of all that said
\* something that is not in it; the sets of nobody.
LEMMA RestIsTold ==
    ASSUME Stacked, NEW A \in SUBSET Stack!Assigned, Saying(A) # {},
           strategy \notin {"most_restrictive", "max", "min"}
    PROVE  /\ strategy \in {"union", "intersect"} =>
                  ~Resolved(A).conflict /\ Resolved(A).winner = Stack!Nobody
           /\ strategy = "merge_by_key" =>
                  /\ Resolved(A).winner = Stack!Nobody
                  /\ Resolved(A).overridden =
                         {i \in Saying(A) : \E x \in Stack!ToSet(stack[i].value[1]) :
                                                ~Stack!Contains(Resolved(A).value[1], x)}
                  /\ Resolved(A).conflict <=> Resolved(A).overridden # {}
           /\ strategy = "highest_rank" =>
                  /\ Resolved(A).winner \in Saying(A)
                  /\ stack[Resolved(A).winner].value = Resolved(A).value
                  /\ Resolved(A).overridden =
                         {i \in Saying(A) : stack[i].value # Resolved(A).value}
                  /\ Resolved(A).conflict <=> Resolved(A).overridden # {}
<1>1. Resolved(A) = Stack!ApplyStrategy(Ranked(A)) /\ 1 \in DOMAIN Ranked(A)
  BY EffectiveIs
<1>2. strategy \in {"union", "intersect"} =>
          ~Resolved(A).conflict /\ Resolved(A).winner = Stack!Nobody
  <2> SUFFICES ASSUME strategy \in {"union", "intersect"}
               PROVE  ~Resolved(A).conflict /\ Resolved(A).winner = Stack!Nobody
    OBVIOUS
  <2>1. \E v, o : Stack!MergeUnion(Ranked(A)) = Stack!Outcome(v, Stack!Nobody, o, FALSE)
    BY Zenon DEF Stack!MergeUnion
  <2>2. \E v, o : Stack!MergeIntersect(Ranked(A)) = Stack!Outcome(v, Stack!Nobody, o, FALSE)
    BY Zenon DEF Stack!MergeIntersect
  <2>3. PICK v, o : Resolved(A) = Stack!Outcome(v, Stack!Nobody, o, FALSE)
    BY <1>1, <2>1, <2>2 DEF Stack!ApplyStrategy
  <2> QED
    BY <2>3 DEF Stack!Outcome
<1>3. ASSUME strategy = "merge_by_key"
      PROVE  /\ Resolved(A).winner = Stack!Nobody
             /\ Resolved(A).overridden =
                    {i \in Saying(A) : \E x \in Stack!ToSet(stack[i].value[1]) :
                                           ~Stack!Contains(Resolved(A).value[1], x)}
             /\ Resolved(A).conflict <=> Resolved(A).overridden # {}
  BY <1>3, MergeIs
<1>4. ASSUME strategy = "highest_rank"
      PROVE  /\ Resolved(A).winner \in Saying(A)
             /\ stack[Resolved(A).winner].value = Resolved(A).value
             /\ Resolved(A).overridden = {i \in Saying(A) : stack[i].value # Resolved(A).value}
             /\ Resolved(A).conflict <=> Resolved(A).overridden # {}
  <2>1. Resolved(A) = Stack!HighestRank(Ranked(A))
    BY <1>1, <1>4 DEF Stack!ApplyStrategy
  <2>2. PICK v, losers, b :
            /\ v = Stack!Said(Ranked(A), 1) /\ losers = Stack!Losers(Ranked(A), v)
            /\ b = (losers # {}) /\ Resolved(A) = Stack!Outcome(v, Ranked(A)[1], losers, b)
    BY <2>1 DEF Stack!HighestRank
  <2>3. /\ Resolved(A).value = Stack!Value(v) /\ Resolved(A).winner = Ranked(A)[1]
        /\ Resolved(A).overridden = losers /\ Resolved(A).conflict = b
    BY <2>2 DEF Stack!Outcome
  <2>4. Ranked(A)[1] \in Saying(A) /\ stack[Ranked(A)[1]].value = Stack!Value(v)
    BY <1>1, <2>2, SaidIs, SayingSays
  <2>5. \A i \in Saying(A) : stack[i].value[1] = v <=> stack[i].value = Stack!Value(v)
    BY SayingSays DEF Stack!Value
  <2>6. losers = {i \in Saying(A) : stack[i].value[1] # v}
    BY <2>2, SaidIs DEF Stack!Losers
  <2> QED
    BY <2>2, <2>3, <2>4, <2>5, <2>6
<1> QED
  BY <1>2, <1>3, <1>4

LEMMA EffectiveResolves == Stack!Effective = Resolved(Stack!Assigned)
  BY DEF Stack!Effective, Resolved

LEMMA Told ==
    ASSUME Stacked
    PROVE  Stack!ConflictsAreTold
<1> DEFINE All == Stack!Assigned
           e == Stack!Effective
           Unmet(i) == CASE strategy = "highest_rank" -> stack[i].value # e.value
                         [] strategy = "merge_by_key" ->
                                \E x \in Stack!ToSet(stack[i].value[1]) :
                                    ~Stack!Contains(e.value[1], x)
                         [] OTHER -> FALSE
           unmet == {i \in All : stack[i].value # Stack!Absent /\ Unmet(i)}
<1>1. e = Resolved(All)
  BY EffectiveResolves
<1>2. unmet = {i \in Saying(All) : Unmet(i)}
  BY DEF Saying
<1>3. CASE Saying(All) = {}
  <2>1. unmet = {}
    BY <1>2, <1>3
  <2>2. e.conflict = FALSE /\ e.winner = Stack!Nobody
    BY <1>1, <1>3, EffectiveIs
  <2> HIDE DEF e, unmet
  <2>3. /\ e.conflict <=> unmet # {}
        /\ e.conflict => e.overridden = unmet
        /\ e.winner # Stack!Nobody => stack[e.winner].value = e.value
    BY <2>1, <2>2
  <2> QED
    BY <2>3 DEF Stack!ConflictsAreTold, e, unmet
<1>4. CASE Saying(All) # {}
  <2>1. CASE strategy \in {"most_restrictive", "max", "min"}
    <3>1. unmet = {}
      BY <1>2, <2>1
    <3>2. ~e.conflict /\ stack[e.winner].value = e.value
      BY <1>1, <1>4, <2>1, DenialWins, ExtremumWins
    <3> HIDE DEF e, unmet
    <3>3. /\ e.conflict <=> unmet # {}
          /\ e.conflict => e.overridden = unmet
          /\ e.winner # Stack!Nobody => stack[e.winner].value = e.value
      BY <3>1, <3>2
    <3> QED
      BY <3>3 DEF Stack!ConflictsAreTold, e, unmet
  <2>2. CASE strategy \in {"union", "intersect"}
    <3>1. unmet = {}
      BY <1>2, <2>2
    <3>2. ~e.conflict /\ e.winner = Stack!Nobody
      BY <1>1, <1>4, <2>2, RestIsTold
    <3> HIDE DEF e, unmet
    <3>3. /\ e.conflict <=> unmet # {}
          /\ e.conflict => e.overridden = unmet
          /\ e.winner # Stack!Nobody => stack[e.winner].value = e.value
      BY <3>1, <3>2
    <3> QED
      BY <3>3 DEF Stack!ConflictsAreTold, e, unmet
  <2>3. CASE strategy \in {"merge_by_key", "highest_rank"}
    <3>1. /\ e.overridden = unmet
          /\ e.conflict <=> e.overridden # {}
          /\ e.winner # Stack!Nobody => stack[e.winner].value = e.value
      BY <1>1, <1>2, <1>4, <2>3, RestIsTold
    <3> HIDE DEF e, unmet
    <3>2. /\ e.conflict <=> unmet # {}
          /\ e.conflict => e.overridden = unmet
          /\ e.winner # Stack!Nobody => stack[e.winner].value = e.value
      BY <3>1
    <3> QED
      BY <3>2 DEF Stack!ConflictsAreTold, e, unmet
  <2> QED
    BY <2>1, <2>2, <2>3 DEF Stacked, Stack!Strategies
<1> QED
  BY <1>3, <1>4

LEMMA OrderIsNothing ==
    ASSUME Stacked
    PROVE  Stack!ReadOrderIsIrrelevant
<1> DEFINE n == Stack!Cardinality(Stack!Assigned)
<1>1. ASSUME NEW read \in [1 .. n -> Stack!Assigned], Stack!ToSet(read) = Stack!Assigned
      PROVE  Stack!Resolve(read) = Stack!Effective
  <2>1. n = Cardinality(Stack!Assigned) /\ n \in Nat /\ IsFiniteSet(Stack!Assigned)
    BY SameCardinality, SayingIsFinite, FS_CardinalityType
  <2>2. IsFiniteSet(1 .. n) /\ Cardinality(1 .. n) = n
    BY <2>1, FS_Interval
  <2>3. \A i \in Stack!Assigned : \E m \in 1 .. n : read[m] = i
    BY <1>1 DEF Stack!ToSet
  <2>4. read \in Surjection(1 .. n, Stack!Assigned)
    BY <2>3 DEF Surjection
  <2>5. read \in Injection(1 .. n, Stack!Assigned)
    BY <2>1, <2>2, <2>4, FS_SurjSameCardinalityImpliesInj
  <2>6. read \in Bijection(1 .. n, Stack!Assigned)
    BY <2>4, <2>5 DEF Bijection
  <2> QED
    BY <2>6, ReadersAgree, EffectiveResolves
<1> QED
  BY <1>1 DEF Stack!ReadOrderIsIrrelevant

\* One row more denies no less, raises a maximum or lowers a minimum if anything, adds to
\* a union and takes from an intersection.
LEMMA OneMoreTightens ==
    ASSUME Stacked
    PROVE  Stack!StackingOnlyTightens
<1> SUFFICES ASSUME NEW i \in Stack!Assigned, Stack!Without(i).value # Stack!Absent
             PROVE  Stack!Tighter(Stack!Effective.value[1], Stack!Without(i).value[1])
  BY DEF Stack!StackingOnlyTightens
<1> DEFINE All == Stack!Assigned
           Rest == Stack!Assigned \ {i}
<1>1. Stack!Effective = Resolved(All) /\ Stack!Without(i) = Resolved(Rest)
  BY DEF Stack!Effective, Stack!Without, Resolved
<1>2. Saying(Rest) \subseteq Saying(All)
  BY DEF Saying
<1>3. Saying(Rest) # {} /\ Saying(All) # {}
  BY <1>1, <1>2, EffectiveIs
<1>4. CASE strategy = "most_restrictive"
  <2>1. /\ Resolved(All).value[1] <=> \A j \in Saying(All) : stack[j].value[1]
        /\ Resolved(Rest).value[1] <=> \A j \in Saying(Rest) : stack[j].value[1]
    BY <1>3, <1>4, DenialWins
  <2>2. Resolved(All).value[1] => Resolved(Rest).value[1]
    BY <1>2, <2>1
  <2> QED
    BY <1>1, <1>4, <2>2 DEF Stack!Tighter
<1>5. CASE strategy \in {"max", "min"}
  <2>1. /\ Resolved(Rest).winner \in Saying(Rest)
        /\ stack[Resolved(Rest).winner].value = Resolved(Rest).value
    BY <1>3, <1>5, ExtremumWins
  <2>2. IF strategy = "max" THEN Resolved(All).value[1] >= Resolved(Rest).value[1]
        ELSE Resolved(All).value[1] <= Resolved(Rest).value[1]
    BY <1>2, <1>3, <1>5, <2>1, ExtremumWins
  <2> QED
    BY <1>1, <1>5, <2>2 DEF Stack!Tighter
<1>6. CASE strategy = "union"
  <2>1. Stack!ToSet(Resolved(Rest).value[1]) \subseteq Stack!ToSet(Resolved(All).value[1])
    BY <1>2, <1>3, <1>6, UnionIs
  <2> QED
    BY <1>1, <1>6, <2>1 DEF Stack!Tighter
<1>7. CASE strategy = "intersect"
  <2>1. Stack!ToSet(Resolved(All).value[1]) \subseteq Stack!ToSet(Resolved(Rest).value[1])
    BY <1>2, <1>3, <1>7, IntersectIs
  <2> QED
    BY <1>1, <1>7, <2>1 DEF Stack!Tighter
<1>8. CASE strategy \in {"merge_by_key", "highest_rank"}
  BY <1>8 DEF Stack!Tighter
<1> QED
  BY <1>4, <1>5, <1>6, <1>7, <1>8 DEF Stacked, Stack!Strategies

LEMMA StackedHolds == Spec => []Stacked
<1>1. Init => Stacked
  BY InitStacked DEF Init
<1>2. Stacked /\ [Next]_vars => Stacked'
  BY StackMoves, StepStacked
<1> QED
  BY <1>1, <1>2, PTL DEF Spec

\* The effective value, its winner and its conflicts are a function of the assignment rows,
\* in whatever order a query returns them (resolver.order_assignments).
THEOREM OrderOfReadingIsNothing == Spec => []ReadOrderIsIrrelevant
<1>1. Stacked => ReadOrderIsIrrelevant
  BY OrderIsNothing DEF ReadOrderIsIrrelevant
<1> QED
  BY <1>1, StackedHolds, PTL

\* The conflict record names exactly those of whom something said is not in effect, and
\* the winner said what is (strategies.MergeOutcome, resolver._record_conflict).
THEOREM NothingIsDroppedInSilence == Spec => []ConflictsAreTold
<1>1. Stacked => ConflictsAreTold
  BY Told DEF ConflictsAreTold
<1> QED
  BY <1>1, StackedHolds, PTL

\* One more policy lifts no denial, lowers no maximum, raises no minimum, takes nothing out
\* of a union and adds nothing to an intersection, at whatever rank and scope
\* (strategies._merge_most_restrictive, _merge_extremum, _merge_union, _merge_intersect).
THEOREM OneMorePolicyTightens == Spec => []StackingOnlyTightens
<1>1. Stacked => StackingOnlyTightens
  BY OneMoreTightens DEF StackingOnlyTightens
<1> QED
  BY <1>1, StackedHolds, PTL

-----------------------------------------------------------------------------
(* The builds a device is told                                             *)

LEMMA AppMoves ==
    [Next]_vars => [App!Next]_(App!resolutionVars)
  BY DEF Next, AuditStep, BellStep, AlertStep, IdentityStep, TakGovStep, StackingStep,
     AppStep, LibraryStep, TrustStep, Others, vars, appVars, App!resolutionVars

\* A policy that may be stored, over builds there may be.
Shelved ==
    /\ App!Valid(policy)
    /\ stock \subseteq Universe /\ IsFiniteSet(stock)
    /\ links \subseteq Carries

LEMMA InitShelved == App!Init => Shelved
  BY FS_EmptySet DEF App!Init, Shelved

LEMMA StepShelved ==
    ASSUME Shelved, [App!Next]_(App!resolutionVars)
    PROVE  Shelved'
<1>1. ASSUME NEW b \in Universe, App!Upload(b)
      PROVE  Shelved'
  <2> DEFINE inside == {l \in Carries : l[1] = b}
             brought == {l[2] : l \in inside}
  <2>1. IsFiniteSet(inside)
    BY ResolutionAssumption, FS_Subset
  <2>2. IsFiniteSet(brought)
    <3> DEFINE f == [l \in inside |-> l[2]]
    <3>1. f \in Surjection(inside, brought)
      BY DEF Surjection
    <3> HIDE DEF inside, brought, f
    <3> QED
      BY <2>1, <3>1, FS_Surjection
  <2>3. IsFiniteSet(stock \cup {b} \cup brought)
    BY <2>2, FS_Union, FS_Singleton DEF Shelved
  <2>4. brought \subseteq Universe
    BY ResolutionAssumption
  <2> QED
    BY <1>1, <2>3, <2>4 DEF App!Upload, Shelved, App!Valid
<1>2. ASSUME NEW b \in Universe, App!Delete(b)
      PROVE  Shelved'
  <2>1. IsFiniteSet(stock \ {b})
    BY FS_Subset DEF Shelved
  <2> QED
    BY <1>2, <2>1 DEF App!Delete, Shelved, App!Valid
<1>3. CASE UNCHANGED App!resolutionVars
  BY <1>3 DEF App!resolutionVars, Shelved, App!Valid
<1> QED
  BY <1>1, <1>2, <1>3 DEF App!Next

\* Finitely many builds have a highest, by whatever number.
LEMMA HighestOf ==
    ASSUME NEW B, IsFiniteSet(B), B # {}, NEW rank \in [B -> Nat]
    PROVE  \E b \in B : \A v \in B : rank[v] <= rank[b]
<1> DEFINE Headless(S) == S # {} /\ ~ \E b \in S : \A v \in S : rank[v] <= rank[b]
           T == {n \in Nat : \E S \in SUBSET B : Cardinality(S) = n /\ Headless(S)}
<1>0. \A b \in B : rank[b] \in Nat
  OBVIOUS
<1>1. SUFFICES T = {}
  <2>1. Cardinality(B) \in Nat
    BY FS_CardinalityType
  <2> QED
    BY <1>1, <2>1
<1>2. SUFFICES ASSUME T # {}
               PROVE  FALSE
  OBVIOUS
<1>3. PICK n \in T : \A m \in T : n <= m
  BY <1>2, LeastOf
<1>4. PICK S \in SUBSET B : Cardinality(S) = n /\ Headless(S)
  BY <1>3
<1>5. PICK x \in S : TRUE
  BY <1>4
<1>6. IsFiniteSet(S)
  BY FS_Subset
<1>7. IsFiniteSet(S \ {x}) /\ Cardinality(S \ {x}) = n - 1 /\ n - 1 \in Nat
  <2>1. IsFiniteSet(S \ {x}) /\ Cardinality(S \ {x}) = Cardinality(S) - 1
    BY <1>5, <1>6, FS_RemoveElement
  <2>2. Cardinality(S \ {x}) \in Nat
    BY <2>1, FS_CardinalityType
  <2> QED
    BY <1>4, <2>1, <2>2
<1>8. ~Headless(S \ {x})
  <2>1. n - 1 \notin T
    BY <1>3, <1>7
  <2> QED
    BY <1>7, <2>1
<1>9. CASE S \ {x} = {}
  <2>1. S = {x}
    BY <1>9
  <2> QED
    BY <1>0, <1>4, <2>1
<1>10. CASE S \ {x} # {}
  <2>1. PICK b \in S \ {x} : \A v \in S \ {x} : rank[v] <= rank[b]
    BY <1>8, <1>10
  <2>2. rank[b] \in Nat /\ rank[x] \in Nat /\ b \in S
    BY <1>0, <2>1
  <2>3. CASE rank[x] <= rank[b]
    <3>1. \A v \in S : rank[v] <= rank[b]
      BY <2>1, <2>3
    <3> QED
      BY <1>4, <2>2, <3>1
  <2>4. CASE rank[b] <= rank[x]
    <3>1. \A v \in S : rank[v] <= rank[x]
      BY <1>0, <2>1, <2>2, <2>4
    <3> QED
      BY <1>4, <1>5, <3>1
  <2> QED
    BY <2>2, <2>3, <2>4
<1> QED
  BY <1>9, <1>10

\* The top of some builds is one of them, and no other is higher.
LEMMA TopIs ==
    ASSUME NEW B, B \subseteq Universe, IsFiniteSet(B), B # {}
    PROVE  App!Top(B) \in B /\ \A v \in B : v.code <= App!Top(B).code
<1> DEFINE code == [b \in B |-> b.code]
<1>1. code \in [B -> Nat]
  BY ResolutionAssumption
<1>2. \E b \in B : \A v \in B : code[v] <= code[b]
  <2> HIDE DEF code
  <2> QED
    BY <1>1, HighestOf
<1>3. \E b \in B : \A v \in B : v.code <= b.code
  BY <1>2
<1> QED
  BY <1>3 DEF App!Top

LEMMA StockedTop ==
    ASSUME Shelved, NEW B, B \subseteq stock
    PROVE  /\ App!Top(B) \in B \cup {App!NoBuild}
           /\ B # {} => App!Top(B) \in B /\ \A v \in B : v.code <= App!Top(B).code
<1>1. B \subseteq Universe /\ IsFiniteSet(B)
  BY FS_Subset DEF Shelved
<1>2. CASE B = {}
  BY <1>2 DEF App!Top
<1>3. CASE B # {}
  BY <1>1, <1>3, TopIs
<1> QED
  BY <1>2, <1>3

\* A plugin that is chosen is one that ATAK of this line will load.
LEMMA ChosenLoads ==
    ASSUME Shelved, NEW p, NEW atak, atak # App!NoLine, NEW line,
           App!Choose(p, atak, line).line # App!NoLine
    PROVE  \/ App!Choose(p, atak, line).line = atak
           \/ App!Loads(App!Choose(p, atak, line).line, atak)
<1> DEFINE inLine == {b \in App!Of(p) : line = App!NoLine \/ b.version = line}
           runnable == {b \in inLine : b.sdk <= device.level}
           plugins == {b \in runnable : b.line # App!NoLine}
           exact == {b \in plugins : b.line = atak}
           older == {b \in plugins : App!Loads(b.line, atak)}
<1>1. runnable \subseteq stock /\ plugins \subseteq stock
  BY DEF App!Of
<1>2. App!NoBuild.line = App!NoLine
  BY DEF App!NoBuild
<1>3. CASE plugins = {}
  <2>1. App!Choose(p, atak, line) = App!Top(runnable)
    BY <1>3 DEF App!Choose
  <2>2. App!Top(runnable) \in runnable
    BY <1>1, <1>2, <2>1, StockedTop
  <2> QED
    BY <1>3, <2>1, <2>2
<1>4. CASE plugins # {}
  <2>1. App!Choose(p, atak, line) = App!Top(IF exact # {} THEN exact ELSE older)
    BY <1>4 DEF App!Choose
  <2>2. App!Choose(p, atak, line) \in exact \cup older
    BY <1>1, <1>2, <2>1, StockedTop
  <2> QED
    BY <2>2
<1> QED
  BY <1>3, <1>4

LEMMA ChosenIsOf ==
    ASSUME Shelved, NEW p, NEW atak, NEW line
    PROVE  App!Choose(p, atak, line) \in App!Of(p) \cup {App!NoBuild}
<1> DEFINE inLine == {b \in App!Of(p) : line = App!NoLine \/ b.version = line}
           runnable == {b \in inLine : b.sdk <= device.level}
           plugins == {b \in runnable : b.line # App!NoLine}
           exact == {b \in plugins : b.line = atak}
           older == {b \in plugins : App!Loads(b.line, atak)}
<1>1. \E B \in SUBSET App!Of(p) : App!Choose(p, atak, line) = App!Top(B)
  <2>1. runnable \subseteq App!Of(p) /\ exact \subseteq App!Of(p) /\ older \subseteq App!Of(p)
    OBVIOUS
  <2>2. \/ App!Choose(p, atak, line) = App!Top(runnable)
        \/ App!Choose(p, atak, line) = App!Top(exact)
        \/ App!Choose(p, atak, line) = App!Top(older)
    BY DEF App!Choose
  <2> HIDE DEF runnable, exact, older
  <2> QED
    BY <2>1, <2>2
<1> QED
  BY <1>1, StockedTop DEF App!Of

LEMMA BuildIsOf ==
    ASSUME Shelved, NEW e, NEW atak
    PROVE  App!Build(e, atak) \in App!Of(e.pkg) \cup {App!NoBuild}
  BY ChosenIsOf DEF App!Build

\* The newest build of ATAK is the newest there is, and beside ATAK of the line of that
\* very build it is chosen again: no other build has its versionCode.
LEMMA AtakIsChosenAgain ==
    ASSUME Shelved, NEW line, NEW atak,
           LET alone == App!Choose(Atak, App!NoLine, line)
           IN  alone # App!NoBuild => atak = alone.version
    PROVE  App!Choose(Atak, atak, line) = App!Choose(Atak, App!NoLine, line)
<1> DEFINE inLine == {b \in App!Of(Atak) : line = App!NoLine \/ b.version = line}
           runnable == {b \in inLine : b.sdk <= device.level}
           plugins == {b \in runnable : b.line # App!NoLine}
           exact == {b \in plugins : b.line = atak}
           older == {b \in plugins : App!Loads(b.line, atak)}
           alone == App!Top(runnable)
<1>1. App!Choose(Atak, App!NoLine, line) = alone
  BY DEF App!Choose
<1>2. runnable \subseteq stock /\ runnable \subseteq Universe
  BY DEF App!Of, Shelved
<1>3. CASE runnable = {}
  <2>1. App!Choose(Atak, atak, line) = alone
    BY <1>3 DEF App!Choose
  <2> QED
    BY <1>1, <2>1
<1>4. CASE runnable # {}
  <2>1. alone \in runnable /\ \A v \in runnable : v.code <= alone.code
    <3> HIDE DEF runnable
    <3> QED
      BY <1>2, <1>4, StockedTop
  <2>2. \A b \in runnable : b.pkg = Atak
    BY DEF App!Of
  <2>3. alone.version = alone.line /\ alone.line # App!NoLine /\ alone # App!NoBuild
    BY <1>2, <2>1, <2>2, ResolutionAssumption
  <2>4. atak = alone.line
    BY <1>1, <2>3
  <2>5. alone \in exact
    BY <2>1, <2>3, <2>4
  <2>6. App!Choose(Atak, atak, line) = App!Top(exact)
    BY <2>3, <2>4, <2>5 DEF App!Choose
  <2>7. exact \subseteq stock /\ exact \subseteq runnable
    BY <1>2
  <2>8. App!Top(exact) \in exact /\ \A v \in exact : v.code <= App!Top(exact).code
    <3> HIDE DEF exact
    <3> QED
      BY <2>5, <2>7, StockedTop
  <2>9. /\ App!Top(exact).code <= alone.code /\ alone.code <= App!Top(exact).code
        /\ App!Top(exact).pkg = alone.pkg
        /\ App!Top(exact) \in Universe /\ alone \in Universe
    <3> HIDE DEF exact, runnable, alone
    <3> QED
      BY <1>2, <2>1, <2>2, <2>5, <2>7, <2>8
  <2>10. App!Top(exact) = alone
    <3> HIDE DEF exact, runnable, alone
    <3>1. App!Top(exact).code \in Nat /\ alone.code \in Nat
      BY <2>9, ResolutionAssumption
    <3>2. App!Top(exact).code = alone.code
      BY <2>9, <3>1
    <3> QED
      BY <2>9, <3>2, ResolutionAssumption
  <2> QED
    BY <1>1, <2>6, <2>10
<1> QED
  BY <1>3, <1>4

-----------------------------------------------------------------------------
(* What is required                                                        *)

\* ATLAS's plugin is pinned to a build there is, of a line no higher than that of the
\* ATAK that ATAK Core pins.
LEMMA AtlasEntryIs ==
    ASSUME Shelved, NEW f \in App!AtlasEntries
    PROVE  /\ f.pkg = AtlasPlugin /\ ~f.newest /\ f.pin \in App!Of(AtlasPlugin)
           /\ \E c \in policy.core : /\ c.pkg = Atak /\ c.pin \in App!Of(Atak)
                                     /\ f.pin.line <= c.pin.version
<1> DEFINE fitting == {b \in App!Of(AtlasPlugin) :
                          /\ b.line # App!NoLine
                          /\ \E c \in policy.core :
                                 /\ c.pkg = Atak /\ c.pin \in App!Of(Atak)
                                 /\ b.line <= c.pin.version}
           best == {b \in fitting : \A v \in fitting : v.line <= b.line}
           lines == [b \in fitting |-> b.line]
<1>1. fitting # {} /\ f = App!Pinned(App!Top(best))
  BY DEF App!AtlasEntries
<1>2. IsFiniteSet(fitting) /\ fitting \subseteq stock
  BY FS_Subset DEF App!Of, Shelved
<1>3. lines \in [fitting -> Nat]
  BY <1>2, ResolutionAssumption DEF Shelved
<1>4. \E b \in fitting : \A v \in fitting : lines[v] <= lines[b]
  <2> HIDE DEF lines, fitting
  <2> QED
    BY <1>1, <1>2, <1>3, HighestOf
<1>5. best # {} /\ best \subseteq stock
  BY <1>2, <1>4
<1>6. App!Top(best) \in best
  <2> HIDE DEF best
  <2> QED
    BY <1>5, StockedTop
<1>7. App!Top(best) \in App!Of(AtlasPlugin)
  BY <1>6
<1> QED
  BY <1>1, <1>6, <1>7 DEF App!Pinned, App!Of

\* The entry of the launcher or the filter is of it.
LEMMA OwnEntryIs ==
    ASSUME Shelved, NEW p
    PROVE  App!OwnEntry(p).pkg = p /\ ~App!OwnEntry(p).newest
<1>1. CASE App!Of(p) = {}
  BY <1>1 DEF App!OwnEntry, App!Open
<1>2. CASE App!Of(p) # {}
  <2>1. App!Top(App!Of(p)) \in App!Of(p)
    BY <1>2, StockedTop DEF App!Of
  <2> QED
    BY <1>2, <2>1 DEF App!OwnEntry, App!Pinned, App!Of
<1> QED
  BY <1>1, <1>2

Packages == Plugin \cup OtherApp \cup {Atak, AtlasPlugin, Launcher, WebFilter}

\* What a policy's own entries are, at the place of each field.
LEMMA SaidAre ==
    ASSUME Shelved
    PROVE  /\ \A s \in App!Said :
                  /\ s = <<s[1], s[2]>> /\ s[1] \in 1 .. 3
                  /\ s[2].pkg \in {Atak} \cup Plugin \cup OtherApp
           /\ \A s \in App!Said : s[1] = App!Core => s[2] \in policy.core
           /\ \A e \in policy.core : <<App!Core, e>> \in App!Said
           /\ \A s, t \in App!Said : s[1] = t[1] /\ s[2].pkg = t[2].pkg => s = t
<1>1. \A s \in App!Said : /\ s = <<s[1], s[2]>>
                          /\ \/ s[1] = 1 /\ s[2] \in policy.core
                             \/ s[1] = 2 /\ s[2] \in policy.plugins
                             \/ s[1] = 3 /\ s[2] \in policy.apps
  BY DEF App!Said, App!Core
<1>2. \A e \in policy.core : <<App!Core, e>> \in App!Said
  BY DEF App!Said
<1>3. \A e \in policy.core \cup policy.plugins \cup policy.apps :
          e.pkg \in {Atak} \cup Plugin \cup OtherApp
  BY DEF Shelved, App!Valid
<1>4. /\ \A e, f \in policy.core : e = f
      /\ \A e, f \in policy.plugins : e.pkg = f.pkg => e = f
      /\ \A e, f \in policy.apps : e.pkg = f.pkg => e = f
  BY DEF Shelved, App!Valid
<1>5. ASSUME NEW s \in App!Said, NEW t \in App!Said, s[1] = t[1], s[2].pkg = t[2].pkg
      PROVE  s = t
  <2>1. s[2] = t[2]
    BY <1>1, <1>4, <1>5
  <2> QED
    BY <1>1, <1>5, <2>1
<1> QED
  BY <1>1, <1>2, <1>3, <1>5 DEF App!Core

\* Entries of packages not yet named come in once each, at their own place.
LEMMA UnlessIs ==
    ASSUME NEW said, NEW entries, \A e, f \in entries : e.pkg = f.pkg => e = f
    PROVE  /\ said \subseteq App!Unless(said, entries)
           /\ \A s \in App!Unless(said, entries) \ said :
                  /\ s = <<s[1], s[2]>> /\ s[1] = 4 /\ s[2] \in entries
                  /\ \A t \in App!Unless(said, entries) : s[2].pkg = t[2].pkg => s = t
  BY DEF App!Unless

\* What is required is what the policy's fields say, each at its place, and beside that one
\* entry of each package that no field names.
LEMMA RequiredAre ==
    ASSUME Shelved
    PROVE  /\ App!Said \subseteq App!Required
           /\ \A s \in App!Required \ App!Said :
                  /\ s = <<s[1], s[2]>> /\ s[1] = 4 /\ ~s[2].newest /\ s[2].pkg \in Packages
                  /\ s[2].pkg = AtlasPlugin => s[2] \in App!AtlasEntries
                  /\ \A t \in App!Required : s[2].pkg = t[2].pkg => s = t
<1> DEFINE own == App!AtlasEntries \cup {App!OwnEntry(p) : p \in policy.own}
           placed == {e \in policy.tiles : e.pin # App!NoBuild}
           first == App!Unless(App!Said, policy.kiosk)
           second == App!Unless(first, own)
<1>1. App!Required = App!Unless(second, placed)
  BY DEF App!Required
<1>2. \A e \in policy.kiosk \cup placed :
          ~e.newest /\ e.pkg \in Packages /\ e.pkg # AtlasPlugin
  BY ResolutionAssumption DEF Shelved, App!Valid, Packages
<1>3. /\ \A e, f \in policy.kiosk : e.pkg = f.pkg => e = f
      /\ \A e, f \in placed : e.pkg = f.pkg => e = f
  BY DEF Shelved, App!Valid
<1>4. /\ \A e \in own : ~e.newest /\ e.pkg \in Packages
      /\ \A e \in own : e.pkg = AtlasPlugin => e \in App!AtlasEntries
      /\ \A e, f \in own : e.pkg = f.pkg => e = f
  <2>1. \A e \in App!AtlasEntries : ~e.newest /\ e.pkg = AtlasPlugin
    BY AtlasEntryIs
  <2>2. \A e, f \in App!AtlasEntries : e = f
    BY DEF App!AtlasEntries
  <2>3. policy.own \subseteq Packages \ {AtlasPlugin}
    BY ResolutionAssumption DEF Shelved, App!Valid, Packages
  <2>4. \A e \in {App!OwnEntry(p) : p \in policy.own} :
            \E p \in policy.own : e = App!OwnEntry(p) /\ e.pkg = p /\ ~e.newest
    BY OwnEntryIs
  <2>5. AtlasPlugin \in Packages
    BY DEF Packages
  <2> QED
    BY <2>1, <2>2, <2>3, <2>4, <2>5
<1> HIDE DEF own, placed
<1>5. /\ App!Said \subseteq first
      /\ \A s \in first \ App!Said :
             /\ s = <<s[1], s[2]>> /\ s[1] = 4 /\ s[2] \in policy.kiosk
             /\ \A t \in first : s[2].pkg = t[2].pkg => s = t
  BY <1>3, UnlessIs
<1> HIDE DEF first
<1>6. /\ first \subseteq second
      /\ \A s \in second \ first :
             /\ s = <<s[1], s[2]>> /\ s[1] = 4 /\ s[2] \in own
             /\ \A t \in second : s[2].pkg = t[2].pkg => s = t
  BY <1>4, UnlessIs
<1> HIDE DEF second
<1>7. /\ second \subseteq App!Required
      /\ \A s \in App!Required \ second :
             /\ s = <<s[1], s[2]>> /\ s[1] = 4 /\ s[2] \in placed
             /\ \A t \in App!Required : s[2].pkg = t[2].pkg => s = t
  BY <1>1, <1>3, UnlessIs
<1>8. ASSUME NEW s \in App!Required \ App!Said
      PROVE  /\ s = <<s[1], s[2]>> /\ s[1] = 4 /\ ~s[2].newest /\ s[2].pkg \in Packages
             /\ s[2].pkg = AtlasPlugin => s[2] \in App!AtlasEntries
  BY <1>2, <1>4, <1>5, <1>6, <1>7
<1>9. ASSUME NEW s \in App!Required \ App!Said, NEW t \in App!Required, s[2].pkg = t[2].pkg
      PROVE  s = t
  <2>1. CASE s \in App!Required \ second \/ t \in App!Required \ second
    BY <1>7, <1>9, <2>1
  <2>2. CASE s \in second /\ t \in second /\ (s \in second \ first \/ t \in second \ first)
    BY <1>6, <1>9, <2>2
  <2>3. CASE s \in first /\ t \in first
    BY <1>5, <1>9, <2>3
  <2> QED
    BY <2>1, <2>2, <2>3
<1> QED
  BY <1>5, <1>6, <1>7, <1>8, <1>9

\* An entry is at one place, and two places name a package only if both are of the catalog.
LEMMA RequiredAreOne ==
    ASSUME Shelved
    PROVE  /\ \A s \in App!Required : s[1] \in 1 .. 4 /\ s[2].pkg \in Packages
           /\ \A s \in App!Required : s[1] = App!Core => s[2] \in policy.core
           /\ \A s \in App!Required : s[2].pkg = AtlasPlugin => s[2] \in App!AtlasEntries
           /\ \A s, t \in App!Required : s[1] = t[1] /\ s[2].pkg = t[2].pkg => s = t
           /\ \A s, t \in App!Required : s[2].pkg = t[2].pkg =>
                  s = t \/ (s[2].pkg \in App!NamedTwice /\ s[1] # t[1])
           /\ \A p \in App!NamedTwice : \E s \in App!Required : s[2].pkg = p
<1>1. \A s \in App!Said : s[2].pkg \in Packages /\ s[2].pkg # AtlasPlugin
  BY SaidAre, ResolutionAssumption DEF Packages
<1>2. ASSUME NEW s \in App!Required, NEW t \in App!Required, s[2].pkg = t[2].pkg
      PROVE  /\ s[1] = t[1] => s = t
             /\ s = t \/ (s[2].pkg \in App!NamedTwice /\ s[1] # t[1])
  <2>1. CASE s \in App!Said /\ t \in App!Said
    <3>1. s[1] = t[1] => s = t
      BY <1>2, <2>1, SaidAre
    <3>2. s # t => s[2].pkg \in App!NamedTwice
      BY <1>2, <2>1 DEF App!NamedTwice
    <3> QED
      BY <3>1, <3>2
  <2>2. CASE s \notin App!Said \/ t \notin App!Said
    BY <1>2, <2>2, RequiredAre
  <2> QED
    BY <2>1, <2>2
<1>3. \A p \in App!NamedTwice : \E s \in App!Required : s[2].pkg = p
  BY RequiredAre DEF App!NamedTwice
<1>4. \A s \in App!Required : s[1] \in 1 .. 4 /\ s[2].pkg \in Packages
  BY <1>1, SaidAre, RequiredAre
<1>5. \A s \in App!Required : s[1] = App!Core => s[2] \in policy.core
  BY SaidAre, RequiredAre DEF App!Core
<1>6. \A s \in App!Required : s[2].pkg = AtlasPlugin => s[2] \in App!AtlasEntries
  BY <1>1, RequiredAre
<1> QED
  BY <1>2, <1>3, <1>4, <1>5, <1>6

LEMMA ItemIs ==
    ASSUME NEW p, NEW b, NEW place, NEW carriers
    PROVE  /\ App!Item(p, b, place, carriers).pkg = p
           /\ App!Item(p, b, place, carriers).build = b
           /\ App!Item(p, b, place, carriers).place = place
           /\ App!Item(p, b, place, carriers).with = carriers
  BY DEF App!Item

\* The item of an entry, beside the ATAK there will be.
ItemOf(s) == App!Item(s[2].pkg, App!Build(s[2], App!AtakVersion), s[1], {})

LEMMA ItemOfIs ==
    /\ \A s : /\ ItemOf(s).pkg = s[2].pkg /\ ItemOf(s).place = s[1] /\ ItemOf(s).with = {}
              /\ ItemOf(s).build = App!Build(s[2], App!AtakVersion)
    /\ App!Resolved = {ItemOf(s) : s \in App!Required}
<1>1. ASSUME NEW s
      PROVE  /\ ItemOf(s).pkg = s[2].pkg /\ ItemOf(s).place = s[1] /\ ItemOf(s).with = {}
             /\ ItemOf(s).build = App!Build(s[2], App!AtakVersion)
  BY ItemIs DEF ItemOf
<1>2. App!Resolved = {ItemOf(s) : s \in App!Required}
  BY DEF App!Resolved, App!Beside, ItemOf
<1> QED
  BY <1>1, <1>2

\* The list brings a package by what is required, or as a companion of no such package.
LEMMA DeliveredIs ==
    ASSUME Shelved, NEW i \in App!Delivered
    PROVE  \/ \E s \in App!Required : i = ItemOf(s)
           \/ /\ i.pkg \in OtherApp /\ i.place = 0
              /\ \A s \in App!Required : s[2].pkg # i.pkg
<1>1. CASE i \in App!Resolved
  BY <1>1, ItemOfIs
<1>2. CASE i \in App!Companions(App!Resolved, App!Brought(App!Resolved))
  <2> DEFINE brought == App!Brought(App!Resolved)
             named == {j.pkg : j \in App!Resolved}
  <2>1. PICK l \in brought : l[2].pkg \notin named /\ i.pkg = l[2].pkg /\ i.place = 0
    <3>1. PICK p \in {l[2].pkg : l \in brought} \ named : i = App!OneOf(p, brought)
      BY <1>2, Zenon DEF App!Companions
    <3>2. i.pkg = p /\ i.place = 0
      <4> HIDE DEF brought, named
      <4> QED
        BY <3>1 DEF App!OneOf, App!Item
    <3> QED
      BY <3>1, <3>2
  <2>2. l \in links
    BY DEF App!Brought, App!From
  <2>3. \A s \in App!Required : s[2].pkg \in named
    BY ItemOfIs
  <2> QED
    BY <2>1, <2>2, <2>3, ResolutionAssumption DEF Shelved
<1> QED
  BY <1>1, <1>2 DEF App!Delivered

-----------------------------------------------------------------------------
(* Plugins and the ATAK beside them                                        *)

\* The builds ATAK Core puts on the list, as PluginsLoad has them.
CoreBuilds == {i.build : i \in {j \in App!Delivered : j.place = App!Core}} \ {App!NoBuild}

LEMMA CoreBuildsAre ==
    ASSUME Shelved
    PROVE  CoreBuilds = {App!Build(e, App!AtakVersion) : e \in policy.core} \ {App!NoBuild}
<1>1. ASSUME NEW i \in App!Delivered, i.place = App!Core
      PROVE  \E e \in policy.core : i.build = App!Build(e, App!AtakVersion)
  <2>1. PICK s \in App!Required : i = ItemOf(s)
    BY <1>1, DeliveredIs DEF App!Core
  <2>2. s[1] = App!Core /\ i.build = App!Build(s[2], App!AtakVersion)
    BY <1>1, <2>1, ItemOfIs
  <2>3. s[2] \in policy.core
    BY <2>2, RequiredAreOne
  <2> QED
    BY <2>2, <2>3
<1>2. ASSUME NEW e \in policy.core
      PROVE  \E i \in App!Delivered :
                 i.place = App!Core /\ i.build = App!Build(e, App!AtakVersion)
  <2>1. <<App!Core, e>> \in App!Required
    BY SaidAre, RequiredAre
  <2>2. ItemOf(<<App!Core, e>>) \in App!Delivered
    BY <2>1, ItemOfIs DEF App!Delivered
  <2> QED
    BY <2>2, ItemOfIs
<1> QED
  BY <1>1, <1>2 DEF CoreBuilds

\* The ATAK that plugins are chosen for is the one ATAK Core puts on the list, or the one
\* there is.
LEMMA AtakVersionIs ==
    ASSUME Shelved, App!CoreIsAtak
    PROVE  /\ CoreBuilds = {} => App!AtakVersion = device.atak
           /\ CoreBuilds # {} => \E b : CoreBuilds = {b} /\ App!AtakVersion = b.version
<1> DEFINE Alone(e) == IF e.newest THEN App!Choose(e.pkg, App!NoLine, e.held) ELSE e.pin
           core == {Alone(e) : e \in policy.core}
           there == core \cap stock
<1>1. App!AtakVersion =
          IF there # {} THEN (CHOOSE b \in there : TRUE).version ELSE device.atak
  BY DEF App!AtakVersion
<1>2. CASE policy.core = {}
  <2>1. CoreBuilds = {} /\ there = {}
    BY <1>2, CoreBuildsAre
  <2> QED
    BY <1>1, <2>1
<1>3. CASE policy.core # {}
  <2>1. PICK e \in policy.core : policy.core = {e}
    BY <1>3 DEF Shelved, App!Valid
  <2>2. e.pkg = Atak /\ (e.pin = App!NoBuild \/ (e.pin.pkg = Atak /\ ~e.newest))
    BY DEF App!CoreIsAtak
  <2>3. there = {Alone(e)} \cap stock
    BY <2>1
  <2>4. App!NoBuild \notin stock
    BY ResolutionAssumption DEF Shelved
  <2>5. CoreBuilds = {App!Build(e, App!AtakVersion)} \ {App!NoBuild}
    BY <2>1, CoreBuildsAre
  <2>6. CASE ~e.newest
    <3>1. Alone(e) = e.pin
      BY <2>6
    <3>2. App!Build(e, App!AtakVersion) = IF e.pin \in stock THEN e.pin ELSE App!NoBuild
      BY <2>2, <2>4, <2>6 DEF App!Build, App!Of
    <3>3. CASE e.pin \in stock
      <4>1. there = {e.pin} /\ CoreBuilds = {e.pin}
        BY <2>3, <2>4, <2>5, <3>1, <3>2, <3>3
      <4> QED
        BY <1>1, <4>1
    <3>4. CASE e.pin \notin stock
      <4>1. there = {} /\ CoreBuilds = {}
        BY <2>3, <2>5, <3>1, <3>2, <3>4
      <4> QED
        BY <1>1, <4>1
    <3> QED
      BY <3>3, <3>4
  <2>7. CASE e.newest
    <3> DEFINE alone == App!Choose(Atak, App!NoLine, e.held)
    <3>1. Alone(e) = alone
      BY <2>2, <2>7
    <3>2. App!Build(e, App!AtakVersion) = App!Choose(Atak, App!AtakVersion, e.held)
      BY <2>2, <2>7 DEF App!Build
    <3>3. alone \in stock \cup {App!NoBuild}
      BY ChosenIsOf DEF App!Of
    <3>4. alone # App!NoBuild => there = {alone} /\ App!AtakVersion = alone.version
      <4> HIDE DEF alone, Alone
      <4> QED
        BY <1>1, <2>3, <3>1, <3>3
    <3>5. App!Build(e, App!AtakVersion) = alone
      BY <3>2, <3>4, AtakIsChosenAgain
    <3>6. alone = App!NoBuild => there = {}
      <4> HIDE DEF alone, Alone
      <4> QED
        BY <2>3, <2>4, <3>1
    <3> HIDE DEF alone, there
    <3> QED
      BY <1>1, <2>5, <3>4, <3>5, <3>6
  <2> QED
    BY <2>6, <2>7
<1> QED
  BY <1>2, <1>3

\* ATLAS's plugin is for the ATAK that ATAK Core puts on the list, or an older one.
LEMMA AtlasPluginLoads ==
    ASSUME Shelved, App!CoreIsAtak, NEW s \in App!Required, s[2].pkg = AtlasPlugin
    PROVE  LET b == App!Build(s[2], App!AtakVersion)
           IN  b.line = App!AtakVersion \/ App!Loads(b.line, App!AtakVersion)
<1> DEFINE e == s[2]
<1>1. e \in App!AtlasEntries
  BY RequiredAreOne
<1>2. /\ ~e.newest /\ e.pin \in App!Of(AtlasPlugin) /\ e.pkg = AtlasPlugin
      /\ \E c \in policy.core : c.pin \in App!Of(Atak) /\ e.pin.line <= c.pin.version
  BY <1>1, AtlasEntryIs
<1>3. PICK c \in policy.core : c.pin \in App!Of(Atak) /\ e.pin.line <= c.pin.version
  BY <1>2
<1>4. c.pin \in stock /\ c.pin # App!NoBuild
  BY <1>3, ResolutionAssumption DEF App!Of, Shelved
<1>5. App!AtakVersion = c.pin.version
  <2>1. ~c.newest /\ policy.core = {c}
    BY <1>4 DEF App!CoreIsAtak, Shelved, App!Valid
  <2>2. {IF d.newest THEN App!Choose(d.pkg, App!NoLine, d.held) ELSE d.pin : d \in policy.core}
            \cap stock = {c.pin}
    BY <1>4, <2>1
  <2> QED
    BY <2>2 DEF App!AtakVersion
<1>6. App!Build(e, App!AtakVersion) = e.pin
  BY <1>2 DEF App!Build
<1>7. {e.pin, c.pin} \subseteq Universe /\ e.pin.line >= OldestLine
  BY <1>2, <1>4, ResolutionAssumption DEF Shelved, App!Of
<1> QED
  BY <1>3, <1>5, <1>6, <1>7, ResolutionAssumption DEF App!Loads

LEMMA ChosenPluginsLoad ==
    ASSUME Shelved
    PROVE  App!PluginsLoad
<1> DEFINE chosen == {i \in App!Delivered :
                         /\ i.build.line # App!NoLine
                         /\ i.pkg # Atak
                         /\ \/ i.pkg = AtlasPlugin
                            \/ \E s \in App!Required :
                                   s[2].newest /\ s[2].pkg = i.pkg /\ s[1] = i.place}
           line == IF CoreBuilds = {} THEN device.atak
                   ELSE (CHOOSE b \in CoreBuilds : TRUE).version
<1>1. App!CoreIsAtak => line = App!AtakVersion
  <2> SUFFICES ASSUME App!CoreIsAtak
               PROVE  line = App!AtakVersion
    OBVIOUS
  <2>1. CASE CoreBuilds = {}
    BY <2>1, AtakVersionIs
  <2>2. CASE CoreBuilds # {}
    <3>1. PICK b : CoreBuilds = {b} /\ App!AtakVersion = b.version
      BY <2>2, AtakVersionIs
    <3> QED
      BY <2>2, <3>1
  <2> QED
    BY <2>1, <2>2
<1>2. ASSUME App!CoreIsAtak, App!AtakVersion # App!NoLine, NEW i \in chosen
      PROVE  i.build.line = App!AtakVersion \/ App!Loads(i.build.line, App!AtakVersion)
  <2>1. PICK s \in App!Required : i = ItemOf(s)
    <3>1. i.pkg \in OtherApp => i.pkg # AtlasPlugin
      BY ResolutionAssumption
    <3>2. \A s \in App!Required : s[1] # 0
      BY RequiredAreOne
    <3> QED
      BY <3>1, <3>2, DeliveredIs
  <2>2. i.pkg = s[2].pkg /\ i.place = s[1] /\ i.build = App!Build(s[2], App!AtakVersion)
    BY <2>1, ItemOfIs
  <2>3. CASE i.pkg = AtlasPlugin
    BY <1>2, <2>2, <2>3, AtlasPluginLoads
  <2>4. CASE i.pkg # AtlasPlugin
    <3>1. PICK t \in App!Required : t[2].newest /\ t[2].pkg = i.pkg /\ t[1] = i.place
      BY <2>4
    <3>2. t = s
      BY <2>2, <3>1, RequiredAreOne
    <3>3. i.build = App!Choose(s[2].pkg, App!AtakVersion, s[2].held)
      BY <2>2, <3>1, <3>2 DEF App!Build
    <3> QED
      BY <1>2, <3>3, ChosenLoads
  <2> QED
    BY <2>3, <2>4
<1>3. App!CoreIsAtak /\ line # App!NoLine =>
          \A i \in chosen : i.build.line = line \/ App!Loads(i.build.line, line)
  BY <1>1, <1>2
<1> QED
  BY <1>3 DEF App!PluginsLoad, CoreBuilds

-----------------------------------------------------------------------------
(* The order of the list                                                   *)

LEMMA SameCount == \A S : App!Cardinality(S) = Cardinality(S)
  BY DEF App!Cardinality, Cardinality

\* Items of packages there are, one for each at each place.
Slots(S) ==
    /\ \A i \in S : i.pkg \in Packages /\ i.with \subseteq Packages /\ i.place \in 0 .. 4
    /\ \A i \in S : i.with # {} => i.place = 0
    /\ \A i, j \in S : i.pkg = j.pkg /\ i.place = j.place => i = j

Leading(S) == {r \in S \X S : App!Ahead(r[1], r[2])}

LEMMA PackagesAre == IsFiniteSet(Packages) /\ Packages \subseteq Nat
<1>1. IsFiniteSet({Atak, AtlasPlugin, Launcher, WebFilter})
  <2>1. /\ IsFiniteSet({Atak}) /\ IsFiniteSet({AtlasPlugin})
        /\ IsFiniteSet({Launcher}) /\ IsFiniteSet({WebFilter})
    BY FS_Singleton
  <2>2. IsFiniteSet({Atak} \cup {AtlasPlugin}) /\ IsFiniteSet({Launcher} \cup {WebFilter})
    BY <2>1, FS_Union
  <2>3. IsFiniteSet(({Atak} \cup {AtlasPlugin}) \cup ({Launcher} \cup {WebFilter}))
    BY <2>2, FS_Union
  <2>4. {Atak, AtlasPlugin, Launcher, WebFilter} =
            ({Atak} \cup {AtlasPlugin}) \cup ({Launcher} \cup {WebFilter})
    OBVIOUS
  <2> QED
    BY <2>3, <2>4
<1> QED
  BY <1>1, FS_Union, ResolutionAssumption DEF Packages

LEMMA SlotsAreFew ==
    ASSUME NEW S, Slots(S)
    PROVE  IsFiniteSet(S)
<1> DEFINE f == [i \in S |-> <<i.pkg, i.place>>]
<1>1. f \in Injection(S, Packages \X (0 .. 4))
  BY DEF Slots, Injection, IsInjective
<1>2. IsFiniteSet(Packages \X (0 .. 4))
  <2>1. IsFiniteSet(0 .. 4)
    <3>1. 0 \in Int /\ 4 \in Int
      OBVIOUS
    <3> QED
      BY <3>1, FS_Interval
  <2> QED
    BY <2>1, PackagesAre, FS_Product
<1> HIDE DEF f
<1> QED
  BY <1>1, <1>2, FS_Injection

LEMMA AnchorIs ==
    ASSUME NEW S, Slots(S), NEW i \in S
    PROVE  /\ App!Anchor(i) \in Nat
           /\ \A p \in i.with : App!Anchor(i) <= p
           /\ i.with = {} => App!Anchor(i) = i.pkg
<1>1. i.pkg \in Nat /\ i.with \subseteq Nat
  BY PackagesAre DEF Slots
<1>2. CASE i.with = {}
  BY <1>1, <1>2 DEF App!Anchor
<1>3. CASE i.with # {}
  <2>1. \E p \in i.with : \A q \in i.with : p <= q
    BY <1>1, <1>3, LeastOf
  <2> QED
    BY <1>1, <1>3, <2>1 DEF App!Anchor
<1> QED
  BY <1>2, <1>3

LEMMA AheadOrders ==
    ASSUME NEW S, Slots(S)
    PROVE  /\ \A x, y \in S : <<x, y>> \in Leading(S) <=> App!Ahead(x, y)
           /\ Orders(Leading(S), S)
<1>1. \A x, y \in S : <<x, y>> \in Leading(S) <=> App!Ahead(x, y)
  BY DEF Leading
<1>2. \A x \in S : /\ x.pkg \in Nat /\ x.place \in Nat /\ App!Anchor(x) \in Nat
                   /\ x.with = {} => App!Anchor(x) = x.pkg
  <2>1. \A x \in S : x.pkg \in Nat /\ x.place \in Nat
    <3>1. \A x \in S : x.pkg \in Packages /\ x.place \in 0 .. 4
      BY DEF Slots
    <3>2. \A x \in S : x.place \in Nat
      BY <3>1
    <3> QED
      BY <3>1, <3>2, PackagesAre
  <2>2. \A x \in S : App!Anchor(x) \in Nat /\ (x.with = {} => App!Anchor(x) = x.pkg)
    BY AnchorIs
  <2> QED
    BY <2>1, <2>2
<1>3. ASSUME NEW x \in S
      PROVE  ~App!Ahead(x, x)
  <2>1. /\ ~(App!Anchor(x) < App!Anchor(x)) /\ ~(x.pkg < x.pkg) /\ ~(x.place < x.place)
    BY <1>2
  <2> QED
    BY <2>1, Zenon DEF App!Ahead
<1>4. ASSUME NEW x \in S, NEW y \in S, x # y
      PROVE  App!Ahead(x, y) \/ App!Ahead(y, x)
  <2>1. x.pkg # y.pkg \/ x.place # y.place
    BY <1>4 DEF Slots
  <2>2. (x.with # {} => x.place = 0) /\ (y.with # {} => y.place = 0)
    BY DEF Slots
  <2>3. CASE App!Anchor(x) # App!Anchor(y)
    <3>1. App!Anchor(x) < App!Anchor(y) \/ App!Anchor(y) < App!Anchor(x)
      BY <1>2, <2>3
    <3> QED
      BY <3>1 DEF App!Ahead
  <2>4. CASE App!Anchor(x) = App!Anchor(y)
    <3>1. x.pkg # y.pkg => x.pkg < y.pkg \/ y.pkg < x.pkg
      BY <1>2
    <3>2. x.place # y.place => x.place < y.place \/ y.place < x.place
      BY <1>2
    <3>3. x.with = {} /\ y.with = {} => x.pkg = y.pkg
      BY <1>2, <2>4
    <3> QED
      BY <2>1, <2>2, <2>4, <3>1, <3>2, <3>3, Zenon DEF App!Ahead
  <2> QED
    BY <2>3, <2>4
<1>5. ASSUME NEW x \in S, NEW y \in S, NEW z \in S, App!Ahead(x, y), App!Ahead(y, z)
      PROVE  App!Ahead(x, z)
  <2>1. /\ App!Anchor(x) < App!Anchor(y) /\ App!Anchor(y) < App!Anchor(z) =>
               App!Anchor(x) < App!Anchor(z)
        /\ x.pkg < y.pkg /\ y.pkg < z.pkg => x.pkg < z.pkg
        /\ x.place < y.place /\ y.place < z.place => x.place < z.place
    BY <1>2
  <2> QED
    BY <1>5, <2>1, Zenon DEF App!Ahead
<1> QED
  BY <1>1, <1>3, <1>4, <1>5 DEF Orders

\* In order, each is there once and behind what is ahead of it.
LEMMA InOrderIs ==
    ASSUME NEW S, Slots(S)
    PROVE  /\ App!InOrder(S) \in Seq(S)
           /\ \A x \in S : \E k \in DOMAIN App!InOrder(S) : App!InOrder(S)[k] = x
           /\ \A j, k \in DOMAIN App!InOrder(S) :
                  /\ App!InOrder(S)[j] = App!InOrder(S)[k] => j = k
                  /\ App!Ahead(App!InOrder(S)[j], App!InOrder(S)[k]) => j < k
<1> DEFINE n == Cardinality(S)
           R == Leading(S)
           Place(x) == App!Cardinality({y \in S : App!Ahead(y, x)}) + 1
           g == App!InOrder(S)
<1>1. IsFiniteSet(S) /\ n \in Nat
  BY SlotsAreFew, FS_CardinalityType
<1>2. \A x \in S : Place(x) = PlaceIn(R, S, x)
  <2> SUFFICES ASSUME NEW x \in S
               PROVE  Place(x) = PlaceIn(R, S, x)
    OBVIOUS
  <2>1. {y \in S : App!Ahead(y, x)} = Below(R, S, x)
    BY AheadOrders DEF Below
  <2> QED
    BY <2>1, SameCount DEF PlaceIn
<1>3. PICK f : f = [x \in S |-> PlaceIn(R, S, x)]
  OBVIOUS
<1>4. /\ f \in Bijection(S, 1 .. n)
      /\ \A x, y \in S : <<x, y>> \in R => PlaceIn(R, S, x) < PlaceIn(R, S, y)
  <2> HIDE DEF R
  <2> QED
    BY <1>1, <1>3, AheadOrders, PlacesAreTaken DEF R
<1>5. \A x \in S : f[x] = Place(x)
  <2> HIDE DEF Place
  <2> QED
    BY <1>2, <1>3
<1> HIDE DEF Place, R, n
<1>6. /\ \A x \in S : Place(x) \in 1 .. n
      /\ \A k \in 1 .. n : \E x \in S : Place(x) = k
      /\ \A x, y \in S : Place(x) = Place(y) => x = y
  <2>1. /\ \A x \in S : f[x] \in 1 .. n
        /\ \A k \in 1 .. n : \E x \in S : f[x] = k
        /\ \A x, y \in S : f[x] = f[y] => x = y
    BY <1>4 DEF Bijection, Injection, Surjection, IsInjective
  <2> QED
    BY <1>5, <2>1
<1>7. g = [k \in 1 .. n |-> CHOOSE x \in S : Place(x) = k]
  BY SameCount DEF App!InOrder, Place, n
<1> HIDE DEF g
<1>8. \A k \in 1 .. n : g[k] \in S /\ Place(g[k]) = k
  BY <1>6, <1>7
<1>9. g \in [1 .. n -> S] /\ DOMAIN g = 1 .. n
  BY <1>7, <1>8
<1>10. g \in Seq(S)
  BY <1>1, <1>9
<1>11. \A x \in S : \E k \in 1 .. n : g[k] = x
  BY <1>6, <1>8
<1>12. \A j, k \in 1 .. n : App!Ahead(g[j], g[k]) => j < k
  <2> SUFFICES ASSUME NEW j \in 1 .. n, NEW k \in 1 .. n, App!Ahead(g[j], g[k])
               PROVE  j < k
    OBVIOUS
  <2>1. <<g[j], g[k]>> \in R
    BY <1>8, AheadOrders DEF R
  <2>2. Place(g[j]) < Place(g[k])
    BY <1>2, <1>4, <1>8, <2>1
  <2> QED
    BY <1>8, <2>2
<1>13. \A j, k \in 1 .. n : g[j] = g[k] => j = k
  BY <1>8
<1> QED
  BY <1>9, <1>10, <1>11, <1>12, <1>13 DEF g

-----------------------------------------------------------------------------
(* What is on the list                                                     *)

LEMMA ResolvedAre ==
    ASSUME Shelved
    PROVE  /\ \A i \in App!Resolved :
                  /\ i.pkg \in Packages /\ i.with = {} /\ i.place \in 1 .. 4
                  /\ i.build # App!NoBuild => i.build.pkg = i.pkg
                  /\ \E s \in App!Required : s[2].pkg = i.pkg
           /\ \A i, j \in App!Resolved : i.pkg = j.pkg =>
                  i = j \/ (i.pkg \in App!NamedTwice /\ i.place # j.place)
           /\ \A s \in App!Required : \E i \in App!Resolved : i.pkg = s[2].pkg
<1>1. /\ \A s : /\ ItemOf(s).pkg = s[2].pkg /\ ItemOf(s).place = s[1] /\ ItemOf(s).with = {}
                /\ ItemOf(s).build = App!Build(s[2], App!AtakVersion)
      /\ App!Resolved = {ItemOf(s) : s \in App!Required}
  BY ItemOfIs
<1>2. ASSUME NEW i \in App!Resolved
      PROVE  /\ i.pkg \in Packages /\ i.with = {} /\ i.place \in 1 .. 4
             /\ i.build # App!NoBuild => i.build.pkg = i.pkg
             /\ \E s \in App!Required : s[2].pkg = i.pkg
  <2>1. PICK s \in App!Required : i = ItemOf(s)
    BY <1>1
  <2>2. App!Build(s[2], App!AtakVersion) # App!NoBuild =>
            App!Build(s[2], App!AtakVersion).pkg = s[2].pkg
    BY BuildIsOf DEF App!Of
  <2>3. s[1] \in 1 .. 4 /\ s[2].pkg \in Packages
    BY RequiredAreOne
  <2> QED
    BY <1>1, <2>1, <2>2, <2>3
<1>3. ASSUME NEW i \in App!Resolved, NEW j \in App!Resolved, i.pkg = j.pkg
      PROVE  i = j \/ (i.pkg \in App!NamedTwice /\ i.place # j.place)
  <2>1. PICK s \in App!Required : i = ItemOf(s)
    BY <1>1
  <2>2. PICK t \in App!Required : j = ItemOf(t)
    BY <1>1
  <2>3. s = t \/ (s[2].pkg \in App!NamedTwice /\ s[1] # t[1])
    BY <1>1, <1>3, <2>1, <2>2, RequiredAreOne
  <2> QED
    BY <1>1, <2>1, <2>2, <2>3
<1>4. \A s \in App!Required : \E i \in App!Resolved : i.pkg = s[2].pkg
  BY <1>1
<1> QED
  BY <1>2, <1>3, <1>4

\* Every link out of a build chosen is out of the build of the item of its package.
LEMMA BroughtAre ==
    ASSUME Shelved, NEW l \in App!Brought(App!Resolved)
    PROVE  /\ l[2] \in Universe /\ l[2].pkg \in OtherApp /\ l[2] # App!NoBuild
           /\ \E i \in App!Resolved : i.pkg = l[1].pkg
<1>1. l \in Carries /\ \E i \in App!Resolved : i.build = l[1]
  BY DEF App!Brought, App!From, Shelved
<1>2. l[1] \in Universe /\ l[2] \in Universe /\ l[2].pkg \in OtherApp
  BY <1>1, ResolutionAssumption
<1>3. l[1] # App!NoBuild /\ l[2] # App!NoBuild
  BY <1>2, ResolutionAssumption
<1> QED
  BY <1>1, <1>2, <1>3, ResolvedAre

LEMMA BroughtAreFew ==
    ASSUME Shelved
    PROVE  IsFiniteSet(App!Brought(App!Resolved))
<1>1. App!Brought(App!Resolved) \subseteq Carries
  BY DEF App!Brought, App!From, Shelved
<1> QED
  BY <1>1, ResolutionAssumption, FS_Subset

\* A companion is of a package nothing requires, comes with every plugin that carries it,
\* and is no older than what any of them carries.
LEMMA CompanionIs ==
    ASSUME Shelved, NEW p,
           p \in {l[2].pkg : l \in App!Brought(App!Resolved)} \ {i.pkg : i \in App!Resolved}
    PROVE  LET c == App!OneOf(p, App!Brought(App!Resolved))
           IN  /\ c.pkg = p /\ p \in Packages /\ c.place = 0
               /\ c.with # {} /\ c.with \subseteq {i.pkg : i \in App!Resolved}
               /\ \A l \in App!Brought(App!Resolved) : l[2].pkg = p =>
                      l[1].pkg \in c.with /\ c.build.code >= l[2].code
<1> DEFINE brought == App!Brought(App!Resolved)
           mine == {l \in brought : l[2].pkg = p}
           builds == {l[2] : l \in mine}
           carriers == {l[1].pkg : l \in mine}
           c == App!OneOf(p, brought)
<1>1. c = App!Item(p, App!Top(builds), 0, carriers)
  BY DEF App!OneOf
<1>2. c.pkg = p /\ c.build = App!Top(builds) /\ c.place = 0 /\ c.with = carriers
  BY <1>1, ItemIs
<1>3. PICK k \in brought : k[2].pkg = p
  OBVIOUS
<1>4. p \in Packages
  BY <1>3, BroughtAre DEF Packages
<1>5. carriers # {} /\ carriers \subseteq {i.pkg : i \in App!Resolved}
  <2>1. \A l \in brought : l[1].pkg \in {i.pkg : i \in App!Resolved}
    BY BroughtAre
  <2> HIDE DEF brought
  <2> QED
    BY <1>3, <2>1
<1>6. IsFiniteSet(builds) /\ builds # {} /\ builds \subseteq Universe
  <2> DEFINE f == [l \in mine |-> l[2]]
  <2>1. IsFiniteSet(mine)
    BY BroughtAreFew, FS_Subset
  <2>2. f \in Surjection(mine, builds)
    BY DEF Surjection
  <2>3. IsFiniteSet(builds)
    <3> HIDE DEF f, mine, builds
    <3> QED
      BY <2>1, <2>2, FS_Surjection
  <2>4. builds \subseteq Universe
    BY BroughtAre
  <2> QED
    BY <1>3, <2>3, <2>4
<1>7. App!Top(builds) \in builds /\ \A b \in builds : b.code <= App!Top(builds).code
  <2> HIDE DEF builds
  <2> QED
    BY <1>6, TopIs
<1>8. \A l \in brought : l[2].pkg = p =>
          l[1].pkg \in carriers /\ App!Top(builds).code >= l[2].code
  <2> SUFFICES ASSUME NEW l \in brought, l[2].pkg = p
               PROVE  l[1].pkg \in carriers /\ App!Top(builds).code >= l[2].code
    OBVIOUS
  <2>1. l[2] \in builds /\ l[1].pkg \in carriers
    OBVIOUS
  <2>2. l[2].code \in Nat /\ App!Top(builds).code \in Nat
    BY <1>6, <1>7, <2>1, ResolutionAssumption
  <2> QED
    BY <1>7, <2>1, <2>2
<1> HIDE DEF builds, carriers, brought
<1> QED
  BY <1>2, <1>4, <1>5, <1>8 DEF brought

LEMMA DeliveredAreSlots ==
    ASSUME Shelved
    PROVE  /\ Slots(App!Delivered)
           /\ \A i, j \in App!Delivered : i.pkg = j.pkg =>
                  i = j \/ (i.pkg \in App!NamedTwice /\ i.place # j.place)
<1> DEFINE brought == App!Brought(App!Resolved)
           names == {l[2].pkg : l \in brought} \ {i.pkg : i \in App!Resolved}
<1>1. App!Delivered = App!Resolved \cup {App!OneOf(p, brought) : p \in names}
  BY DEF App!Delivered, App!Companions
<1>2. \A p \in names : /\ App!OneOf(p, brought).pkg = p /\ p \in Packages
                       /\ App!OneOf(p, brought).place = 0
                       /\ App!OneOf(p, brought).with \subseteq {i.pkg : i \in App!Resolved}
  BY CompanionIs
<1>3. \A p \in names : \A i \in App!Resolved : i.pkg # p
  OBVIOUS
<1> HIDE DEF brought, names
<1>4. {i.pkg : i \in App!Resolved} \subseteq Packages
  BY ResolvedAre
<1>5. \A i \in App!Delivered : /\ i.pkg \in Packages /\ i.with \subseteq Packages
                                /\ i.place \in 0 .. 4 /\ (i.with # {} => i.place = 0)
  BY <1>1, <1>2, <1>4, ResolvedAre
<1>6. \A i, j \in App!Delivered : i.pkg = j.pkg =>
          i = j \/ (i.pkg \in App!NamedTwice /\ i.place # j.place)
  BY <1>1, <1>2, <1>3, ResolvedAre
<1> QED
  BY <1>5, <1>6 DEF Slots

LEMMA Fits ==
    ASSUME Shelved
    PROVE  App!CompanionsFit
<1> DEFINE list == App!WithCompanions(App!Resolved)
           rest == {App!Item(p, App!NoBuild, 0, {}) : p \in App!Missing(list)}
           trailing == App!InOrder(rest)
           D == App!Delivered
           All == D \cup rest
<1>1. list = App!InOrder(D)
  BY DEF App!WithCompanions, App!Delivered
<1>2. Slots(D)
  BY DeliveredAreSlots
<1>3. /\ list \in Seq(D)
      /\ \A x \in D : \E k \in DOMAIN list : list[k] = x
      /\ \A j, k \in DOMAIN list : list[j] = list[k] => j = k
      /\ \A j, k \in DOMAIN list : App!Ahead(list[j], list[k]) => j < k
  <2> HIDE DEF list, D
  <2> QED
    BY <1>1, <1>2, InOrderIs
<1>4. /\ \A i \in rest : /\ i.pkg \in App!Missing(list) /\ i.build = App!NoBuild
                         /\ i.place = 0 /\ i.with = {}
      /\ \A i, j \in rest : i.pkg = j.pkg => i = j
  <2>1. \A p : /\ App!Item(p, App!NoBuild, 0, {}).pkg = p
               /\ App!Item(p, App!NoBuild, 0, {}).build = App!NoBuild
               /\ App!Item(p, App!NoBuild, 0, {}).place = 0
               /\ App!Item(p, App!NoBuild, 0, {}).with = {}
    BY ItemIs
  <2> HIDE DEF list
  <2> QED
    BY <2>1
<1>5. \A p \in App!Missing(list) : p \in Packages /\ \A i \in D : i.pkg # p
  <2> HIDE DEF list, D
  <2>1. \A p \in App!Missing(list) : p \in Packages /\ p \notin App!Named(list)
    BY DEF App!Missing, Shelved, App!Valid, Packages
  <2>2. \A i \in D : i.pkg \in App!Named(list)
    BY <1>3 DEF App!Named
  <2> QED
    BY <2>1, <2>2
<1>6. Slots(rest)
  <2> HIDE DEF list, rest, D
  <2> QED
    BY <1>4, <1>5 DEF Slots
<1>7. /\ trailing \in Seq(rest)
      /\ \A j, k \in DOMAIN trailing : trailing[j] = trailing[k] => j = k
  <2> HIDE DEF rest
  <2> QED
    BY <1>6, InOrderIs
<1>8. App!Apps = list \o trailing
  BY DEF App!Apps, App!WithMissing
<1> HIDE DEF list, rest, trailing, D
<1>9. list \in Seq(All) /\ trailing \in Seq(All)
  BY <1>3, <1>7
<1> DEFINE n == Len(list)
           m == Len(trailing)
           apps == App!Apps
<1>10. /\ n \in Nat /\ m \in Nat /\ DOMAIN list = 1 .. n /\ DOMAIN trailing = 1 .. m
       /\ DOMAIN apps = 1 .. n + m
       /\ \A k \in 1 .. n : apps[k] = list[k] /\ apps[k] \in D
       /\ \A k \in n + 1 .. n + m : apps[k] = trailing[k - n] /\ apps[k] \in rest
  <2>1. /\ apps \in Seq(All) /\ Len(apps) = n + m
        /\ \A k \in 1 .. n + m : apps[k] = IF k <= n THEN list[k] ELSE trailing[k - n]
    BY <1>8, <1>9, ConcatProperties
  <2>2. /\ n \in Nat /\ m \in Nat /\ DOMAIN list = 1 .. n /\ DOMAIN trailing = 1 .. m
        /\ DOMAIN apps = 1 .. n + m
    BY <1>9, <2>1
  <2>3. \A k \in 1 .. n : list[k] \in D
    BY <1>3, <2>2
  <2>4. \A k \in 1 .. m : trailing[k] \in rest
    BY <1>7, <2>2
  <2> HIDE DEF n, m, apps, All
  <2>5. \A k \in 1 .. n : apps[k] = list[k] /\ apps[k] \in D
    BY <2>1, <2>2, <2>3
  <2>6. \A k \in n + 1 .. n + m : apps[k] = trailing[k - n] /\ apps[k] \in rest
    BY <2>1, <2>2, <2>4
  <2> QED
    BY <2>2, <2>5, <2>6
<1> HIDE DEF n, m, apps, All
<1>11. D \subseteq App!ToSet(apps)
  <2> SUFFICES ASSUME NEW x \in D
               PROVE  \E k \in DOMAIN apps : apps[k] = x
    BY DEF App!ToSet
  <2>1. PICK k \in 1 .. n : list[k] = x
    BY <1>3, <1>10
  <2> QED
    BY <1>10, <2>1
<1>12. \A k \in DOMAIN apps : k \in 1 .. n \/ k \in n + 1 .. n + m
  BY <1>10
<1>13. \A i \in App!ToSet(apps) \ D : i.build = App!NoBuild
  BY <1>4, <1>10, <1>12 DEF App!ToSet
<1>14. ASSUME NEW j \in DOMAIN apps, NEW k \in DOMAIN apps, apps[j].pkg = apps[k].pkg
       PROVE  j = k \/ (apps[j].pkg \in App!NamedTwice /\ apps[j].place # apps[k].place)
  <2>1. CASE j \in 1 .. n /\ k \in 1 .. n
    <3>1. apps[j] = list[j] /\ apps[k] = list[k] /\ list[j] \in D /\ list[k] \in D
      BY <1>10, <2>1
    <3>2. \/ list[j] = list[k]
          \/ apps[j].pkg \in App!NamedTwice /\ apps[j].place # apps[k].place
      BY <1>14, <3>1, DeliveredAreSlots DEF D
    <3>3. list[j] = list[k] => j = k
      BY <1>3, <1>10, <2>1
    <3> QED
      BY <3>2, <3>3
  <2>2. CASE j \in n + 1 .. n + m /\ k \in n + 1 .. n + m
    <3>1. trailing[j - n] = trailing[k - n]
      BY <1>4, <1>10, <1>14, <2>2
    <3>2. j - n \in 1 .. m /\ k - n \in 1 .. m
      BY <1>10, <2>2
    <3>3. j - n = k - n
      BY <1>7, <1>10, <3>1, <3>2
    <3> QED
      BY <1>10, <2>2, <3>3
  <2>3. CASE j \in 1 .. n /\ k \in n + 1 .. n + m
    BY <1>4, <1>5, <1>10, <1>14, <2>3
  <2>4. CASE k \in 1 .. n /\ j \in n + 1 .. n + m
    BY <1>4, <1>5, <1>10, <1>14, <2>4
  <2> QED
    BY <1>12, <2>1, <2>2, <2>3, <2>4
<1>15. \A b \in App!Store(App!Named(apps)) : \A i \in DOMAIN apps : apps[i].pkg # b.pkg
  BY DEF App!Store, App!Named
<1>16. ASSUME NEW l \in App!Brought(App!Resolved), NEW i \in DOMAIN apps, NEW c \in DOMAIN apps,
              apps[i].pkg = l[1].pkg, apps[c].pkg = l[2].pkg,
              l[2].pkg \notin {s[2].pkg : s \in App!Required}
       PROVE  c < i /\ apps[c].build.code >= l[2].code
  <2> DEFINE companion == App!OneOf(l[2].pkg, App!Brought(App!Resolved))
             plugin == apps[i]
  <2>1. l[2].pkg \in {k[2].pkg : k \in App!Brought(App!Resolved)} \ {j.pkg : j \in App!Resolved}
    BY <1>16, ResolvedAre
  <2>2. /\ companion.pkg = l[2].pkg /\ companion.with # {}
        /\ l[1].pkg \in companion.with /\ companion.build.code >= l[2].code
    BY <2>1, CompanionIs
  <2>3. companion \in D
    BY <2>1 DEF D, App!Delivered, App!Companions
  <2>4. plugin \in D /\ plugin = list[i] /\ i \in 1 .. n /\ plugin.pkg = l[1].pkg
    <3>1. \E j \in App!Resolved : j.pkg = l[1].pkg
      BY BroughtAre
    <3>2. \E j \in D : j.pkg = apps[i].pkg
      BY <1>16, <3>1 DEF D, App!Delivered
    <3>3. i \notin n + 1 .. n + m
      BY <1>4, <1>5, <1>10, <3>2
    <3> QED
      BY <1>10, <1>12, <1>16, <3>3
  <2>5. plugin.with = {}
    <3>1. CASE plugin \in App!Resolved
      BY <3>1, ResolvedAre
    <3>2. CASE plugin \in App!Companions(App!Resolved, App!Brought(App!Resolved))
      <4>1. PICK p \in {k[2].pkg : k \in App!Brought(App!Resolved)} \ {j.pkg : j \in App!Resolved} :
                plugin = App!OneOf(p, App!Brought(App!Resolved))
        BY <3>2, Zenon DEF App!Companions
      <4>2. plugin.pkg = p
        BY <4>1, CompanionIs
      <4>3. \E j \in App!Resolved : j.pkg = p
        BY <2>4, <4>2, BroughtAre
      <4> QED
        BY <4>1, <4>3
    <3> QED
      BY <2>4, <3>1, <3>2 DEF D, App!Delivered
  <2> HIDE DEF companion, plugin
  <2>6. /\ App!Anchor(companion) \in Nat /\ App!Anchor(companion) <= plugin.pkg
        /\ App!Anchor(plugin) = plugin.pkg /\ plugin.pkg \in Nat
    BY <1>2, <2>2, <2>3, <2>4, <2>5, AnchorIs, PackagesAre DEF Slots
  <2>7. App!Ahead(companion, plugin)
    BY <2>2, <2>5, <2>6 DEF App!Ahead
  <2>8. PICK j \in 1 .. n : list[j] = companion
    BY <1>3, <1>10, <2>3
  <2>9. j < i
    BY <1>3, <1>10, <2>4, <2>7, <2>8
  <2>10. j = c
    <3>1. j \in DOMAIN apps /\ apps[j] = companion
      BY <1>10, <2>8
    <3>2. apps[j].pkg = apps[c].pkg /\ apps[j].pkg \notin App!NamedTwice
      BY <1>16, <2>2, <3>1, RequiredAreOne
    <3> QED
      BY <1>14, <3>1, <3>2
  <2> QED
    BY <1>10, <2>2, <2>8, <2>9, <2>10
<1> QED
  BY <1>11, <1>13, <1>14, <1>15, <1>16, Zenon DEF App!CompanionsFit, apps, D

LEMMA ShelvedHolds == Spec => []Shelved
<1>1. Init => Shelved
  BY InitShelved DEF Init
<1>2. Shelved /\ [Next]_vars => Shelved'
  BY AppMoves, StepShelved
<1> QED
  BY <1>1, <1>2, PTL DEF Spec

\* Every plugin whose build the server chose is one that the ATAK of ATAK Core on the same
\* list loads, or where ATAK Core brings none, the ATAK the device reported
\* (effective_policy._atak_version_for, newest_build.choose, atlas_plugin.required_entry).
THEOREM PluginsMatchAtak == Spec => []PluginsLoad
<1>1. Shelved => PluginsLoad
  BY ChosenPluginsLoad DEF PluginsLoad
<1> QED
  BY <1>1, ShelvedHolds, PTL

\* The list carries what the policy, the kiosk and ATLAS require and the companions of the
\* plugins it brings, each package once for each of the catalog's fields that name it, and
\* each companion once, in front of every plugin it comes with, no older than what that one
\* carries
\* (effective_policy.resolve_required_apps, _with_companions).
THEOREM CompanionsComeFirst == Spec => []CompanionsFit
<1>1. Shelved => CompanionsFit
  BY Fits DEF CompanionsFit
<1> QED
  BY <1>1, ShelvedHolds, PTL

=============================================================================
