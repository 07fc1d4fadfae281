------------------------------- MODULE Doorbell -------------------------------
(***************************************************************************)
(* The doorbell of one device: GET /wait parks a request until something   *)
(* is pending for it, and a commit that makes something pending rings.     *)
(*                                                                         *)
(* The ring may be lost: a writer collects the parked events after its     *)
(* commit, and the request may be between reading the database and         *)
(* parking.  So the request parks in slices and reads again after each.    *)
(* Time passes only while nothing has a step to take at once: timers of    *)
(* the event loop are punctual, and a handler takes no time.               *)
(***************************************************************************)
EXTENDS Integers

CONSTANTS
    Slice,      \* _SLICE, in units of time
    Timeout,    \* the `timeout` the agent asks for
    MaxWrites   \* bound: changes made by operators

VARIABLES
    \* committed: state_version, cache row, an open command, a schedule
    version, stale, due, scheduled, order,
    moved,      \* whether a recompute would find another payload
    \* a request that changes something: stage, what it writes
    writer, writing,
    \* the device: the version it holds, and its open wait
    known, park, slept, left,
    bell,       \* the parked event: "none", "waiting", "ringing" or "set"
    \* for the properties
    overdue,    \* time a reason has been there while the wait was open
    owed,       \* the kinds of changes the wait was rung for and nobody has taken up
    settled,    \* whether somebody took up the change being written since it was begun
    writes

db == <<version, stale, due, scheduled, order, moved>>
desk == <<writer, writing, writes>>
waiting == <<park, slept, left, bell>>
rung == <<owed, settled>>
vars == <<db, desk, known, waiting, overdue, rung>>

Kinds == {"payload", "touch", "schedule", "command"}

Init ==
    /\ version = 0 /\ stale = FALSE /\ due = FALSE /\ scheduled = FALSE
    /\ order = "none" /\ moved = FALSE
    /\ writer = "idle" /\ writing = "touch" /\ writes = 0
    /\ known = 0
    /\ park = "away" /\ slept = 0 /\ left = 0 /\ bell = "none"
    /\ overdue = 0 /\ owed = {} /\ settled = FALSE

TypeOK ==
    /\ version \in 0 .. MaxWrites /\ known \in 0 .. version
    /\ order \in {"none", "pending", "dispatched"}
    /\ {stale, due, scheduled, moved, settled} \subseteq BOOLEAN /\ owed \subseteq Kinds
    /\ writer \in {"idle", "flushed", "committed"} /\ writing \in Kinds
    /\ park \in {"away", "reading", "quiet", "parked"}
    /\ bell \in {"none", "waiting", "ringing", "set"}
    /\ slept \in 0 .. Slice /\ left \in 0 .. Timeout /\ writes \in 0 .. MaxWrites

-----------------------------------------------------------------------------
(* What is pending                                                         *)

\* What the doorbell would ring for, the first that holds.
PendingReason ==
    CASE version # known -> "state_changed"
      [] version = known /\ stale -> "state_pending"
      [] version = known /\ ~stale /\ due -> "schedule_due"
      [] version = known /\ ~stale /\ ~due /\ order # "none" -> "command_queued"
      [] OTHER -> "none"

\* What a check-in would bring or take away.
Outstanding == version # known \/ stale \/ due \/ order # "none"

\* mutant: a recompute leaves the horizon it found
SettledKeepsHorizon ==
    /\ version' = IF (stale \/ due) /\ moved THEN version + 1 ELSE version
    /\ moved' = IF stale \/ due THEN FALSE ELSE moved
    /\ stale' = FALSE /\ due' = due
\* Recomputing the cache row: the version moves only if the payload did, and
\* the row has no horizon until the next schedule.
Settled ==
    /\ version' = IF (stale \/ due) /\ moved THEN version + 1 ELSE version
    /\ moved' = IF stale \/ due THEN FALSE ELSE moved
    /\ stale' = FALSE /\ due' = FALSE

-----------------------------------------------------------------------------
(* Writers                                                                 *)

\* A form or an endpoint flushes its change, having asked for a wake: a
\* schedule, which moves nothing yet, asks for one too, as the row's horizon is
\* only found by a recompute.
BeginWrite(kind) ==
    /\ writer = "idle" /\ writes < MaxWrites
    /\ writer' = "flushed" /\ writing' = kind /\ writes' = writes + 1
    /\ settled' = FALSE
    /\ UNCHANGED <<db, known, waiting, overdue, owed>>

\* after_rollback: the wake goes with the change.
Rollback ==
    /\ writer = "flushed" /\ writer' = "idle"
    /\ UNCHANGED <<db, writing, writes, known, waiting, overdue, rung>>

Commit ==
    /\ writer = "flushed" /\ writer' = "committed"
    /\ stale' = (stale \/ writing # "command")
    /\ moved' = (moved \/ writing = "payload")
    /\ scheduled' = (scheduled \/ writing = "schedule")
    /\ order' = IF writing = "command" THEN "pending" ELSE order
    /\ UNCHANGED <<version, due, writing, writes, known, waiting, overdue, rung>>

\* ChangeBus.notify takes the events parked now.  The wait that is rung is to find the
\* change, unless somebody took it up before the bell.
Notify ==
    /\ bell' = IF bell = "waiting" THEN "ringing" ELSE bell
    /\ owed' = IF bell = "waiting" /\ ~settled THEN owed \cup {writing} ELSE owed
    /\ UNCHANGED <<db, writing, writes, known, park, slept, left, overdue, settled>>

\* mutant: the bell is rung as soon as the change is flushed
RingAtFlush == writer = "flushed" /\ UNCHANGED writer /\ Notify
\* after_commit.
Ring == writer = "committed" /\ writer' = "idle" /\ Notify

\* The loop runs the callback that sets the event.
SetEvent ==
    /\ bell = "ringing" /\ bell' = "set"
    /\ UNCHANGED <<db, desk, known, park, slept, left, overdue, rung>>

\* A console page recomputes the row.  It rings for nobody.
ReadPage ==
    /\ stale \/ due
    /\ Settled
    /\ owed' = owed \cap {"command"}
    /\ settled' = (settled \/ writing # "command")
    /\ UNCHANGED <<scheduled, order, desk, known, waiting>>
    /\ overdue' = IF Outstanding' THEN overdue ELSE 0

-----------------------------------------------------------------------------
(* GET /wait                                                               *)

BeginWait ==
    /\ park = "away"
    /\ park' = "reading" /\ left' = Timeout
    /\ UNCHANGED <<db, desk, known, slept, bell, overdue, rung>>

Answer ==
    /\ park' = "away" /\ bell' = "none" /\ slept' = 0 /\ left' = 0
    /\ overdue' = 0 /\ owed' = {} /\ UNCHANGED settled

\* One reading: an answer if there is a reason or no time is left, else on to
\* the park.  The session is closed before.
Read ==
    /\ park = "reading"
    /\ \/ (PendingReason # "none" \/ left = 0) /\ Answer
       \/ /\ PendingReason = "none" /\ left > 0
          /\ park' = "quiet"
          /\ UNCHANGED <<slept, left, bell, overdue, rung>>
    /\ UNCHANGED <<db, desk, known>>

\* ChangeBus.wait: the event is registered, and waited for at most a slice.
Park ==
    /\ park = "quiet"
    /\ park' = "parked" /\ bell' = "waiting" /\ slept' = 0
    /\ UNCHANGED <<db, desk, known, left, overdue, rung>>

UntilTheEnd == left = 0     \* mutant: one park for the whole timeout
SliceIsOver == slept = Slice \/ left = 0

Unpark ==
    /\ park = "parked"
    /\ bell = "set" \/ SliceIsOver
    /\ park' = "reading" /\ bell' = "none" /\ slept' = 0
    /\ owed' = IF bell = "set" THEN owed ELSE {}
    /\ UNCHANGED <<db, desk, known, left, overdue, settled>>

-----------------------------------------------------------------------------
(* The agent and the clock                                                 *)

\* A check-in between two waits: it settles the row, hands over the command, or
\* takes the outcome of one handed over before.
CheckIn ==
    /\ park = "away"
    /\ Settled /\ known' = version'
    /\ order' = IF order = "pending" THEN "dispatched" ELSE "none"
    /\ settled' = TRUE
    /\ UNCHANGED <<scheduled, desk, waiting, overdue, owed>>

\* The date of a scheduled deployment arrives: what a recompute would find has
\* changed, and a row recomputed since the schedule was made is past its horizon.
ComesDue ==
    /\ scheduled
    /\ scheduled' = FALSE /\ due' = (due \/ ~stale) /\ moved' = TRUE
    /\ UNCHANGED <<version, stale, order, desk, known, waiting, overdue, rung>>

\* Time is counted while the wait is parked, and passes while it has no step
\* to take.
Tick ==
    /\ park = "parked" /\ bell # "set" /\ ~SliceIsOver
    /\ slept' = IF slept < Slice THEN slept + 1 ELSE slept
    /\ left' = left - 1
    /\ overdue' = IF ~Outstanding THEN 0
                  ELSE IF overdue <= Slice THEN overdue + 1 ELSE overdue
    /\ UNCHANGED <<db, desk, known, park, bell, rung>>

Next ==
    \/ \E k \in Kinds : BeginWrite(k)
    \/ Rollback \/ Commit \/ Ring \/ SetEvent
    \/ ReadPage
    \/ BeginWait \/ Read \/ Park \/ Unpark
    \/ CheckIn \/ ComesDue \/ Tick

\* The event loop serves the wait, its timers fire, and an answered agent
\* checks in or waits again, in the end checking in: it polls on a timer.
\* Nothing is assumed of writers, of their rings or of pages.
ServeWait == Read \/ Park \/ Unpark \/ Tick
Fairness == WF_vars(ServeWait) /\ SF_vars(CheckIn)

Spec == Init /\ [][Next]_vars
FairSpec == Spec /\ Fairness

-----------------------------------------------------------------------------
(* Properties                                                              *)

\* Whatever the order of commits, rings, pages and the wait's own steps, and
\* though every ring be lost, an open wait is never left parked for longer than
\* one slice with something pending for its device (wait._SLICE).
LostRingCostsASlice == overdue <= Slice

\* A wait released by a ring finds a reason, unless a page or a check-in took up the
\* change meanwhile: no ring precedes the data it announces (notifications'
\* after_commit).
RingsAreHeard == [][Unpark /\ bell = "set" /\ owed # {} => PendingReason # "none"]_vars

\* What is pending for the device is taken up in the end, with no ring at all
\* and with nothing written since, a deployment that came due by the clock
\* included; and the waits do not go on answering for what a check-in settles.
IsTakenUp == []<>~Outstanding
=============================================================================
