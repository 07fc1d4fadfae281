------------------------------- MODULE Commands -------------------------------
(***************************************************************************)
(* The command queue of one device, and what a disenroll does with it.     *)
(*                                                                         *)
(* A command is handed over at every check-in until its outcome is         *)
(* reported, it outlives its TTL, or its attempts are spent.  A check-in   *)
(* records outcomes first; an acknowledged disenroll wipe then deletes the *)
(* device; otherwise the compliance rules queue or cancel their own wipe   *)
(* before anything is handed over.                                         *)
(*                                                                         *)
(* The agent is external, and known from what the code says of it: it runs *)
(* what it is handed, as often as it is handed it; it erases itself for a  *)
(* wipe only once an answered check-in has carried the outcome; it may die *)
(* and forget what it was handed and what it did.                          *)
(***************************************************************************)
EXTENDS Integers, FiniteSets

CONSTANTS
    Plain,       \* reboot, lock, locate, ...: commands that erase nothing
    LostWipe,    \* wipes an operator queues for a lost device
    Disenroll,   \* wipes that hand a device back
    Compliance,  \* wipes the compliance rules queue
    MaxAttempts, \* DeviceCommand.max_attempts
    Ttl,         \* expires_at - created_at
    Grace,       \* wipe_after_days of the device's compliance rules
    MaxClock,    \* bound: the last instant of the clock
    MaxEdits,    \* bound: operator actions and things that befall the device
    MaxLate      \* bound: requests in flight that the device has given up

Wipe == LostWipe \cup Disenroll \cup Compliance
Command == Plain \cup Wipe

ASSUME AttemptsAssumption == MaxAttempts \in Nat \ {0}
ASSUME TimesAssumption == Ttl \in Nat \ {0} /\ Grace \in Nat /\ MaxClock \in Nat
ASSUME BoundAssumption == MaxEdits \in Nat /\ MaxLate \in Nat
ASSUME KindsAssumption ==
    /\ Plain \cap Wipe = {}
    /\ LostWipe \cap Disenroll = {} /\ LostWipe \cap Compliance = {}
    /\ Disenroll \cap Compliance = {}

VARIABLES
    \* the server
    exists,     \* whether the device's record exists, enrolled
    status,     \* status[c]: DeviceCommand.status, "unused" before, "deleted" after
    attempts, expires,
    failing,    \* Device.rules_failing_since, Never when unset
    \* the device
    compliant,  \* whether it passes its compliance rules
    inbox,      \* commands it was handed and has not run
    outcome,    \* outcome[c]: what it has to report of c
    said,       \* commands it ever carried out, or said it would
    erasedBy,   \* commands it ever erased itself for
    alive,      \* whether it runs an enrolled agent
    \* the exchange, and requests the device no longer waits for
    phase, request, reply, late,
    now, edits

queue == <<status, attempts, expires>>
server == <<exists, queue, failing>>
agent == <<compliant, inbox, outcome, said, erasedBy, alive>>
wire == <<phase, request, reply, late>>
vars == <<server, agent, wire, now, edits>>

Time == 0 .. MaxClock
Never == MaxClock + 1
Open == {"pending", "dispatched"}
Finished == {"succeeded", "failed", "expired"}
Statuses == {"unused", "deleted"} \cup Open \cup Finished
Outcomes == [Command -> {"none", "ok", "bad"}]
Silent == [c \in Command |-> "none"]
Request == [results : Outcomes, compliant : BOOLEAN]
NoRequest == [results |-> Silent, compliant |-> TRUE]
Reply == [commands : SUBSET Command, results : Outcomes, compliant : BOOLEAN,
          refused : BOOLEAN]
NoReply == [commands |-> {}, results |-> Silent, compliant |-> TRUE, refused |-> FALSE]

Edit == edits < MaxEdits /\ edits' = edits + 1

-----------------------------------------------------------------------------
(* The queue                                                               *)

IsOpen(c) == status[c] \in Open

LiveByClock(c, a) == now < expires[c]     \* mutant: attempts are never spent
\* DeviceCommand.is_live for an open command with `a` attempts made.
IsLive(c, a) == now < expires[c] /\ a < MaxAttempts

Enqueue(c) ==
    /\ status' = [status EXCEPT ![c] = "pending"]
    /\ attempts' = [attempts EXCEPT ![c] = 0]
    /\ expires' = [expires EXCEPT ![c] = now + Ttl]

\* POST /devices/{id}/commands.
QueueCommand(c) ==
    /\ c \in Plain \cup LostWipe /\ status[c] = "unused"
    /\ exists /\ Edit
    /\ Enqueue(c)
    /\ UNCHANGED <<exists, failing, agent, wire, now>>

\* disenroll.request: a second press while one is on its way queues nothing.
RequestDisenroll(c) ==
    /\ c \in Disenroll /\ status[c] = "unused"
    /\ exists /\ Edit
    /\ ~\E x \in Disenroll : IsOpen(x)
    /\ Enqueue(c)
    /\ UNCHANGED <<exists, failing, agent, wire, now>>

CancelCommand(c) ==
    /\ IsOpen(c)
    /\ Edit
    /\ status' = [status EXCEPT ![c] = "expired"]
    /\ UNCHANGED <<exists, attempts, expires, failing, agent, wire, now>>

\* GET /devices/{id}/commands: expire_stale, committed.
Stale == {c \in Command : IsOpen(c) /\ ~IsLive(c, attempts[c])}
ListCommands ==
    /\ Stale # {}
    /\ status' = [c \in Command |-> IF c \in Stale THEN "expired" ELSE status[c]]
    /\ UNCHANGED <<exists, attempts, expires, failing, agent, wire, now, edits>>

Tick ==
    /\ now < MaxClock
    /\ now' = now + 1
    /\ UNCHANGED <<server, agent, wire, edits>>

-----------------------------------------------------------------------------
(* The check-in                                                            *)

\* mutant: an outcome is written over whatever the command had come to
RecordedOver(m) ==
    [c \in Command |->
        IF m.results[c] # "none" /\ status[c] \notin {"unused", "deleted"}
            THEN IF m.results[c] = "ok" THEN "succeeded" ELSE "failed"
            ELSE status[c]]
\* record_results: an outcome finishes an open command and nothing else.
Recorded(m) ==
    [c \in Command |->
        IF IsOpen(c) /\ m.results[c] # "none"
            THEN IF m.results[c] = "ok" THEN "succeeded" ELSE "failed"
            ELSE status[c]]

AnyWipeAcked(st) == \E c \in Wipe : st[c] = "succeeded"     \* mutant: any wipe removes the record
\* disenroll.acknowledged, of the statuses st.
Acknowledged(st) == \E c \in Disenroll : st[c] = "succeeded"

\* disenroll.complete: the record goes, and its commands and location with it.
Complete ==
    /\ exists' = FALSE
    /\ status' = [c \in Command |-> IF status[c] = "unused" THEN "unused" ELSE "deleted"]
    /\ attempts' = [c \in Command |-> 0]
    /\ expires' = [c \in Command |-> 0]
    /\ failing' = Never

\* compliance_rules.record: the clock the compliance actions count from.
FailingAfter(m) == IF m.compliant THEN Never ELSE IF failing = Never THEN now ELSE failing
WipeDue(f) == f # Never /\ f + Grace <= now

SyncNothing(st, due) ==     \* mutant: recovery cancels no queued wipe
    IF due /\ \A c \in Compliance : st[c] \notin Open
        THEN {[s |-> [st EXCEPT ![c] = "pending"], queued |-> {c}] :
                 c \in {x \in Compliance : st[x] = "unused"}}
        ELSE {[s |-> st, queued |-> {}]}
\* compliance_actions.sync_wipe, of the statuses st: queue the wipe once it is
\* due, cancel it when it no longer is.
Synced(st, due) ==
    IF due
        THEN IF \A c \in Compliance : st[c] \notin Open
                 THEN {[s |-> [st EXCEPT ![c] = "pending"], queued |-> {c}] :
                          c \in {x \in Compliance : st[x] = "unused"}}
                 ELSE {[s |-> st, queued |-> {}]}
        ELSE {[s |-> [c \in Command |-> IF c \in Compliance /\ st[c] \in Open
                                           THEN "expired" ELSE st[c]],
               queued |-> {}]}

\* claim_for_delivery, of what sync_wipe left: expire what is stale, hand over
\* the rest and count the attempt.
LiveUnlessDone(r) ==     \* mutant: a cancelled command is live while its clock runs
    {c \in Command : /\ r.s[c] \in Open \cup {"expired"}
                     /\ c \in r.queued \/ IsLive(c, attempts[c])}
Live(r) == {c \in Command : /\ r.s[c] \in Open
                            /\ c \in r.queued \/ IsLive(c, attempts[c])}
Claim(r) ==
    /\ status' = [c \in Command |->
                     IF c \in Live(r) THEN "dispatched"
                     ELSE IF r.s[c] \in Open THEN "expired" ELSE r.s[c]]
    /\ attempts' = [c \in Command |->
                       IF c \in r.queued THEN 1
                       ELSE IF c \in Live(r) THEN attempts[c] + 1 ELSE attempts[c]]
    /\ expires' = [c \in Command |-> IF c \in r.queued THEN now + Ttl ELSE expires[c]]

Answer(m, cmds, no) ==
    reply' = [commands |-> cmds, results |-> m.results, compliant |-> m.compliant,
              refused |-> no]

\* POST /checkin carrying m.  The certificate of a record that is gone is refused;
Refused == ~exists /\ UNCHANGED server

\* a device that acknowledges a disenroll is forgotten;
Forgotten(m) ==
    /\ exists /\ Acknowledged(Recorded(m))
    /\ Complete

\* any other is judged by its rules,
Judged(m) ==
    LET made == Synced(Recorded(m), WipeDue(FailingAfter(m)))
    IN  IF made # {} THEN made      \* bound: Compliance is used up
        ELSE {[s |-> Recorded(m), queued |-> {}]}

\* and handed what is live then.
Served(m, r) ==
    /\ exists /\ ~Acknowledged(Recorded(m))
    /\ failing' = FailingAfter(m)
    /\ Claim(r)
    /\ UNCHANGED exists

Checkin ==
    /\ phase = "waiting"
    /\ \/ Refused /\ Answer(request, {}, TRUE)
       \/ Forgotten(request) /\ Answer(request, {}, FALSE)
       \/ \E r \in Judged(request) : Served(request, r) /\ Answer(request, Live(r), FALSE)
    /\ phase' = "replied"
    /\ request' = NoRequest
    /\ UNCHANGED <<late, agent, now, edits>>

LateCheckin(m) ==
    /\ m \in late
    /\ Refused \/ Forgotten(m) \/ \E r \in Judged(m) : Served(m, r)
    /\ late' = late \ {m}
    /\ UNCHANGED <<phase, request, reply, agent, now, edits>>

-----------------------------------------------------------------------------
(* The device (external)                                                   *)

Send ==
    /\ alive /\ phase = "idle"
    /\ phase' = "waiting"
    /\ request' = [results |-> outcome, compliant |-> compliant]
    /\ UNCHANGED <<server, agent, reply, late, now, edits>>

GiveUp ==
    /\ phase = "waiting"
    /\ Cardinality(late) < MaxLate
    /\ phase' = "idle"
    /\ late' = late \cup {request}
    /\ request' = NoRequest
    /\ UNCHANGED <<server, agent, reply, now, edits>>

LoseReply ==
    /\ phase = "replied"
    /\ phase' = "idle"
    /\ reply' = NoReply
    /\ UNCHANGED <<server, agent, request, late, now, edits>>

\* The outcomes it reported are delivered, so it forgets them, and erases
\* itself if one was of a wipe it accepted; otherwise it has what it was handed.
Delivered == {c \in Command : reply.results[c] # "none"}
Erasing == {c \in Wipe : reply.results[c] = "ok"}
Deliver ==
    /\ phase = "replied"
    /\ phase' = "idle"
    /\ reply' = NoReply
    /\ IF reply.refused THEN UNCHANGED <<inbox, outcome, erasedBy, alive>>
       ELSE /\ outcome' = [c \in Command |-> IF c \in Delivered /\ outcome[c] = reply.results[c]
                                               THEN "none" ELSE outcome[c]]
            /\ inbox' = IF Erasing = {} THEN inbox \cup reply.commands ELSE {}
            /\ erasedBy' = erasedBy \cup Erasing
            /\ alive' = (Erasing = {})
    /\ UNCHANGED <<server, compliant, said, request, late, now, edits>>

\* It runs a command, or, for a wipe, decides that it will.
Run(c) ==
    /\ alive /\ c \in inbox
    /\ inbox' = inbox \ {c}
    /\ \E o \in {"ok", "bad"} :
          /\ outcome' = [outcome EXCEPT ![c] = o]
          /\ said' = IF o = "ok" THEN said \cup {c} ELSE said
    /\ UNCHANGED <<server, compliant, erasedBy, alive, wire, now, edits>>

\* It dies, and forgets what it was handed and what it did.
Restart ==
    /\ alive /\ Edit
    /\ inbox # {} \/ outcome # Silent
    /\ inbox' = {}
    /\ outcome' = Silent
    /\ UNCHANGED <<server, compliant, said, erasedBy, alive, wire, now>>

PostureChange ==
    /\ alive /\ Edit
    /\ compliant' = ~compliant
    /\ UNCHANGED <<server, inbox, outcome, said, erasedBy, alive, wire, now>>

\* It enrols again: its old certificate, and every request made with it, is
\* refused from now on.  The commands of a record that still exists are kept.
Reenroll ==
    /\ ~alive /\ Edit
    /\ exists' = TRUE
    /\ alive' = TRUE
    /\ inbox' = {}
    /\ outcome' = Silent
    /\ phase' = "idle" /\ request' = NoRequest /\ reply' = NoReply /\ late' = {}
    /\ UNCHANGED <<queue, failing, compliant, said, erasedBy, now>>

-----------------------------------------------------------------------------

Init ==
    /\ exists = TRUE
    /\ status = [c \in Command |-> "unused"]
    /\ attempts = [c \in Command |-> 0]
    /\ expires = [c \in Command |-> 0]
    /\ failing = Never
    /\ compliant \in BOOLEAN
    /\ inbox = {} /\ outcome = Silent /\ said = {} /\ erasedBy = {}
    /\ alive = TRUE
    /\ phase = "idle" /\ request = NoRequest /\ reply = NoReply /\ late = {}
    /\ now = 0 /\ edits = 0

Next ==
    \/ \E c \in Command :
          QueueCommand(c) \/ RequestDisenroll(c) \/ CancelCommand(c) \/ Run(c)
    \/ ListCommands \/ Tick
    \/ Send \/ Checkin \/ GiveUp \/ LoseReply \/ Deliver
    \/ Restart \/ PostureChange \/ Reenroll
    \/ \E m \in late : LateCheckin(m)

Spec == Init /\ [][Next]_vars

-----------------------------------------------------------------------------
(* Properties                                                              *)

TypeOK ==
    /\ exists \in BOOLEAN /\ alive \in BOOLEAN /\ compliant \in BOOLEAN
    /\ status \in [Command -> Statuses]
    /\ attempts \in [Command -> 0 .. MaxAttempts]
    /\ expires \in [Command -> Nat]
    /\ failing \in 0 .. Never
    /\ inbox \subseteq Command /\ outcome \in Outcomes
    /\ said \subseteq Command /\ erasedBy \subseteq Command
    /\ phase \in {"idle", "waiting", "replied"}
    /\ request \in Request /\ reply \in Reply /\ late \subseteq Request
    /\ now \in Time /\ edits \in 0 .. MaxEdits

\* A wipe a device has erased itself for is never handed to it again, however
\* late or often the acknowledgement came and whoever cancelled it meanwhile: a
\* device that enrols again is not wiped by the command of its previous life
\* (record_results, claim_for_delivery).
ErasedOnce == \A c \in erasedBy : ~IsOpen(c) /\ c \notin inbox

\* A record is only ever removed because the device said it would carry out a
\* disenroll: an ordinary wipe, lost or by the rules, "must not silently delete
\* the record an operator may still need" (disenroll).
ForgottenWasAcked ==
    (\E c \in Command : status[c] = "deleted") => said \cap Disenroll # {}

\* A device that checks in compliant is not handed a wipe queued while it was
\* failing (compliance_actions.sync_wipe, checkin).
CompliantIsSpared ==
    (phase = "replied" /\ reply.compliant) => reply.commands \cap Compliance = {}

\* What had come to an end stays as it ended, whatever is reported late, twice
\* or after a cancel (record_results).
FinishedIsFinal ==
    [][\A c \in Command :
          status[c] \in Finished => status'[c] \in {status[c], "deleted"}]_vars

\* A device that has reset itself to be handed back is forgotten: "factory
\* reset it, then forget it" (disenroll).
ResetIsForgotten == \A c \in erasedBy \cap Disenroll : status[c] = "deleted"

=============================================================================
