---------------------------- MODULE CommandsProofs ----------------------------
(***************************************************************************)
(* Proofs about Commands, for any commands, any limits and any bounds.     *)
(***************************************************************************)
EXTENDS Commands, TLAPS

-----------------------------------------------------------------------------
(* How a check-in moves the statuses                                       *)

Closed == Finished \cup {"deleted"}

\* What record_results makes of the statuses: open ones may finish.
LEMMA RecordedShape ==
    ASSUME TypeOK, NEW m \in Request, NEW c \in Command
    PROVE  /\ Recorded(m) \in [Command -> Statuses]
           /\ status[c] \notin Open => Recorded(m)[c] = status[c]
           /\ status[c] \in Open =>
                 Recorded(m)[c] = IF m.results[c] = "none" THEN status[c]
                                  ELSE IF m.results[c] = "ok" THEN "succeeded" ELSE "failed"
  BY DEF TypeOK, Recorded, IsOpen, Statuses, Open, Finished

\* What the rules then queue or cancel: a wipe of theirs, and no other command.
LEMMA JudgedShape ==
    ASSUME TypeOK, NEW m \in Request, NEW r \in Judged(m)
    PROVE  /\ r.s \in [Command -> Statuses]
           /\ r.queued \subseteq Compliance
           /\ \A c \in r.queued : status[c] = "unused" /\ r.s[c] = "pending"
           /\ \A c \in Command \ r.queued :
                 r.s[c] = Recorded(m)[c]
                    \/ (c \in Compliance /\ Recorded(m)[c] \in Open /\ r.s[c] = "expired")
           /\ m.compliant => r.queued = {} /\ \A c \in Compliance : r.s[c] \notin Open
<1> DEFINE st == Recorded(m)
           due == WipeDue(FailingAfter(m))
<1>1. /\ st \in [Command -> Statuses]
      /\ \A c \in Command : st[c] = "unused" => status[c] = "unused"
  <2>1. \A c \in Command : st[c] = "unused" => status[c] = "unused"
    BY RecordedShape DEF Open
  <2>2. st \in [Command -> Statuses]
    BY DEF TypeOK, Recorded, IsOpen, Statuses, Open, Finished
  <2> QED
    BY <2>1, <2>2
<1>2. m.compliant => ~due
  BY DEF FailingAfter, WipeDue
<1>3. Compliance \subseteq Command
  BY DEF Command, Wipe
<1> HIDE DEF st, due
<1>4. CASE r \in Synced(st, due)
  <2>1. CASE ~due
    <3>1. /\ r.queued = {}
          /\ r.s = [c \in Command |-> IF c \in Compliance /\ st[c] \in Open
                                         THEN "expired" ELSE st[c]]
      BY <1>4, <2>1 DEF Synced
    <3> QED
      BY <1>1, <1>3, <3>1 DEF Statuses, Finished, Open, st
  <2>2. CASE due /\ r = [s |-> st, queued |-> {}]
    BY <1>1, <1>2, <2>2 DEF st
  <2>3. CASE due /\ r # [s |-> st, queued |-> {}]
    <3>1. PICK c \in Compliance : /\ st[c] = "unused"
                                  /\ r = [s |-> [st EXCEPT ![c] = "pending"], queued |-> {c}]
      BY <1>4, <2>3 DEF Synced
    <3> QED
      BY <1>1, <1>2, <1>3, <2>3, <3>1 DEF Statuses, Open, st
  <2> QED
    BY <2>1, <2>2, <2>3
<1>5. CASE r = [s |-> st, queued |-> {}] /\ Synced(st, due) = {}
  <2>1. due
    BY <1>5 DEF Synced
  <2> QED
    BY <1>1, <1>2, <1>5, <2>1 DEF st
<1> QED
  BY <1>4, <1>5 DEF Judged, st, due

\* What is handed over is live, and only what is open is live.
LEMMA LiveIsOpen ==
    ASSUME TypeOK, NEW m \in Request, NEW r \in Judged(m), NEW c \in Live(r)
    PROVE  /\ c \in Command
           /\ c \in r.queued \/ (status[c] \in Open /\ attempts[c] < MaxAttempts)
           /\ c \in Compliance => ~m.compliant
<1>1. c \in Command /\ r.s[c] \in Open
  BY DEF Live
<1>2. c \in r.queued \/ attempts[c] < MaxAttempts
  BY DEF Live, IsLive
<1>3. c \notin r.queued => status[c] \in Open
  <2>1. c \notin r.queued => r.s[c] = Recorded(m)[c]
    BY <1>1, JudgedShape DEF Open
  <2> QED
    BY <1>1, <2>1, RecordedShape
<1>4. c \in Compliance => ~m.compliant
  BY <1>1, JudgedShape
<1> QED
  BY <1>1, <1>2, <1>3, <1>4

-----------------------------------------------------------------------------
(* Types                                                                   *)

LEMMA ConstantsType ==
    /\ Silent \in Outcomes /\ NoRequest \in Request /\ NoReply \in Reply
    /\ Never \in 0 .. Never /\ Time \subseteq 0 .. Never /\ 0 \in Time
    /\ Compliance \subseteq Wipe /\ Disenroll \subseteq Wipe /\ Wipe \subseteq Command
  BY TimesAssumption
     DEF Silent, Outcomes, NoRequest, Request, NoReply, Reply, Never, Time, Wipe, Command

LEMMA ServedType ==
    ASSUME TypeOK, NEW m \in Request, NEW r \in Judged(m), Served(m, r)
    PROVE  /\ exists' \in BOOLEAN
           /\ status' \in [Command -> Statuses]
           /\ attempts' \in [Command -> 0 .. MaxAttempts]
           /\ expires' \in [Command -> Nat]
           /\ failing' \in 0 .. Never
<1>1. r.s \in [Command -> Statuses]
  BY JudgedShape
<1>2. status' \in [Command -> Statuses]
  BY <1>1 DEF Served, Claim, Statuses, Open, Finished
<1>3. attempts' \in [Command -> 0 .. MaxAttempts]
  <2>1. \A c \in Live(r) : c \in r.queued \/ attempts[c] < MaxAttempts
    BY LiveIsOpen
  <2> QED
    BY <2>1, AttemptsAssumption DEF Served, Claim, TypeOK
<1>4. expires' \in [Command -> Nat]
  BY TimesAssumption DEF Served, Claim, TypeOK, Time
<1>5. failing' \in 0 .. Never
  BY TimesAssumption DEF Served, FailingAfter, TypeOK, Time, Never
<1> QED
  BY <1>2, <1>3, <1>4, <1>5 DEF Served, TypeOK

LEMMA ForgottenType ==
    ASSUME TypeOK, NEW m, Forgotten(m)
    PROVE  /\ exists' \in BOOLEAN
           /\ status' \in [Command -> Statuses]
           /\ attempts' \in [Command -> 0 .. MaxAttempts]
           /\ expires' \in [Command -> Nat]
           /\ failing' \in 0 .. Never
<1>1. status' \in [Command -> Statuses]
  BY DEF Forgotten, Complete, Statuses
<1>2. attempts' \in [Command -> 0 .. MaxAttempts] /\ expires' \in [Command -> Nat]
  BY AttemptsAssumption DEF Forgotten, Complete
<1>3. exists' \in BOOLEAN /\ failing' \in 0 .. Never
  BY ConstantsType DEF Forgotten, Complete
<1> QED
  BY <1>1, <1>2, <1>3

\* Whatever a check-in comes to, the server's part of the state keeps its type.
LEMMA ServerType ==
    ASSUME TypeOK, NEW m \in Request,
           Refused \/ Forgotten(m) \/ \E r \in Judged(m) : Served(m, r)
    PROVE  /\ exists' \in BOOLEAN
           /\ status' \in [Command -> Statuses]
           /\ attempts' \in [Command -> 0 .. MaxAttempts]
           /\ expires' \in [Command -> Nat]
           /\ failing' \in 0 .. Never
<1>1. CASE Refused
  BY <1>1 DEF Refused, server, queue, TypeOK
<1>2. CASE Forgotten(m)
  BY <1>2, ForgottenType
<1>3. CASE \E r \in Judged(m) : Served(m, r)
  BY <1>3, ServedType
<1> QED
  BY <1>1, <1>2, <1>3

LEMMA QueueType ==
    ASSUME TypeOK, NEW c \in Command,
           QueueCommand(c) \/ RequestDisenroll(c) \/ CancelCommand(c)
    PROVE  TypeOK'
<1>1. now + Ttl \in Nat
  BY TimesAssumption DEF TypeOK, Time
<1>2. CASE QueueCommand(c) \/ RequestDisenroll(c)
  BY <1>1, <1>2, AttemptsAssumption, BoundAssumption
     DEF TypeOK, QueueCommand, RequestDisenroll, Enqueue, Edit, Statuses, Open, agent, wire
<1>3. CASE CancelCommand(c)
  BY <1>3, BoundAssumption
     DEF TypeOK, CancelCommand, Edit, Statuses, Finished, agent, wire
<1> QED
  BY <1>2, <1>3

LEMMA RunType ==
    ASSUME TypeOK, NEW c \in Command, Run(c)
    PROVE  TypeOK'
<1>1. outcome' \in Outcomes
  BY DEF TypeOK, Run, Outcomes
<1>2. said' \subseteq Command /\ inbox' \subseteq Command
  BY DEF TypeOK, Run
<1> QED
  BY <1>1, <1>2 DEF TypeOK, Run, server, queue, wire

LEMMA CheckinType ==
    ASSUME TypeOK, Checkin
    PROVE  TypeOK'
<1>1. /\ request \in Request
      /\ request.results \in Outcomes /\ request.compliant \in BOOLEAN
  BY DEF TypeOK, Request
<1>2. reply' \in Reply
  <2>1. CASE \E no \in BOOLEAN : Answer(request, {}, no)
    BY <1>1, <2>1 DEF Answer, Reply
  <2>2. CASE \E r \in Judged(request) : Answer(request, Live(r), FALSE)
    BY <1>1, <2>2 DEF Answer, Reply, Live
  <2> QED
    BY <2>1, <2>2 DEF Checkin
<1>3. /\ exists' \in BOOLEAN
      /\ status' \in [Command -> Statuses]
      /\ attempts' \in [Command -> 0 .. MaxAttempts]
      /\ expires' \in [Command -> Nat]
      /\ failing' \in 0 .. Never
  BY <1>1, ServerType DEF Checkin
<1> QED
  BY <1>2, <1>3, ConstantsType DEF TypeOK, Checkin, agent

LEMMA DeliverType ==
    ASSUME TypeOK, Deliver
    PROVE  TypeOK'
<1>1. outcome' \in Outcomes
  BY DEF TypeOK, Deliver, Outcomes
<1>2. reply.commands \subseteq Command /\ Erasing \subseteq Command
  BY ConstantsType DEF TypeOK, Reply, Erasing
<1>3. /\ inbox' \subseteq Command /\ erasedBy' \subseteq Command
      /\ alive' \in BOOLEAN
  BY <1>2 DEF TypeOK, Deliver
<1> QED
  BY <1>1, <1>3, ConstantsType DEF TypeOK, Deliver, server, queue

LEMMA StepType == TypeOK /\ [Next]_vars => TypeOK'
<1> SUFFICES ASSUME TypeOK, [Next]_vars PROVE TypeOK'
  OBVIOUS
<1>1. ASSUME NEW c \in Command,
             QueueCommand(c) \/ RequestDisenroll(c) \/ CancelCommand(c)
      PROVE  TypeOK'
  BY <1>1, QueueType
<1>2. ASSUME NEW c \in Command, Run(c)
      PROVE  TypeOK'
  BY <1>2, RunType
<1>3. CASE ListCommands
  BY <1>3 DEF TypeOK, ListCommands, Statuses, Finished, agent, wire
<1>4. CASE Tick
  BY <1>4, TimesAssumption DEF TypeOK, Tick, Time, server, queue, agent, wire
<1>5. CASE Send
  BY <1>5 DEF TypeOK, Send, Request, server, queue, agent
<1>6. CASE Checkin
  BY <1>6, CheckinType
<1>7. CASE GiveUp
  BY <1>7, ConstantsType DEF TypeOK, GiveUp, server, queue, agent
<1>8. CASE LoseReply
  BY <1>8, ConstantsType DEF TypeOK, LoseReply, server, queue, agent
<1>9. CASE Deliver
  BY <1>9, DeliverType
<1>10. CASE Restart
  BY <1>10, ConstantsType, BoundAssumption
     DEF TypeOK, Restart, Edit, server, queue, wire
<1>11. CASE PostureChange
  BY <1>11, BoundAssumption DEF TypeOK, PostureChange, Edit, server, queue, wire
<1>12. CASE Reenroll
  BY <1>12, ConstantsType, BoundAssumption DEF TypeOK, Reenroll, Edit, queue
<1>13. ASSUME NEW m \in late, LateCheckin(m)
       PROVE  TypeOK'
  <2>1. m \in Request
    BY DEF TypeOK
  <2>2. /\ exists' \in BOOLEAN
        /\ status' \in [Command -> Statuses]
        /\ attempts' \in [Command -> 0 .. MaxAttempts]
        /\ expires' \in [Command -> Nat]
        /\ failing' \in 0 .. Never
    BY <1>13, <2>1, ServerType DEF LateCheckin
  <2> QED
    BY <1>13, <2>2 DEF TypeOK, LateCheckin, agent
<1>14. CASE UNCHANGED vars
  BY <1>14 DEF TypeOK, vars, server, queue, agent, wire
<1> QED
  BY <1>1, <1>2, <1>3, <1>4, <1>5, <1>6, <1>7, <1>8, <1>9, <1>10, <1>11, <1>12, <1>13,
     <1>14 DEF Next

LEMMA InitType == Init => TypeOK
  BY AttemptsAssumption, BoundAssumption, ConstantsType DEF Init, TypeOK, Statuses

\* Every variable stays in its type; in particular no command is handed over
\* more often than its attempts allow.
THEOREM TypeCorrect == Spec => []TypeOK
  BY InitType, StepType, PTL DEF Spec

-----------------------------------------------------------------------------
(* What is known of an outcome while it is under way                       *)

\* Results under way: what the device has to say, says in a request, or has
\* said in one it no longer waits for, and what an answer says was recorded.
Voiced == {outcome, request.results, reply.results} \cup {m.results : m \in late}

\* Everything handed over or reported is of a command that was queued, and a
\* success of one the device carries out.
Queued ==
    /\ \A c \in inbox \cup reply.commands : status[c] # "unused"
    /\ \A o \in Voiced : \A c \in Command :
          /\ o[c] # "none" => status[c] # "unused"
          /\ o[c] = "ok" => c \in said
    /\ \A c \in Command : status[c] = "succeeded" => c \in said

\* What an answer says was recorded has come to its end, and so has every wipe
\* the device erased itself for, of which nothing is on its way back.
Recording ==
    /\ ~reply.refused => \A c \in Command : reply.results[c] # "none" => status[c] \in Closed
    /\ \A c \in erasedBy : status[c] \in Closed
    /\ (inbox \cup reply.commands) \cap erasedBy = {}

Custody == TypeOK /\ Queued /\ Recording /\ ForgottenWasAcked /\ CompliantIsSpared

-----------------------------------------------------------------------------
(* How a status may move                                                   *)

\* What has come to an end stays so, and what was queued is not forgotten but
\* with the record.
Follows ==
    \A c \in Command :
        /\ status[c] \in Closed => status'[c] \in {status[c], "deleted"}
        /\ status[c] # "unused" => status'[c] # "unused"

\* A success is of a command that was a success, or is reported as one; a record
\* goes when one of a disenroll is there.
Credits(results) ==
    /\ \A c \in Command :
          status'[c] = "succeeded" => status[c] = "succeeded" \/ results[c] = "ok"
    /\ \A c \in Command : status'[c] = "deleted" =>
          \/ status[c] = "deleted"
          \/ \E x \in Disenroll : status[x] = "succeeded" \/ results[x] = "ok"

LEMMA ServedMoves ==
    ASSUME TypeOK, NEW m \in Request, NEW r \in Judged(m), Served(m, r)
    PROVE  /\ Follows /\ Credits(m.results)
           /\ \A c \in Command : m.results[c] # "none" /\ status[c] # "unused"
                                    => status'[c] \in Closed
           /\ \A c \in Live(r) : status'[c] = "dispatched"
<1> SUFFICES ASSUME NEW c \in Command
             PROVE  /\ status[c] \in Closed => status'[c] = status[c]
                    /\ status[c] # "unused" => status'[c] # "unused"
                    /\ status'[c] = "succeeded" => status[c] = "succeeded" \/ m.results[c] = "ok"
                    /\ status'[c] = "deleted" => status[c] = "deleted"
                    /\ m.results[c] # "none" /\ status[c] # "unused" => status'[c] \in Closed
                    /\ c \in Live(r) => status'[c] = "dispatched"
  BY DEF Follows, Credits, Live
<1>1. /\ status[c] \in Statuses /\ m.results[c] \in {"none", "ok", "bad"}
      /\ r.s[c] \in Statuses
  BY JudgedShape DEF TypeOK, Request, Outcomes
<1>2. status'[c] = IF c \in Live(r) THEN "dispatched"
                   ELSE IF r.s[c] \in Open THEN "expired" ELSE r.s[c]
  BY DEF Served, Claim
<1>3. c \in Live(r) => r.s[c] \in Open
  BY DEF Live
<1>4. CASE c \in r.queued
  <2>1. status[c] = "unused" /\ r.s[c] = "pending"
    BY <1>4, JudgedShape
  <2> QED
    BY <1>2, <2>1 DEF Closed, Finished, Open
<1>5. CASE c \notin r.queued /\ r.s[c] = Recorded(m)[c]
  BY <1>1, <1>2, <1>3, <1>5, RecordedShape DEF Closed, Finished, Open, Statuses
<1>6. CASE c \notin r.queued /\ Recorded(m)[c] \in Open /\ r.s[c] = "expired"
  BY <1>1, <1>2, <1>3, <1>6, RecordedShape DEF Closed, Finished, Open, Statuses
<1> QED
  BY <1>4, <1>5, <1>6, JudgedShape

LEMMA ForgottenMoves ==
    ASSUME TypeOK, NEW m \in Request, Forgotten(m)
    PROVE  /\ Follows /\ Credits(m.results)
           /\ \A c \in Command : status[c] # "unused" => status'[c] \in Closed
<1>1. \A c \in Command : status'[c] = IF status[c] = "unused" THEN "unused" ELSE "deleted"
  BY DEF Forgotten, Complete
<1>2. PICK x \in Disenroll : Recorded(m)[x] = "succeeded"
  BY DEF Forgotten, Acknowledged
<1>3. status[x] = "succeeded" \/ m.results[x] = "ok"
  BY <1>2, RecordedShape, ConstantsType DEF Open
<1> QED
  BY <1>1, <1>3 DEF Follows, Credits, Closed, Finished

LEMMA ServerMoves ==
    ASSUME TypeOK, NEW m \in Request,
           Refused \/ Forgotten(m) \/ \E r \in Judged(m) : Served(m, r)
    PROVE  Follows /\ Credits(m.results)
<1>1. CASE Refused
  BY <1>1 DEF Refused, server, queue, Follows, Credits
<1> QED
  BY <1>1, ServedMoves, ForgottenMoves

\* Every other step of the system leaves the statuses alone, or queues, cancels
\* or expires.
LEMMA QuietMoves ==
    ASSUME TypeOK, [Next]_vars, ~Checkin, \A m \in late : ~LateCheckin(m)
    PROVE  /\ Follows
           /\ \A c \in Command : status'[c] \in {"succeeded", "deleted"} => status[c] = status'[c]
<1>1. ASSUME NEW c \in Command, QueueCommand(c) \/ RequestDisenroll(c) \/ CancelCommand(c)
      PROVE  /\ Follows
             /\ \A x \in Command : status'[x] \in {"succeeded", "deleted"} => status[x] = status'[x]
  <2>1. CASE QueueCommand(c) \/ RequestDisenroll(c)
    <3>1. status' = [status EXCEPT ![c] = "pending"] /\ status[c] = "unused"
      BY <2>1 DEF QueueCommand, RequestDisenroll, Enqueue
    <3> QED
      BY <3>1 DEF TypeOK, Follows, Closed, Finished, Open
  <2>2. CASE CancelCommand(c)
    BY <2>2 DEF CancelCommand, IsOpen, TypeOK, Follows, Closed, Finished, Open
  <2> QED
    BY <1>1, <2>1, <2>2
<1>2. CASE ListCommands
  BY <1>2 DEF TypeOK, ListCommands, Stale, IsOpen, Follows, Closed, Finished, Open
<1>3. CASE UNCHANGED status
  BY <1>3 DEF Follows
<1>4. \/ \E c \in Command : QueueCommand(c) \/ RequestDisenroll(c) \/ CancelCommand(c)
      \/ ListCommands \/ UNCHANGED status
  BY DEF Next, Run, Tick, Send, GiveUp, LoseReply, Deliver, Restart, PostureChange,
         Reenroll, vars, server, queue
<1> QED
  BY <1>1, <1>2, <1>3, <1>4

LEMMA StepFollows == TypeOK /\ [Next]_vars => Follows
<1> SUFFICES ASSUME TypeOK, [Next]_vars PROVE Follows
  OBVIOUS
<1>1. CASE Checkin
  BY <1>1, ServerMoves DEF Checkin, TypeOK
<1>2. ASSUME NEW m \in late, LateCheckin(m)
      PROVE  Follows
  BY <1>2, ServerMoves DEF LateCheckin, TypeOK
<1> QED
  BY <1>1, <1>2, QuietMoves

\* An outcome is final: a command that succeeded, failed or expired stays as it
\* ended until its record goes, whatever is reported late, twice or after a
\* cancel.
THEOREM OutcomesAreFinal == Spec => FinishedIsFinal
<1>1. TypeOK /\ [Next]_vars =>
        [\A c \in Command :
            status[c] \in Finished => status'[c] \in {status[c], "deleted"}]_vars
  BY StepFollows DEF Follows, Closed
<1> QED
  BY <1>1, TypeCorrect, PTL DEF Spec, FinishedIsFinal

-----------------------------------------------------------------------------
(* The invariant, step by step                                             *)

\* Results that say nothing new stay good: what was queued stays so and what was
\* said stays said.
LEMMA VoicedStays ==
    ASSUME TypeOK, Queued, Follows, said \subseteq said',
           \A o \in Voiced' : o = Silent \/ \E v \in Voiced :
                                   \A c \in Command : o[c] \in {v[c], "none"}
    PROVE  \A o \in Voiced' : \A c \in Command :
               /\ o[c] # "none" => status'[c] # "unused"
               /\ o[c] = "ok" => c \in said'
<1> SUFFICES ASSUME NEW o \in Voiced', NEW c \in Command
             PROVE  /\ o[c] # "none" => status'[c] # "unused"
                    /\ o[c] = "ok" => c \in said'
  OBVIOUS
<1>1. CASE o = Silent
  BY <1>1 DEF Silent
<1>2. ASSUME NEW v \in Voiced, \A x \in Command : o[x] \in {v[x], "none"}
      PROVE  /\ o[c] # "none" => status'[c] # "unused"
             /\ o[c] = "ok" => c \in said'
  BY <1>2 DEF Queued, Follows
<1> QED
  BY <1>1, <1>2

\* A check-in, waited for or not.
LEMMA ServerCustody ==
    ASSUME Custody, NEW m \in Request, m.results \in Voiced,
           Refused \/ Forgotten(m) \/ \E r \in Judged(m) : Served(m, r),
           UNCHANGED agent
    PROVE  /\ \A c \in Command : status'[c] = "succeeded" => c \in said'
           /\ \A c \in erasedBy' : status'[c] \in Closed
           /\ \A c \in inbox' : status'[c] # "unused"
           /\ inbox' \cap erasedBy' = {}
           /\ ForgottenWasAcked'
<1>1. Follows /\ Credits(m.results)
  BY ServerMoves DEF Custody
<1>2. \A c \in Command : status'[c] = "succeeded" => c \in said
  BY <1>1 DEF Custody, Queued, Credits
<1>3. ForgottenWasAcked'
  <2>1. SUFFICES ASSUME NEW c \in Command, status'[c] = "deleted"
                 PROVE  said \cap Disenroll # {}
    BY DEF ForgottenWasAcked, agent
  <2>2. CASE status[c] = "deleted"
    BY <2>2 DEF Custody, ForgottenWasAcked
  <2>3. ASSUME NEW x \in Disenroll, status[x] = "succeeded" \/ m.results[x] = "ok"
        PROVE  x \in said
    BY <2>3, ConstantsType DEF Custody, Queued
  <2> QED
    BY <1>1, <2>1, <2>2, <2>3 DEF Credits
<1>4. inbox \subseteq Command /\ erasedBy \subseteq Command
  BY DEF Custody, TypeOK
<1> QED
  BY <1>1, <1>2, <1>3, <1>4 DEF Custody, Queued, Recording, Follows, Closed, agent

LEMMA CheckinCustody ==
    ASSUME Custody, Checkin
    PROVE  Custody'
<1> DEFINE m == request
           Told ==
             /\ \A c \in reply'.commands : status'[c] = "dispatched" /\ c \in Command
             /\ ~reply'.refused => \A c \in Command : reply'.results[c] # "none"
                                                       => status'[c] \in Closed
             /\ reply'.compliant => reply'.commands \cap Compliance = {}
<1>1. /\ m \in Request /\ m.results \in Voiced
      /\ UNCHANGED agent /\ request' = NoRequest /\ late' = late
      /\ reply'.results = m.results /\ reply'.compliant = m.compliant
  BY DEF Checkin, Custody, TypeOK, Voiced, Answer
<1>2. Refused \/ Forgotten(m) \/ \E r \in Judged(m) : Served(m, r)
  BY DEF Checkin
<1>3. TypeOK' /\ Follows
  BY <1>1, <1>2, CheckinType, ServerMoves DEF Custody
<1>4. /\ \A c \in Command : status'[c] = "succeeded" => c \in said'
      /\ \A c \in erasedBy' : status'[c] \in Closed
      /\ \A c \in inbox' : status'[c] # "unused"
      /\ inbox' \cap erasedBy' = {}
      /\ ForgottenWasAcked'
  BY <1>1, <1>2, ServerCustody
<1>5. \A o \in Voiced' : o = Silent \/ o \in Voiced
  BY <1>1 DEF Voiced, NoRequest, agent
<1>6. \A o \in Voiced' : \A c \in Command :
          /\ o[c] # "none" => status'[c] # "unused"
          /\ o[c] = "ok" => c \in said'
  BY <1>1, <1>3, <1>5, VoicedStays DEF Custody, agent
<1>7. Told
  <2>1. CASE Refused /\ Answer(m, {}, TRUE)
    BY <2>1 DEF Answer
  <2>2. CASE Forgotten(m) /\ Answer(m, {}, FALSE)
    <3>1. \A c \in Command : status[c] # "unused" => status'[c] \in Closed
      BY <1>1, <2>2, ForgottenMoves DEF Custody
    <3>2. \A c \in Command : m.results[c] # "none" => status[c] # "unused"
      BY <1>1 DEF Custody, Queued
    <3> QED
      BY <2>2, <3>1, <3>2 DEF Answer
  <2>3. ASSUME NEW r \in Judged(m), Served(m, r), Answer(m, Live(r), FALSE)
        PROVE  Told
    <3>1. reply'.commands = Live(r) /\ reply'.results = m.results /\ Live(r) \subseteq Command
      BY <2>3 DEF Answer, Live
    <3>2. /\ \A c \in Live(r) : status'[c] = "dispatched"
          /\ \A c \in Command : m.results[c] # "none" /\ status[c] # "unused"
                                => status'[c] \in Closed
      BY <1>1, <2>3, ServedMoves DEF Custody
    <3>3. \A c \in Command : m.results[c] # "none" => status[c] # "unused"
      BY <1>1 DEF Custody, Queued
    <3>4. m.compliant => Live(r) \cap Compliance = {}
      BY <1>1, <2>3, LiveIsOpen DEF Custody
    <3> QED
      BY <1>1, <3>1, <3>2, <3>3, <3>4
  <2> QED
    BY <2>1, <2>2, <2>3 DEF Checkin
<1>8. Queued'
  BY <1>4, <1>6, <1>7 DEF Queued
<1>9. Recording'
  <2>1. reply'.commands \cap erasedBy' = {}
    BY <1>4, <1>7 DEF Closed, Finished
  <2> QED
    BY <1>4, <1>7, <2>1 DEF Recording
<1>10. CompliantIsSpared'
  BY <1>7 DEF CompliantIsSpared
<1> QED
  BY <1>3, <1>4, <1>8, <1>9, <1>10 DEF Custody

LEMMA LateCheckinCustody ==
    ASSUME Custody, NEW m \in late, LateCheckin(m)
    PROVE  Custody'
<1>1. /\ m \in Request /\ m.results \in Voiced
      /\ UNCHANGED agent /\ UNCHANGED <<request, reply, phase>> /\ late' \subseteq late
      /\ Refused \/ Forgotten(m) \/ \E r \in Judged(m) : Served(m, r)
  BY DEF LateCheckin, Custody, TypeOK, Voiced
<1>2. TypeOK' /\ Follows
  BY <1>1, StepType, ServerMoves DEF Custody, Next
<1>3. /\ \A c \in Command : status'[c] = "succeeded" => c \in said'
      /\ \A c \in erasedBy' : status'[c] \in Closed
      /\ \A c \in inbox' : status'[c] # "unused"
      /\ inbox' \cap erasedBy' = {}
      /\ ForgottenWasAcked'
  BY <1>1, ServerCustody
<1>4. \A o \in Voiced' : o \in Voiced
  BY <1>1 DEF Voiced, agent
<1>5. \A o \in Voiced' : \A c \in Command :
          /\ o[c] # "none" => status'[c] # "unused"
          /\ o[c] = "ok" => c \in said'
  BY <1>1, <1>2, <1>4, VoicedStays DEF Custody, agent
<1>6. reply.commands \subseteq Command /\ erasedBy \subseteq Command
  BY DEF Custody, TypeOK, Reply
<1>7. Queued'
  BY <1>1, <1>2, <1>3, <1>5, <1>6 DEF Custody, Queued, Follows
<1>8. Recording'
  BY <1>1, <1>2, <1>3, <1>6 DEF Custody, Recording, Follows, Closed, agent
<1>9. CompliantIsSpared'
  BY <1>1 DEF Custody, CompliantIsSpared
<1> QED
  BY <1>2, <1>3, <1>7, <1>8, <1>9 DEF Custody

\* A device that learns its outcomes were recorded forgets them, and erases
\* itself if one was of a wipe: by then that wipe has come to its end.
LEMMA DeliverCustody ==
    ASSUME Custody, Deliver
    PROVE  Custody'
<1>1. TypeOK'
  BY DeliverType DEF Custody
<1>2. /\ UNCHANGED <<server, said, request, late>>
      /\ phase' = "idle" /\ reply' = NoReply
      /\ \A c \in Command : outcome'[c] \in {outcome[c], "none"}
      /\ inbox' \subseteq inbox \cup reply.commands
      /\ erasedBy' \subseteq erasedBy \cup Erasing
      /\ erasedBy' = erasedBy \/ (~reply.refused /\ (Erasing = {} \/ inbox' = {}))
  BY DEF Deliver, Custody, TypeOK, Outcomes
<1>3. Erasing \subseteq Command /\ \A c \in Erasing : reply.results[c] # "none"
  BY ConstantsType DEF Erasing
<1>4. Follows
  BY <1>2 DEF Follows, server, queue
<1>5. \A o \in Voiced' : o = Silent \/ \E v \in Voiced :
                             \A c \in Command : o[c] \in {v[c], "none"}
  BY <1>2 DEF Voiced, NoReply
<1>6. \A o \in Voiced' : \A c \in Command :
          /\ o[c] # "none" => status'[c] # "unused"
          /\ o[c] = "ok" => c \in said'
  BY <1>2, <1>4, <1>5, VoicedStays DEF Custody
<1>7. reply'.commands = {} /\ \A c \in Command : reply'.results[c] = "none"
  BY <1>2 DEF NoReply, Silent
<1>8. Queued'
  BY <1>2, <1>6, <1>7 DEF Custody, Queued, server, queue
<1>9. Recording'
  BY <1>2, <1>3, <1>7 DEF Custody, Recording, server, queue
<1>10. ForgottenWasAcked' /\ CompliantIsSpared'
  BY <1>2 DEF Custody, ForgottenWasAcked, CompliantIsSpared, server, queue
<1> QED
  BY <1>1, <1>8, <1>9, <1>10 DEF Custody

LEMMA RunCustody ==
    ASSUME Custody, NEW c \in Command, Run(c)
    PROVE  Custody'
<1>1. TypeOK'
  BY RunType DEF Custody
<1>2. /\ UNCHANGED <<server, erasedBy, wire>> /\ inbox' \subseteq inbox
      /\ status[c] # "unused" /\ said \subseteq said'
  BY DEF Run, Custody, Queued
<1>3. \A x \in Command : outcome'[x] = outcome[x] \/ (x = c /\ (outcome'[c] = "ok" => c \in said'))
  BY DEF Run, Custody, TypeOK, Outcomes
<1>4. \A o \in Voiced' \ {outcome'} : o \in Voiced
  BY <1>2 DEF Voiced, wire
<1>5. outcome \in Voiced
  BY DEF Voiced
<1>6. Queued'
  BY <1>2, <1>3, <1>4, <1>5 DEF Custody, Queued, server, queue, wire
<1>7. Recording' /\ ForgottenWasAcked' /\ CompliantIsSpared'
  BY <1>2 DEF Custody, Recording, ForgottenWasAcked, CompliantIsSpared, server, queue, wire
<1> QED
  BY <1>1, <1>6, <1>7 DEF Custody

\* Operators and the clock touch the queue, and nothing a device has or says.
LEMMA ConsoleCustody ==
    ASSUME Custody, [Next]_vars, ~Checkin, \A m \in late : ~LateCheckin(m),
           UNCHANGED <<inbox, outcome, said, erasedBy, wire>>
    PROVE  Custody'
<1>1. TypeOK' /\ Follows
  BY StepType, StepFollows DEF Custody
<1>2. \A c \in Command : status'[c] \in {"succeeded", "deleted"} => status[c] = status'[c]
  BY QuietMoves DEF Custody
<1>3. /\ inbox \subseteq Command /\ reply.commands \subseteq Command
      /\ erasedBy \subseteq Command
  BY DEF Custody, TypeOK, Reply
<1>4. \A o \in Voiced' : o \in Voiced
  BY DEF Voiced, wire
<1>5. Queued'
  BY <1>1, <1>2, <1>3, <1>4 DEF Custody, Queued, Follows, wire
<1>6. Recording' /\ ForgottenWasAcked' /\ CompliantIsSpared'
  BY <1>1, <1>2, <1>3
     DEF Custody, Recording, Follows, Closed, ForgottenWasAcked, CompliantIsSpared, wire
<1> QED
  BY <1>1, <1>5, <1>6 DEF Custody

\* What only moves or drops messages, or clears the device, keeps it too.
LEMMA ExchangeCustody ==
    ASSUME Custody, Send \/ GiveUp \/ LoseReply \/ Restart \/ Reenroll
    PROVE  Custody'
<1>1. TypeOK'
  BY StepType DEF Custody, Next
<1>2. /\ UNCHANGED <<queue, said, erasedBy>>
      /\ inbox' \subseteq inbox /\ reply' \in {reply, NoReply}
      /\ phase' # "replied" \/ (phase' = phase /\ reply' = reply)
  BY DEF Send, GiveUp, LoseReply, Restart, Reenroll, server, agent, wire
<1>3. /\ outcome' \in {outcome, Silent}
      /\ request'.results \in {request.results, outcome, Silent}
      /\ late' \subseteq late \cup {request}
  BY DEF Send, GiveUp, LoseReply, Restart, Reenroll, agent, wire, NoRequest
<1>4. /\ NoReply.commands = {} /\ NoReply.results = Silent
      /\ \A c \in Command : Silent[c] = "none"
  BY DEF NoReply, Silent
<1>5. \A o \in Voiced' : o = Silent \/ o \in Voiced
  BY <1>2, <1>3, <1>4 DEF Voiced
<1>6. Queued'
  BY <1>2, <1>4, <1>5 DEF Custody, Queued, queue
<1>7. Recording'
  BY <1>2, <1>4 DEF Custody, Recording, queue
<1>8. ForgottenWasAcked' /\ CompliantIsSpared'
  BY <1>2 DEF Custody, ForgottenWasAcked, CompliantIsSpared, queue
<1> QED
  BY <1>1, <1>6, <1>7, <1>8 DEF Custody

LEMMA StepCustody == Custody /\ [Next]_vars => Custody'
<1> SUFFICES ASSUME Custody, [Next]_vars PROVE Custody'
  OBVIOUS
<1>1. CASE Checkin
  BY <1>1, CheckinCustody
<1>2. CASE \E m \in late : LateCheckin(m)
  BY <1>2, LateCheckinCustody
<1>3. CASE Deliver
  BY <1>3, DeliverCustody
<1>4. CASE \E c \in Command : Run(c)
  BY <1>4, RunCustody
<1>5. CASE Send \/ GiveUp \/ LoseReply \/ Restart \/ Reenroll
  BY <1>5, ExchangeCustody
<1>6. CASE /\ ~Checkin /\ \A m \in late : ~LateCheckin(m)
           /\ \/ \E c \in Command : QueueCommand(c) \/ RequestDisenroll(c) \/ CancelCommand(c)
              \/ ListCommands \/ Tick \/ PostureChange \/ UNCHANGED vars
  <2>1. UNCHANGED <<inbox, outcome, said, erasedBy, wire>>
    BY <1>6 DEF QueueCommand, RequestDisenroll, CancelCommand, ListCommands, Tick,
       PostureChange, vars, agent
  <2> QED
    BY <1>6, <2>1, ConsoleCustody
<1> QED
  BY <1>1, <1>2, <1>3, <1>4, <1>5, <1>6 DEF Next

LEMMA InitCustody == Init => Custody
<1> SUFFICES ASSUME Init PROVE Custody
  OBVIOUS
<1>1. \A o \in Voiced : o = Silent
  BY DEF Init, Voiced, NoRequest, NoReply
<1>2. \A c \in Command : Silent[c] = "none"
  BY DEF Silent
<1> QED
  BY <1>1, <1>2, InitType
     DEF Init, Custody, Queued, Recording, NoReply, ForgottenWasAcked, CompliantIsSpared

LEMMA AlwaysCustody == Spec => []Custody
  BY InitCustody, StepCustody, PTL DEF Spec

\* A wipe a device has erased itself for is never open or handed over again.
THEOREM WipedOnlyOnce == Spec => []ErasedOnce
<1>1. Custody => ErasedOnce
  BY DEF Custody, Recording, ErasedOnce, Closed, Finished, IsOpen, Open
<1> QED
  BY <1>1, AlwaysCustody, PTL

\* A record goes only after its device said it would carry out a disenroll.
THEOREM OnlyAckedIsForgotten == Spec => []ForgottenWasAcked
<1>1. Custody => ForgottenWasAcked
  BY DEF Custody
<1> QED
  BY <1>1, AlwaysCustody, PTL

\* A device that checks in compliant is not handed a wipe of the rules.
THEOREM RecoveredIsSpared == Spec => []CompliantIsSpared
<1>1. Custody => CompliantIsSpared
  BY DEF Custody
<1> QED
  BY <1>1, AlwaysCustody, PTL

=============================================================================
