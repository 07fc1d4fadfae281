-------------------------------- MODULE Alerts --------------------------------
(***************************************************************************)
(* Alerting: a sweep that checks conditions, raises and clears, and mails  *)
(* what is not yet marked as sent, beside requests that record events.     *)
(*                                                                         *)
(* One background thread sweeps, in one database session: what it has not  *)
(* committed when the pass ends, fails or dies with the process is rolled  *)
(* back.  A pass commits after the compliance check if a verdict changed,  *)
(* after raising if it raised, and after sending if it sent.               *)
(*                                                                         *)
(* There is one rule of the kind that watches a condition (a silent        *)
(* device) and one for an event; `spell` says which stretch of the         *)
(* condition an occurrence was raised in.                                  *)
(***************************************************************************)
EXTENDS Integers, FiniteSets

CONSTANTS
    Watched,    \* devices
    MaxChanges, \* bound: what operators do and what befalls devices
    MaxRaised,  \* bound: occurrences ever recorded
    MaxCrashes  \* bound: restarts of the server

VARIABLES
    occurrence, \* alert_occurrence, committed
    rules,      \* the rules that exist and are enabled, of {"stale", "event"}
    listed,     \* whether anybody is on the list and a mail server is set
    quiet,      \* quiet[d]: the condition, as the rule reads it
    failing,    \* failing[d]: whether d breaks its compliance rules
    verdict,    \* verdict[d]: Device.rules_status, failing or not
    pass,       \* the sweep: its stage and what it has not committed
    \* for the properties
    spell,      \* spell[d]: how often d has gone quiet
    mailed,     \* occurrences that were in a mail
    changes, crashes, raised

server == <<occurrence, rules, listed, verdict>>
world == <<quiet, failing, spell, changes>>
vars == <<server, world, pass, mailed, crashes, raised>>

Ids == 1 .. MaxRaised
Asleep == [stage |-> "asleep", cleared |-> {}, marked |-> {}, mail |-> {}]
Change == changes < MaxChanges /\ changes' = changes + 1

Init ==
    /\ occurrence = {} /\ rules = {"stale", "event"} /\ listed = TRUE
    /\ quiet = [d \in Watched |-> FALSE]
    /\ failing = [d \in Watched |-> FALSE] /\ verdict = [d \in Watched |-> FALSE]
    /\ pass = Asleep
    /\ spell = [d \in Watched |-> 0]
    /\ mailed = {}
    /\ changes = 0 /\ crashes = 0 /\ raised = 0

-----------------------------------------------------------------------------
(* Occurrences                                                             *)

\* mutant: a condition is raised again while it is open
NothingOpen(d) == {}
OpenFor(d) == {o \in occurrence : o.rule = "stale" /\ o.device = d /\ o.open}

Untold == {o \in occurrence : ~o.told}

\* record_event: written already closed.
Event(d, n) == [id |-> n, rule |-> "event", device |-> d, open |-> FALSE,
                told |-> FALSE, spell |-> 0]
Condition(d, n) == [id |-> n, rule |-> "stale", device |-> d, open |-> TRUE,
                    told |-> FALSE, spell |-> spell[d]]

\* What the session's changes make of the table.
Written(cleared, marked) ==
    {[o EXCEPT !.open = @ /\ o.id \notin cleared, !.told = @ \/ o.id \in marked] :
        o \in occurrence}

-----------------------------------------------------------------------------
(* One pass of sweep_alert_conditions                                      *)

\* compliance_rules.sweep: a changed verdict is an event, and commits.
SweepCompliance ==
    LET changed == {d \in Watched : verdict[d] # failing[d]}
    IN  /\ pass.stage = "asleep"
        /\ raised + Cardinality(changed) <= MaxRaised
        /\ verdict' = failing
        /\ IF "event" \in rules
           THEN \E number \in [changed -> Ids] :
                   /\ \A d \in changed : \E k \in 1 .. Cardinality(changed) :
                         number[d] = raised + k
                   /\ \A d, e \in changed : number[d] = number[e] => d = e
                   /\ occurrence' = occurrence \cup {Event(d, number[d]) : d \in changed}
                   /\ raised' = raised + Cardinality(changed)
           ELSE UNCHANGED <<occurrence, raised>>
        /\ pass' = [Asleep EXCEPT !.stage = "checked"]
        /\ UNCHANGED <<rules, listed, world, mailed, crashes>>

\* alerts.evaluate.  Devices are looked at in some order, and what is cleared
\* is committed with what is raised, or not yet.
Evaluate ==
    LET watching == "stale" \in rules
        new == IF watching THEN {d \in Watched : quiet[d] /\ OpenFor(d) = {}} ELSE {}
        over == IF watching
                THEN {o.id : o \in UNION {OpenFor(d) : d \in {e \in Watched : ~quiet[e]}}}
                ELSE {}
    IN  /\ pass.stage = "checked"
        /\ raised + Cardinality(new) <= MaxRaised
        /\ \/ /\ new = {}
              /\ pass' = [pass EXCEPT !.stage = "evaluated", !.cleared = over]
              /\ UNCHANGED <<occurrence, raised>>
           \/ /\ new # {}
              /\ \E number \in [new -> raised + 1 .. raised + Cardinality(new)] :
                    /\ \A d, e \in new : number[d] = number[e] => d = e
                    /\ occurrence' = Written(over, {})
                                       \cup {Condition(d, number[d]) : d \in new}
              /\ raised' = raised + Cardinality(new)
              /\ pass' = [pass EXCEPT !.stage = "evaluated"]
        /\ UNCHANGED <<rules, listed, verdict, world, mailed, crashes>>

\* notify: nothing to say ends the pass with no further commit, and so does
\* having nobody to say it to, which marks what it discards and returns 0; else
\* one mail is composed of all of it.
NothingToSay ==
    /\ pass.stage = "evaluated"
    /\ Untold = {} \/ ~listed
    /\ pass' = Asleep
    /\ UNCHANGED <<server, world, mailed, crashes, raised>>

Compose ==
    /\ pass.stage = "evaluated" /\ Untold # {} /\ listed
    /\ pass' = [pass EXCEPT !.stage = "sending", !.mail = {o.id : o \in Untold}]
    /\ UNCHANGED <<server, world, mailed, crashes, raised>>

Send ==
    /\ pass.stage = "sending"
    /\ mailed' = mailed \cup pass.mail
    /\ pass' = [pass EXCEPT !.stage = "sent", !.marked = pass.mail]
    /\ UNCHANGED <<server, world, crashes, raised>>

\* mutant: a refused mail is marked as sent
FailAndMark ==
    /\ pass.stage = "sending"
    /\ pass' = [pass EXCEPT !.stage = "sent", !.marked = pass.mail]
    /\ UNCHANGED <<server, world, mailed, crashes, raised>>
\* The relay refuses: nothing is marked, and the next pass tries again.
FailToSend ==
    /\ pass.stage = "sending"
    /\ pass' = Asleep
    /\ UNCHANGED <<server, world, mailed, crashes, raised>>

\* mutant: a commit that finds a row gone leaves the others to be sent again
\* for ever, as nothing it sent is ever marked
CommitNothing ==
    /\ pass.stage = "sent"
    /\ pass' = Asleep
    /\ UNCHANGED <<server, world, mailed, crashes, raised>>
\* An update of a row that is gone fails the whole flush, and the pass with it.
CommitSent ==
    /\ pass.stage = "sent"
    /\ IF pass.marked \cup pass.cleared \subseteq {o.id : o \in occurrence}
       THEN occurrence' = Written(pass.cleared, pass.marked)
       ELSE UNCHANGED occurrence
    /\ pass' = Asleep
    /\ UNCHANGED <<rules, listed, verdict, world, mailed, crashes, raised>>

Crash ==
    /\ pass.stage # "asleep" /\ crashes < MaxCrashes
    /\ crashes' = crashes + 1
    /\ pass' = Asleep
    /\ UNCHANGED <<server, world, mailed, raised>>

-----------------------------------------------------------------------------
(* Requests, operators and devices                                         *)

\* A request that enrols, engages a breach, ... notes its event and commits.
NoteEvent(d) ==
    /\ Change /\ "event" \in rules /\ raised < MaxRaised
    /\ occurrence' = occurrence \cup {Event(d, raised + 1)}
    /\ raised' = raised + 1
    /\ UNCHANGED <<rules, listed, verdict, quiet, failing, spell, pass, mailed, crashes>>

SetEnabled(r) ==
    /\ Change
    /\ rules' = IF r \in rules THEN rules \ {r} ELSE rules \cup {r}
    /\ UNCHANGED <<occurrence, listed, verdict, quiet, failing, spell, pass, mailed,
                   crashes, raised>>

\* Removing a rule removes its occurrences; one like it may be written anew.
RemoveRule(r) ==
    /\ Change /\ r \in rules
    /\ occurrence' = {o \in occurrence : o.rule # r}
    /\ UNCHANGED <<rules, listed, verdict, quiet, failing, spell, pass, mailed,
                   crashes, raised>>

SetListed ==
    /\ Change /\ listed' = ~listed
    /\ UNCHANGED <<occurrence, rules, verdict, quiet, failing, spell, pass, mailed, crashes,
                   raised>>

GoQuiet(d) ==
    /\ Change
    /\ quiet' = [quiet EXCEPT ![d] = ~@]
    /\ spell' = IF quiet[d] THEN spell ELSE [spell EXCEPT ![d] = @ + 1]
    /\ UNCHANGED <<server, failing, pass, mailed, crashes, raised>>

Fail(d) ==
    /\ Change
    /\ failing' = [failing EXCEPT ![d] = ~@]
    /\ UNCHANGED <<server, quiet, spell, pass, mailed, crashes, raised>>

Next ==
    \/ SweepCompliance \/ Evaluate \/ NothingToSay \/ Compose
    \/ Send \/ FailToSend \/ CommitSent \/ Crash
    \/ \E d \in Watched : NoteEvent(d) \/ GoQuiet(d) \/ Fail(d)
    \/ \E r \in {"stale", "event"} : SetEnabled(r) \/ RemoveRule(r)
    \/ SetListed

\* The thread keeps its schedule whatever a pass comes to, and a relay that is
\* tried again and again takes the mail in the end.
Sweep == SweepCompliance \/ Evaluate \/ NothingToSay \/ Compose \/ CommitSent
Spec == Init /\ [][Next]_vars
FairSpec == Spec /\ WF_vars(Sweep) /\ SF_vars(Send)

-----------------------------------------------------------------------------
(* Properties                                                              *)

\* Nothing is marked as sent but what was in a mail: not by a refused mail, a
\* crash, or for having been recorded while one was being sent (alerts.notify:
\* "nothing is marked sent unless the send succeeded").
SentIsTrue == \A o \in occurrence : o.told => o.id \in mailed

\* One stretch of silence is reported once, over any number of passes, failed
\* sends and restarts, while the rule is not written anew (alerts.raise_state).
OncePerSpell ==
    \A o, p \in occurrence :
        /\ o.rule = "stale" /\ p.rule = "stale" /\ o.device = p.device
        /\ o.spell = p.spell
        => o = p

\* While there is somebody to tell, what is to be told is told: again and again
\* nothing is left over, though mails be refused, passes die, and rules be
\* removed under them (alerts.notify, and the loop of _start_alert_sweeper).
EveryAlertIsSent == []<>(Untold = {} \/ ~listed)

=============================================================================
