---------------------------- MODULE DesiredState ----------------------------
(***************************************************************************)
(* What the policy engine promises the fleet, with no cache, no staleness  *)
(* flag, no horizon and no "you already have this version" short answer.   *)
(*                                                                         *)
(* Each device has a desired state that anything on the server may move.   *)
(* Whenever the server settles a device it records the state that is       *)
(* wanted at that very instant, and moves the version exactly when that    *)
(* differs from what it recorded before.  An answer to a check-in carries  *)
(* that version and that state, and a device that takes an answer holds    *)
(* both.  Convergence.tla is the program that implements this with a       *)
(* cached payload and with answers that usually carry no document.         *)
(***************************************************************************)
EXTENDS Naturals

CONSTANTS
    Device,     \* the enrolled devices
    Content,    \* the resolved desired states a device can be given
    NoContent   \* what a device fresh out of a wipe holds

VARIABLES
    wanted,     \* wanted[d]: what the server's inputs say d should have now
    recorded,   \* recorded[d]: the state version[d] stands for
    version,    \* version[d]: Device.state_version
    held,       \* held[d]: the version d holds, 0 before its first document
    has,        \* has[d]: the state d holds
    answer      \* answer[d]: an answer on its way to d, or NoAnswer

vars == <<wanted, recorded, version, held, has, answer>>

NoAnswer == [version |-> 0, content |-> NoContent]

Init ==
    /\ wanted \in [Device -> Content]
    /\ recorded = wanted
    /\ version = [d \in Device |-> 1]
    /\ held = [d \in Device |-> 0]
    /\ has = [d \in Device |-> NoContent]
    /\ answer = [d \in Device |-> NoAnswer]

\* Operators, schedules and uploads move what is wanted, for any devices.
Move ==
    /\ wanted' \in [Device -> Content]
    /\ UNCHANGED <<recorded, version, held, has, answer>>

\* The server's record of d catches up with what is wanted of d, where the
\* occasion may itself move what is wanted of d (the device reported a fact).
Record(d) ==
    /\ wanted' \in [Device -> Content]
    /\ \A e \in Device \ {d} : wanted'[e] = wanted[e]
    /\ recorded' = [recorded EXCEPT ![d] = wanted'[d]]
    /\ version' = [version EXCEPT ![d] =
                      IF recorded'[d] = recorded[d] THEN @ ELSE @ + 1]

\* Something asked what d should have, and d itself got no answer.
Settle(d) ==
    /\ Record(d)
    /\ UNCHANGED <<held, has, answer>>

\* d asked, and its answer is what the server has just recorded.
Answer(d) ==
    /\ Record(d)
    /\ answer' = [answer EXCEPT ![d] =
                     [version |-> version'[d], content |-> recorded'[d]]]
    /\ UNCHANGED <<held, has>>

\* d takes its answer.
Take(d) ==
    /\ answer[d] # NoAnswer
    /\ held' = [held EXCEPT ![d] = answer[d].version]
    /\ has' = [has EXCEPT ![d] = answer[d].content]
    /\ answer' = [answer EXCEPT ![d] = NoAnswer]
    /\ UNCHANGED <<wanted, recorded, version>>

\* The answer is lost on the way.
Drop(d) ==
    /\ answer[d] # NoAnswer
    /\ answer' = [answer EXCEPT ![d] = NoAnswer]
    /\ UNCHANGED <<wanted, recorded, version, held, has>>

\* d is wiped and enrolled again: it holds nothing, and is settled at once.
Wipe(d) ==
    /\ Record(d)
    /\ held' = [held EXCEPT ![d] = 0]
    /\ has' = [has EXCEPT ![d] = NoContent]
    /\ answer' = [answer EXCEPT ![d] = NoAnswer]

Next ==
    \/ Move
    \/ \E d \in Device :
          Settle(d) \/ Answer(d) \/ Take(d) \/ Drop(d) \/ Wipe(d)

Spec == Init /\ [][Next]_vars

=============================================================================
