------------------------------- MODULE Identity -------------------------------
(***************************************************************************)
(* Who a tablet is: enrolment through a limited QR, the security code that *)
(* stands in for a proof by the hardware, and the certificates that let    *)
(* the tablet in.                                                          *)
(*                                                                         *)
(* Two tablets' enrolments overlap, and console forms overlap both: an     *)
(* enrolment reads first, and claims its use of the QR and commits later.  *)
(* A tablet's enrolments and renewals are made one after the other; codes  *)
(* typed are checked while others are.  Any answer may be lost after the   *)
(* commit.  A factory reset takes the key and with it the certificate.     *)
(***************************************************************************)
EXTENDS Integers, FiniteSets

CONSTANTS
    Tablet,
    Typing,         \* slots for codes that are being checked at once
    MaxUses,        \* EnrollmentQrRecipe.max_uses
    MaxGuesses,     \* bypass_pin.MAX_ATTEMPTS
    MaxCertificates,\* bound: certificates ever issued
    MaxEvents       \* bound: what operators do, wipes, and codes typed

VARIABLES
    record,     \* record[t]: "none" or Device.enrollment_state
    certificate,\* device_certificate: number, owner, key, age, revoked
    uses,       \* the recipe's use_count
    revokedQr,  \* the recipe forgotten, or expired
    attempts,   \* Device.bypass_attempts, and EnrollmentToken.bypass_attempts
    onHold,     \* whether an enrollment_hold is open
    barred,     \* breach mode engaged, or a disenrolment not yet acknowledged
    key,        \* key[t]: which key is in the tablet's keystore
    holds,      \* holds[t]: the certificate it holds, 0 for none
    enrolling,  \* enrolling[t]: what its enrolment in progress has read
    typing,     \* typing[k]: a code being checked, and the attempts its request read
    \* for the properties
    joined,     \* enrolments committed through the QR
    guesses,    \* wrong codes compared since the last right one or reset
    overwritten,\* of these, at most how many another's write took out of the count
    events

server == <<record, certificate, uses, revokedQr, attempts, onHold, barred>>
tablet == <<key, holds>>
tally == <<guesses, overwritten>>
vars == <<server, tablet, enrolling, typing, joined, tally, events>>

Of(t) == {c \in certificate : c.of = t}
Held(t) == {c \in Of(t) : c.number = holds[t]}
NextNumber == Cardinality(certificate) + 1
Event == events < MaxEvents /\ events' = events + 1
\* Room for a renewal, with the enrolments still to come counted.
Room == Cardinality(certificate) + MaxUses - uses < MaxCertificates
NotEnrolling == [stage |-> "idle", saw |-> "none", byCode |-> FALSE]

\* Codes are counted per device, and per enrollment token before there is one; every
\* tablet that scans the QR is on the same token.
Counter == Tablet \cup {"token"}
Screens == {"enroll", "reinstate", "device", "token"}
NoCode == [of |-> "none", screen |-> "none", saw |-> 0, missed |-> 0]

Init ==
    /\ record = [t \in Tablet |-> "none"]
    /\ certificate = {} /\ uses = 0 /\ revokedQr = FALSE
    /\ attempts = [x \in Counter |-> 0]
    /\ onHold = [t \in Tablet |-> FALSE]
    /\ barred = [t \in Tablet |-> FALSE]
    /\ key = [t \in Tablet |-> 1] /\ holds = [t \in Tablet |-> 0]
    /\ enrolling = [t \in Tablet |-> NotEnrolling]
    /\ typing = [k \in Typing |-> NoCode]
    /\ joined = 0 /\ events = 0
    /\ guesses = [x \in Counter |-> 0] /\ overwritten = [x \in Counter |-> 0]

Issue(t) == [number |-> NextNumber, of |-> t, key |-> key[t], age |-> "fresh", revoked |-> FALSE]
Revoked(cs) == {[c EXCEPT !.revoked = TRUE] : c \in cs}

\* The answer with the certificate arrives, or is lost.
Answered(t, c) ==
    \/ holds' = [holds EXCEPT ![t] = c.number]
    \/ UNCHANGED holds

-----------------------------------------------------------------------------
(* The security code                                                       *)

QrIsLive == ~revokedQr /\ uses < MaxUses

\* deps.authenticated_device.
LetIn(t) ==
    /\ record[t] = "enrolled"
    /\ \E c \in Held(t) : ~c.revoked /\ c.age # "expired"

\* reinstatement.blocked_reason
MayReinstate(t, h) == record[t] = "enrolled" /\ ~h.revoked /\ ~barred[t]

\* Where a code may be typed: at an enrolment the hardware does not vouch for, at a
\* restore, on the permission screen of a tablet enrolled and of one not yet.
MayType(t, screen) ==
    \/ /\ screen = "enroll" /\ enrolling[t].stage = "idle" /\ holds[t] = 0 /\ QrIsLive
       /\ record[t] = "enrolled" /\ ~barred[t]
    \/ screen = "reinstate" /\ \E h \in Held(t) : h.age = "expired" /\ MayReinstate(t, h)
    \/ screen = "device" /\ LetIn(t)
    \/ screen = "token" /\ holds[t] = 0 /\ QrIsLive

\* The request reads the row that counts its attempts.  With none left nothing is
\* compared.
ReadAttempts(k, t, screen) ==
    LET x == IF screen = "token" THEN "token" ELSE t
    IN  /\ typing[k] = NoCode /\ MayType(t, screen) /\ Event
        /\ attempts[x] < MaxGuesses
        /\ typing' = [typing EXCEPT ![k] = [of |-> x, screen |-> screen,
                                            saw |-> attempts[x], missed |-> 0]]
        /\ UNCHANGED <<server, tablet, enrolling, joined, tally>>

SpendNone(k) == UNCHANGED attempts     \* mutant: the refusal rolls the attempt back
\* The attempt is spent by value: what the request read, and one more.
Spend(k) == attempts' = [attempts EXCEPT ![typing[k].of] = typing[k].saw + 1]

\* bypass_pin.verify with a wrong code: spent before it is compared, and committed
\* whatever the answer, with the hold of an enrolment.  Codes counted for the same row
\* since this request read it are written over.
WrongCode(k) ==
    LET x == typing[k].of
    IN  /\ x # "none"
        /\ Spend(k)
        /\ guesses' = [guesses EXCEPT ![x] = @ + 1]
        /\ overwritten' = [overwritten EXCEPT ![x] = @ + typing[k].missed]
        /\ typing' = [j \in Typing |->
                         IF j = k THEN NoCode
                         ELSE IF typing[j].of = x
                              THEN [typing[j] EXCEPT !.missed = @ + 1]
                              ELSE typing[j]]
        /\ onHold' = IF typing[k].screen = "enroll" THEN [onHold EXCEPT ![x] = TRUE] ELSE onHold
        /\ UNCHANGED <<record, certificate, uses, revokedQr, barred, tablet, enrolling, joined,
                       events>>

\* The count starts again.
Forgive(x) ==
    /\ attempts' = [attempts EXCEPT ![x] = 0]
    /\ guesses' = [guesses EXCEPT ![x] = 0]
    /\ overwritten' = [overwritten EXCEPT ![x] = 0]

\* The right code, on a screen that only asks for it.
RightCode(k) ==
    /\ typing[k].screen \in {"device", "token"}
    /\ Forgive(typing[k].of)
    /\ typing' = [typing EXCEPT ![k] = NoCode]
    /\ UNCHANGED <<record, certificate, uses, revokedQr, onHold, barred, tablet, enrolling,
                   joined, events>>

-----------------------------------------------------------------------------
(* Enrolment                                                               *)

\* enroll_device up to its first write: a record already enrolled is taken over
\* on the hardware's word or on the code, a retired one never.
BeginEnroll(t) ==
    /\ enrolling[t].stage = "idle" /\ holds[t] = 0 /\ QrIsLive
    /\ record[t] # "retired"
    /\ \E byCode \in BOOLEAN :
          /\ byCode => /\ record[t] = "enrolled" /\ ~barred[t]
                       /\ attempts[t] < MaxGuesses
          /\ enrolling' = [enrolling EXCEPT ![t] =
                              [stage |-> "begun", saw |-> record[t], byCode |-> byCode]]
    /\ UNCHANGED <<server, tablet, typing, joined, tally, events>>

\* No proof and no code: the hold is kept, and nothing else changes.
HeldForCode(t) ==
    /\ enrolling[t].stage = "idle" /\ holds[t] = 0 /\ QrIsLive
    /\ record[t] = "enrolled"
    /\ onHold' = [onHold EXCEPT ![t] = TRUE]
    /\ UNCHANGED <<record, certificate, uses, revokedQr, attempts, barred, tablet, enrolling,
                   typing, joined, tally, events>>

ClaimAsRead == TRUE     \* mutant: the use is counted without asking again
\* qr_recipes.claim: one conditional update.
Claim == QrIsLive

\* mutant: the certificates of the tablet's last life are left standing
KeepOld(t) == certificate
RevokeOld(t) == (certificate \ Of(t)) \cup Revoked(Of(t))

\* mutant: the state is written whatever was read
NewStateAlways(t) == "enrolled"
\* The session writes a column it changed: a record it read as enrolled keeps
\* what another request made of it meanwhile.
NewState(t) == IF enrolling[t].saw = "enrolled" THEN record[t] ELSE "enrolled"

CommitEnroll(t) ==
    LET c == Issue(t)
    IN  /\ enrolling[t].stage = "begun"
        /\ Claim
        /\ enrolling[t].saw # "none" => record[t] # "none"
        /\ record' = [record EXCEPT ![t] = NewState(t)]
        /\ certificate' = RevokeOld(t) \cup {c}
        /\ uses' = uses + 1 /\ joined' = joined + 1
        /\ onHold' = [onHold EXCEPT ![t] = FALSE]
        /\ IF enrolling[t].byCode THEN Forgive(t) ELSE UNCHANGED <<attempts, tally>>
        /\ enrolling' = [enrolling EXCEPT ![t] = NotEnrolling]
        /\ Answered(t, c)
        /\ UNCHANGED <<revokedQr, barred, key, typing, events>>

\* The last use is gone, or the record: everything is rolled back.
RefuseEnroll(t) ==
    /\ enrolling[t].stage = "begun"
    /\ ~Claim \/ (enrolling[t].saw # "none" /\ record[t] = "none")
    /\ enrolling' = [enrolling EXCEPT ![t] = NotEnrolling]
    /\ UNCHANGED <<server, tablet, typing, joined, tally, events>>

-----------------------------------------------------------------------------
(* Certificates                                                            *)

\* A dead QR or a retired record, and a certificate that lets nobody in: refused
\* with nothing written.
TurnAway(t) ==
    /\ \/ holds[t] # 0 /\ ~LetIn(t)
       \/ /\ enrolling[t].stage = "idle" /\ holds[t] = 0
          /\ ~QrIsLive \/ record[t] = "retired"
    /\ UNCHANGED <<server, tablet, enrolling, typing, joined, tally, events>>

\* Any request of a device let in that is none of the ones below.
Serve(t) == LetIn(t) /\ UNCHANGED <<server, tablet, enrolling, typing, joined, tally, events>>

\* mutant: the certificate presented is withdrawn when its successor is issued
RenewAndRevoke(t) ==
    LET c == Issue(t)
    IN  /\ LetIn(t) /\ \E h \in Held(t) : h.age = "due"
        /\ Room
        /\ certificate' = (certificate \ Held(t)) \cup Revoked(Held(t)) \cup {c}
        /\ Answered(t, c)
        /\ UNCHANGED <<record, uses, revokedQr, attempts, onHold, barred, key, enrolling,
                       typing, joined, tally, events>>
\* certificate_renewal.renew, over the key it has; the old one stays.
Renew(t) ==
    LET c == Issue(t)
    IN  /\ LetIn(t) /\ \E h \in Held(t) : h.age = "due"
        /\ Room
        /\ certificate' = certificate \cup {c}
        /\ Answered(t, c)
        /\ UNCHANGED <<record, uses, revokedQr, attempts, onHold, barred, key, enrolling,
                       typing, joined, tally, events>>

\* reinstate: an expired certificate, the same key and the code.  What brought
\* the tablet back is spent.
Reinstate(t) ==
    \E h \in Held(t) :
        LET c == Issue(t)
        IN  /\ h.age = "expired" /\ MayReinstate(t, h)
            /\ attempts[t] < MaxGuesses /\ Room
            /\ Forgive(t)
            /\ certificate' = (certificate \ {h}) \cup Revoked({h}) \cup {c}
            /\ Answered(t, c)
            /\ UNCHANGED <<record, uses, revokedQr, onHold, barred, key, enrolling, typing,
                           joined, events>>

-----------------------------------------------------------------------------
(* Operators, time and the tablet's own mishaps                            *)

ResetAttempts(t) ==
    /\ attempts[t] > 0 /\ Event
    /\ Forgive(t)
    /\ UNCHANGED <<record, certificate, uses, revokedQr, onHold, barred, tablet, enrolling,
                   typing, joined>>

Retire(t) ==
    /\ record[t] \in {"pending", "enrolled"} /\ Event
    /\ record' = [record EXCEPT ![t] = "retired"]
    /\ certificate' = RevokeOld(t)
    /\ UNCHANGED <<uses, revokedQr, attempts, onHold, barred, tablet, enrolling, typing, joined,
                   tally>>

\* The rows of a deleted record go with it, and a code being checked against it.
Delete(t) ==
    /\ record[t] = "retired" /\ Event
    /\ record' = [record EXCEPT ![t] = "none"]
    /\ certificate' = (certificate \ Of(t)) \cup {[c EXCEPT !.of = "deleted"] : c \in Of(t)}
    /\ Forgive(t)
    /\ onHold' = [onHold EXCEPT ![t] = FALSE]
    /\ barred' = [barred EXCEPT ![t] = FALSE]
    /\ typing' = [k \in Typing |-> IF typing[k].of = t THEN NoCode ELSE typing[k]]
    /\ UNCHANGED <<uses, revokedQr, tablet, enrolling, joined>>

\* Inventory registered before the tablet enrols.
Register(t) ==
    /\ record[t] = "none" /\ enrolling[t].stage = "idle" /\ Event
    /\ record' = [record EXCEPT ![t] = "pending"]
    /\ UNCHANGED <<certificate, uses, revokedQr, attempts, onHold, barred, tablet, enrolling,
                   typing, joined, tally>>

SetBarred(t) ==
    /\ record[t] = "enrolled" /\ Event
    /\ barred' = [barred EXCEPT ![t] = ~@]
    /\ UNCHANGED <<record, certificate, uses, revokedQr, attempts, onHold, tablet, enrolling,
                   typing, joined, tally>>

EndQr ==
    /\ ~revokedQr /\ Event
    /\ revokedQr' = TRUE
    /\ UNCHANGED <<record, certificate, uses, attempts, onHold, barred, tablet, enrolling,
                   typing, joined, tally>>

Wipe(t) ==
    /\ holds[t] # 0 /\ Event
    /\ key' = [key EXCEPT ![t] = @ + 1]
    /\ holds' = [holds EXCEPT ![t] = 0]
    /\ UNCHANGED <<server, enrolling, typing, joined, tally>>

Grow(c) ==
    /\ c.age # "expired" /\ c.of # "deleted" /\ ~c.revoked /\ Event
    /\ certificate' = (certificate \ {c})
                        \cup {[c EXCEPT !.age = IF c.age = "fresh" THEN "due" ELSE "expired"]}
    /\ UNCHANGED <<record, uses, revokedQr, attempts, onHold, barred, tablet, enrolling,
                   typing, joined, tally>>

\* A hold lapses by itself.
Lapse(t) ==
    /\ onHold[t] /\ onHold' = [onHold EXCEPT ![t] = FALSE]
    /\ UNCHANGED <<record, certificate, uses, revokedQr, attempts, barred, tablet, enrolling,
                   typing, joined, tally, events>>

Next ==
    \/ \E t \in Tablet :
          \/ BeginEnroll(t) \/ TurnAway(t) \/ HeldForCode(t) \/ CommitEnroll(t) \/ RefuseEnroll(t)
          \/ Serve(t) \/ Renew(t) \/ Reinstate(t)
          \/ ResetAttempts(t) \/ Retire(t) \/ Delete(t) \/ Register(t) \/ SetBarred(t)
          \/ Wipe(t) \/ Lapse(t)
    \/ \E k \in Typing :
          \/ WrongCode(k) \/ RightCode(k)
          \/ \E t \in Tablet, screen \in Screens : ReadAttempts(k, t, screen)
    \/ EndQr
    \/ \E c \in certificate : Grow(c)

Spec == Init /\ [][Next]_vars

-----------------------------------------------------------------------------
(* Properties                                                              *)

\* A limited QR enrols no more devices than it allows, however many enrolments
\* that found it live overlap (qr_recipes.claim).
QrIsNotOverspent == joined <= MaxUses

\* Every certificate that still lets anybody in is for the key the tablet last
\* enrolled with: a wipe and a new enrolment, a retirement and a deletion leave
\* nothing of the earlier life usable (revoke_device_certificates).
OldKeysAreOut ==
    \A t \in Tablet : \A c, e \in Of(t) : ~c.revoked => e.key <= c.key

\* A tablet that is enrolled and holds a certificate that has not expired is let
\* in: no lost answer, to a renewal or anything else, costs it the credential
\* it has (certificate_renewal, "the old certificate is not revoked").
NeverCutOff ==
    \A t \in Tablet : \A c \in Held(t) :
        record[t] = "enrolled" /\ c.age # "expired" => ~c.revoked

\* Wrong codes are counted over every screen that takes one, per device and per token,
\* so that no more than the limit are compared until a right one or an operator's reset,
\* but for as many as a check that overlapped them has written over (verify).
GuessesAreCapped == \A x \in Counter : guesses[x] <= MaxGuesses + overwritten[x]

\* A retired record is never enrolled again, by an enrolment that began before
\* it was retired either, unless that began with inventory never yet enrolled:
\* there the enrolment's write is the later one and stands (RetiredDeviceError).
RetiredStaysOut ==
    [][\A t \in Tablet : record[t] = "retired" /\ record'[t] = "enrolled"
                            => enrolling[t].saw = "pending"]_vars
=============================================================================
