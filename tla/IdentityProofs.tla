----------------------------- MODULE IdentityProofs -----------------------------
(***************************************************************************)
(* The inductive invariant of Identity, for any tablets, any number of     *)
(* uses of the QR, guesses and events.  ServicesProofs concludes from it.  *)
(***************************************************************************)
EXTENDS Identity, FunctionTheorems, FiniteSetTheorems, TLAPS

\* What the constants are.
ConstantsFit == MaxUses \in Nat /\ MaxGuesses \in Nat /\ "deleted" \notin Tablet

-----------------------------------------------------------------------------
(* Counters                                                                *)

Codes == [of : Counter, screen : Screens, saw : 0 .. MaxGuesses - 1, missed : Nat]

\* The uses are what was claimed, one at a time; every wrong code was counted, or was
\* written over by one that had not seen it: what a check will write, and the codes it has
\* missed, make up for what was compared.
Counted ==
    /\ uses \in 0 .. MaxUses /\ joined = uses
    /\ attempts \in [Counter -> 0 .. MaxGuesses]
    /\ guesses \in [Counter -> Nat] /\ overwritten \in [Counter -> Nat]
    /\ typing \in [Typing -> Codes \cup {NoCode}]
    /\ \A x \in Counter : guesses[x] <= attempts[x] + overwritten[x]
    /\ \A k \in Typing : typing[k] # NoCode =>
          guesses[typing[k].of]
             <= typing[k].saw + typing[k].missed + overwritten[typing[k].of]

-----------------------------------------------------------------------------
(* Enrolments                                                              *)

States == {"none", "pending", "enrolled", "retired"}
Enrolments == [stage : {"idle", "begun"}, saw : {"none", "pending", "enrolled"},
               byCode : BOOLEAN]
Certificates == [number : Nat \ {0}, of : Tablet \cup {"deleted"}, key : Nat,
                 age : {"fresh", "due", "expired"}, revoked : BOOLEAN]

\* A tablet that is enrolling holds nothing, and no record is made under an
\* enrolment that found none.
Enrolling ==
    /\ record \in [Tablet -> States] /\ enrolling \in [Tablet -> Enrolments]
    /\ holds \in [Tablet -> Nat] /\ key \in [Tablet -> Nat]
    /\ certificate \subseteq Certificates
    /\ \A t \in Tablet : enrolling[t].stage = "begun" =>
          holds[t] = 0 /\ (enrolling[t].saw = "none" => record[t] = "none")

-----------------------------------------------------------------------------
(* Certificates                                                            *)

\* A number is one certificate's, and the next is nobody's yet.
Numbered(C) ==
    /\ IsFiniteSet(C)
    /\ \A c \in C : c.number <= Cardinality(C)
    /\ \A c, e \in C : c.number = e.number => c = e

\* No certificate is for a key the tablet has yet to make, the one it holds is for
\* the key it has, and it holds none that was not issued.
Keyed ==
    \A t \in Tablet :
        /\ holds[t] <= Cardinality(certificate)
        /\ \A c \in Of(t) : c.key <= key[t]
        /\ \A c \in Held(t) : c.key = key[t]

LetsIn == Counted /\ Enrolling /\ Numbered(certificate) /\ Keyed /\ OldKeysAreOut /\ NeverCutOff

-----------------------------------------------------------------------------
(* The start                                                               *)

LEMMA InitLetsIn == ConstantsFit /\ Init => LetsIn
<1> SUFFICES ASSUME ConstantsFit, Init PROVE LetsIn
  OBVIOUS
<1>1. Counted
  BY DEF ConstantsFit, Init, Counted
<1>2. Enrolling
  BY DEF Init, Enrolling, States, Enrolments, NotEnrolling
<1>3. Numbered(certificate) /\ Cardinality(certificate) = 0
  BY FS_EmptySet DEF Init, Numbered
<1>4. Keyed /\ OldKeysAreOut /\ NeverCutOff
  BY <1>3 DEF Init, Keyed, Of, Held, OldKeysAreOut, NeverCutOff
<1> QED
  BY <1>1, <1>2, <1>3, <1>4 DEF LetsIn

-----------------------------------------------------------------------------
(* Counters, step by step                                                  *)

\* A code that is counted again from the start.
LEMMA ForgivenIsCounted ==
    ASSUME ConstantsFit, Counted, NEW x \in Counter, Forgive(x),
           typing' \in [Typing -> Codes \cup {NoCode}],
           \A k \in Typing : typing'[k] \in {typing[k], NoCode},
           uses' \in 0 .. MaxUses, joined' = uses'
    PROVE  Counted'
<1>1. /\ attempts' \in [Counter -> 0 .. MaxGuesses]
      /\ guesses' \in [Counter -> Nat] /\ overwritten' \in [Counter -> Nat]
      /\ guesses'[x] = 0
      /\ \A y \in Counter \ {x} : /\ attempts'[y] = attempts[y] /\ guesses'[y] = guesses[y]
                                  /\ overwritten'[y] = overwritten[y]
  BY DEF ConstantsFit, Counted, Forgive
<1>2. \A y \in Counter : guesses'[y] <= attempts'[y] + overwritten'[y]
  BY <1>1 DEF Counted
<1>3. ASSUME NEW k \in Typing, typing'[k] # NoCode
      PROVE  guesses'[typing'[k].of]
                <= typing'[k].saw + typing'[k].missed + overwritten'[typing'[k].of]
  <2>1. typing'[k] = typing[k] /\ typing[k] # NoCode
    BY <1>3
  <2>2. typing[k].of \in Counter /\ typing[k].saw \in Nat /\ typing[k].missed \in Nat
    BY <2>1 DEF Counted, Codes, ConstantsFit
  <2> QED
    BY <1>1, <2>1, <2>2 DEF Counted
<1> QED
  BY <1>1, <1>2, <1>3 DEF Counted

LEMMA WrongIsCounted ==
    ASSUME ConstantsFit, Counted, NEW k \in Typing, WrongCode(k)
    PROVE  Counted'
<1> DEFINE x == typing[k].of
<1>1. typing[k] # NoCode /\ UNCHANGED <<uses, joined>>
  BY DEF WrongCode, NoCode
<1>2. /\ x \in Counter /\ x # "none" /\ typing[k].saw \in 0 .. MaxGuesses - 1
      /\ typing[k].missed \in Nat
  BY <1>1 DEF Counted, Codes, WrongCode
<1>3. /\ attempts' = [attempts EXCEPT ![x] = typing[k].saw + 1]
      /\ guesses' = [guesses EXCEPT ![x] = @ + 1]
      /\ overwritten' = [overwritten EXCEPT ![x] = @ + typing[k].missed]
  BY DEF WrongCode, Spend
<1>4. \A j \in Typing :
         typing'[j] = IF j = k THEN NoCode
                      ELSE IF typing[j].of = x THEN [typing[j] EXCEPT !.missed = @ + 1]
                                               ELSE typing[j]
  BY DEF WrongCode
<1>5. /\ attempts' \in [Counter -> 0 .. MaxGuesses]
      /\ guesses' \in [Counter -> Nat] /\ overwritten' \in [Counter -> Nat]
      /\ attempts'[x] = typing[k].saw + 1 /\ guesses'[x] = guesses[x] + 1
      /\ overwritten'[x] = overwritten[x] + typing[k].missed
      /\ \A y \in Counter \ {x} : /\ attempts'[y] = attempts[y] /\ guesses'[y] = guesses[y]
                                  /\ overwritten'[y] = overwritten[y]
  BY <1>2, <1>3 DEF Counted, ConstantsFit
<1>6. \A j \in Typing : typing[j] # NoCode =>
         /\ typing[j] \in Codes /\ typing[j].of \in Counter
         /\ typing[j].saw \in Nat /\ typing[j].missed \in Nat
         /\ [typing[j] EXCEPT !.missed = @ + 1] \in Codes
  BY DEF Counted, Codes, ConstantsFit
<1>7. \A j \in Typing : typing[j].of = x => typing[j] # NoCode
  BY <1>2 DEF NoCode
<1>8. typing' \in [Typing -> Codes \cup {NoCode}]
  <2>1. \A j \in Typing : typing'[j] \in Codes \cup {NoCode}
    BY <1>4, <1>6, <1>7
  <2>2. typing' = [j \in Typing |-> typing'[j]]
    BY DEF WrongCode
  <2> QED
    BY <2>1, <2>2
<1>9. \A y \in Counter : guesses'[y] <= attempts'[y] + overwritten'[y]
  <2>1. guesses[x] <= typing[k].saw + typing[k].missed + overwritten[x]
    BY <1>1 DEF Counted
  <2>2. guesses'[x] <= attempts'[x] + overwritten'[x]
    BY <1>2, <1>5, <2>1 DEF Counted
  <2> QED
    BY <1>5, <2>2 DEF Counted
<1>10. ASSUME NEW j \in Typing, typing'[j] # NoCode
       PROVE  guesses'[typing'[j].of]
                 <= typing'[j].saw + typing'[j].missed + overwritten'[typing'[j].of]
  <2>1. j # k /\ typing[j] # NoCode
    BY <1>4, <1>7, <1>10
  <2>2. guesses[typing[j].of] <= typing[j].saw + typing[j].missed + overwritten[typing[j].of]
    BY <2>1 DEF Counted
  <2>3. CASE typing[j].of = x
    <3>1. /\ typing'[j].of = x /\ typing'[j].saw = typing[j].saw
          /\ typing'[j].missed = typing[j].missed + 1
      BY <1>4, <1>6, <2>1, <2>3 DEF Codes
    <3>2. /\ guesses[x] \in Nat /\ overwritten[x] \in Nat /\ typing[j].saw \in Nat
          /\ typing[j].missed \in Nat
      BY <1>2, <1>6, <2>1 DEF Counted
    <3> QED
      BY <1>2, <1>5, <2>2, <2>3, <3>1, <3>2
  <2>4. CASE typing[j].of # x
    <3>1. typing'[j] = typing[j] /\ typing[j].of \in Counter \ {x}
      BY <1>4, <1>6, <2>1, <2>4
    <3> QED
      BY <1>5, <2>2, <3>1
  <2> QED
    BY <2>3, <2>4
<1> QED
  BY <1>1, <1>5, <1>8, <1>9, <1>10 DEF Counted

LEMMA StepCounted ==
    ASSUME ConstantsFit, Counted, [Next]_vars
    PROVE  Counted'
<1>1. \A t \in Tablet : t \in Counter
  BY DEF Counter
<1>2. ASSUME UNCHANGED <<uses, joined, typing, attempts, tally>>
      PROVE  Counted'
  BY <1>2 DEF Counted, tally
<1>3. ASSUME NEW t \in Tablet, CommitEnroll(t)
      PROVE  Counted'
  <2>1. uses' = uses + 1 /\ joined' = joined + 1 /\ uses < MaxUses /\ typing' = typing
    BY <1>3 DEF CommitEnroll, Claim, QrIsLive
  <2>2. uses' \in 0 .. MaxUses /\ joined' = uses'
    BY <2>1 DEF Counted, ConstantsFit
  <2>3. CASE Forgive(t)
    BY <1>1, <2>1, <2>2, <2>3, ForgivenIsCounted DEF Counted
  <2>4. CASE UNCHANGED <<attempts, tally>>
    BY <2>1, <2>2, <2>4 DEF Counted, tally
  <2> QED
    BY <1>3, <2>3, <2>4 DEF CommitEnroll
<1>4. ASSUME NEW t \in Tablet, Reinstate(t) \/ ResetAttempts(t) \/ Delete(t)
      PROVE  Counted'
  <2>1. Forgive(t) /\ UNCHANGED <<uses, joined>>
    BY <1>4 DEF Reinstate, ResetAttempts, Delete
  <2>2. /\ typing' \in [Typing -> Codes \cup {NoCode}]
        /\ \A k \in Typing : typing'[k] \in {typing[k], NoCode}
    BY <1>4 DEF Counted, Reinstate, ResetAttempts, Delete
  <2>3. uses' \in 0 .. MaxUses /\ joined' = uses'
    BY <2>1 DEF Counted
  <2> QED
    BY <1>1, <2>1, <2>2, <2>3, ForgivenIsCounted
<1>5. ASSUME NEW k \in Typing, RightCode(k)
      PROVE  Counted'
  <2>1. typing[k] # NoCode /\ UNCHANGED <<uses, joined>> /\ Forgive(typing[k].of)
    BY <1>5 DEF RightCode, NoCode
  <2>2. typing[k].of \in Counter
    BY <2>1 DEF Counted, Codes
  <2>3. /\ typing' \in [Typing -> Codes \cup {NoCode}]
        /\ \A j \in Typing : typing'[j] \in {typing[j], NoCode}
    BY <1>5 DEF Counted, RightCode
  <2>4. uses' \in 0 .. MaxUses /\ joined' = uses'
    BY <2>1 DEF Counted
  <2> QED
    BY <2>1, <2>2, <2>3, <2>4, ForgivenIsCounted
<1>6. ASSUME NEW k \in Typing, NEW t \in Tablet, NEW screen \in Screens,
             ReadAttempts(k, t, screen)
      PROVE  Counted'
  <2> DEFINE x == IF screen = "token" THEN "token" ELSE t
             c == [of |-> x, screen |-> screen, saw |-> attempts[x], missed |-> 0]
  <2>1. /\ x \in Counter /\ attempts[x] < MaxGuesses /\ typing' = [typing EXCEPT ![k] = c]
        /\ UNCHANGED <<uses, joined, attempts, tally>>
    BY <1>6 DEF ReadAttempts, Counter, server
  <2>2. c \in Codes /\ c.of = x /\ c.saw = attempts[x] /\ c.missed = 0
    BY <2>1 DEF Codes, Counted, ConstantsFit
  <2>3. /\ typing' \in [Typing -> Codes \cup {NoCode}] /\ typing'[k] = c
        /\ \A j \in Typing \ {k} : typing'[j] = typing[j]
    BY <2>1, <2>2 DEF Counted
  <2>4. guesses[x] <= attempts[x] + 0 + overwritten[x]
    BY <2>1 DEF Counted
  <2>5. ASSUME NEW j \in Typing, typing'[j] # NoCode
        PROVE  guesses[typing'[j].of]
                  <= typing'[j].saw + typing'[j].missed + overwritten[typing'[j].of]
    <3>1. CASE j = k
      BY <2>2, <2>3, <2>4, <3>1
    <3>2. CASE j # k
      BY <2>3, <2>5, <3>2 DEF Counted
    <3> QED
      BY <3>1, <3>2
  <2> QED
    BY <2>1, <2>3, <2>5 DEF Counted, tally
<1>7. ASSUME NEW t \in Tablet,
             \/ BeginEnroll(t) \/ TurnAway(t) \/ Serve(t) \/ HeldForCode(t) \/ RefuseEnroll(t)
             \/ Renew(t) \/ Retire(t) \/ Register(t) \/ SetBarred(t) \/ Wipe(t) \/ Lapse(t)
      PROVE  Counted'
  BY <1>2, <1>7 DEF BeginEnroll, TurnAway, Serve, HeldForCode, RefuseEnroll, Renew, Retire, Register,
     SetBarred, Wipe, Lapse, server
<1>8. CASE EndQr \/ (\E c \in certificate : Grow(c)) \/ UNCHANGED vars
  BY <1>2, <1>8 DEF EndQr, Grow, vars, server
<1> QED
  BY <1>3, <1>4, <1>5, <1>6, <1>7, <1>8, WrongIsCounted DEF Next

-----------------------------------------------------------------------------
(* What a step makes of the certificates                                   *)

\* What may become of a certificate that is there: it ages, is withdrawn, or loses
\* its record, and never comes back from any of it.
Worn(c) == {d \in Certificates :
              /\ d.number = c.number /\ d.key = c.key
              /\ d.of \in {c.of, "deleted"}
              /\ c.revoked => d.revoked}

\* C after every certificate was worn, or left as it is.
WornSets(C) == {{f[c] : c \in C} : f \in {g \in [C -> Certificates] : \A c \in C : g[c] \in Worn(c)}}

\* Wear keeps the numbers, and with them the count.
LEMMA WearKeepsNumbers ==
    ASSUME NEW C \in SUBSET Certificates, Numbered(C), NEW D \in WornSets(C)
    PROVE  Numbered(D) /\ Cardinality(D) = Cardinality(C) /\ D \subseteq Certificates
<1>1. PICK f \in [C -> Certificates] : (\A c \in C : f[c] \in Worn(c)) /\ D = {f[c] : c \in C}
  BY DEF WornSets
<1>2. \A c \in C : f[c].number = c.number /\ f[c] \in D /\ f[c] \in Certificates
  BY <1>1 DEF Worn
<1>3. f \in Bijection(C, D)
  <2>1. f \in [C -> D] /\ \A d \in D : \E c \in C : f[c] = d
    BY <1>1
  <2>2. \A c, e \in C : f[c] = f[e] => c = e
    BY <1>2 DEF Numbered
  <2> QED
    BY <2>1, <2>2 DEF Bijection, Injection, Surjection, IsInjective
<1>4. IsFiniteSet(D) /\ Cardinality(D) = Cardinality(C)
  BY <1>3, FS_Bijection DEF Numbered, ExistsBijection
<1>5. \A d, e \in D : d.number = e.number => d = e
  BY <1>1, <1>2 DEF Numbered
<1>6. \A d \in D : d.number <= Cardinality(D)
  BY <1>1, <1>2, <1>4 DEF Numbered
<1> QED
  BY <1>1, <1>4, <1>5, <1>6 DEF Numbered

\* A certificate with the next number is a new one.
LEMMA NextNumberIsNew ==
    ASSUME NEW C \in SUBSET Certificates, Numbered(C), NEW x,
           x.number = Cardinality(C) + 1
    PROVE  Numbered(C \cup {x}) /\ Cardinality(C \cup {x}) = Cardinality(C) + 1
<1>1. Cardinality(C) \in Nat
  BY FS_CardinalityType DEF Numbered
<1>2. \A c \in C : c.number \in Nat /\ c.number # x.number
  BY <1>1 DEF Numbered, Certificates
<1>3. IsFiniteSet(C \cup {x}) /\ Cardinality(C \cup {x}) = Cardinality(C) + 1
  BY <1>2, FS_AddElement DEF Numbered
<1>4. \A c \in C \cup {x} : c.number <= Cardinality(C) + 1
  BY <1>1, <1>2 DEF Numbered
<1> QED
  BY <1>2, <1>3, <1>4 DEF Numbered

LEMMA NothingWorn ==
    ASSUME NEW C \in SUBSET Certificates
    PROVE  C \in WornSets(C)
<1> DEFINE f == [c \in C |-> c]
<1>1. \A c \in C : f[c] \in Worn(c)
  BY DEF Worn
<1>2. f \in [C -> Certificates] /\ C = {f[c] : c \in C}
  OBVIOUS
<1> QED
  BY <1>1, <1>2 DEF WornSets

\* Some of the certificates are replaced, each by a worn form of itself.
LEMMA SomeWorn ==
    ASSUME NEW C \in SUBSET Certificates, NEW S \in SUBSET C,
           NEW g \in [S -> Certificates], \A c \in S : g[c] \in Worn(c)
    PROVE  (C \ S) \cup {g[c] : c \in S} \in WornSets(C)
<1> DEFINE f == [c \in C |-> IF c \in S THEN g[c] ELSE c]
<1>1. \A c \in C : f[c] \in Worn(c) /\ f[c] \in Certificates
  BY DEF Worn
<1>2. (C \ S) \cup {g[c] : c \in S} = {f[c] : c \in C}
  <2>1. \A d \in (C \ S) \cup {g[c] : c \in S} : \E c \in C : d = f[c]
    OBVIOUS
  <2>2. \A c \in C : f[c] \in (C \ S) \cup {g[e] : e \in S}
    OBVIOUS
  <2> QED
    BY <2>1, <2>2
<1>3. f \in [C -> Certificates]
  BY <1>1
<1> HIDE DEF f
<1> QED
  BY <1>1, <1>2, <1>3 DEF WornSets

LEMMA RevokedIsWorn ==
    ASSUME NEW C \in SUBSET Certificates, NEW S \in SUBSET C
    PROVE  (C \ S) \cup Revoked(S) \in WornSets(C)
<1> DEFINE g == [c \in S |-> [c EXCEPT !.revoked = TRUE]]
<1>1. ASSUME NEW c \in S
      PROVE  g[c] \in Certificates /\ g[c] \in Worn(c)
  <2>1. [c EXCEPT !.revoked = TRUE] \in Certificates
    BY DEF Certificates
  <2> QED
    BY <2>1 DEF Certificates, Worn
<1>2. Revoked(S) = {g[c] : c \in S}
  BY DEF Revoked
<1>3. g \in [S -> Certificates]
  BY <1>1
<1> HIDE DEF g
<1> QED
  BY <1>1, <1>2, <1>3, SomeWorn

-----------------------------------------------------------------------------
(* What wear and an issue keep                                             *)

LEMMA IssueType ==
    ASSUME Enrolling, Numbered(certificate), NEW t \in Tablet
    PROVE  Issue(t) \in Certificates
<1>1. Cardinality(certificate) \in Nat
  BY FS_CardinalityType DEF Numbered
<1> QED
  BY <1>1 DEF Issue, NextNumber, Enrolling, Certificates

\* Wear brings no key back, and changes nothing of who holds what.
LEMMA WearIsSafe ==
    ASSUME ConstantsFit, Enrolling, Numbered(certificate), Keyed, OldKeysAreOut,
           certificate' \in WornSets(certificate), UNCHANGED tablet
    PROVE  /\ Numbered(certificate)' /\ certificate' \subseteq Certificates
           /\ Keyed' /\ OldKeysAreOut'
           /\ \A u \in Tablet : \A d \in Held(u)' : \E c \in Held(u) : d \in Worn(c)
<1>1. certificate \subseteq Certificates
  BY DEF Enrolling
<1>2. /\ Numbered(certificate)' /\ certificate' \subseteq Certificates
      /\ Cardinality(certificate)' = Cardinality(certificate)
  BY <1>1, WearKeepsNumbers DEF Numbered
<1>3. \A d \in certificate' : \E c \in certificate : d \in Worn(c)
  BY DEF WornSets
<1>4. \A u \in Tablet : \A d \in Of(u)' : \E c \in Of(u) : d \in Worn(c)
  BY <1>3 DEF Of, Worn, ConstantsFit
<1>5. \A u \in Tablet : \A d \in Held(u)' : \E c \in Held(u) : d \in Worn(c)
  BY <1>4 DEF Held, Worn, tablet
<1>6. Keyed'
  BY <1>2, <1>4, <1>5 DEF Keyed, Worn, tablet
<1>7. OldKeysAreOut'
  BY <1>4 DEF OldKeysAreOut, Worn
<1> QED
  BY <1>2, <1>5, <1>6, <1>7

\* A certificate issued over the key the tablet has is no newer than what still lets
\* it in, if that is for the same key; and the tablet holds it or what it held.
LEMMA IssueIsSafe ==
    ASSUME ConstantsFit, Enrolling, Numbered(certificate), Keyed, OldKeysAreOut,
           NEW D \in WornSets(certificate), NEW t \in Tablet,
           certificate' = D \cup {Issue(t)}, UNCHANGED key, Answered(t, Issue(t)),
           \A d \in D : d.of = t /\ ~d.revoked => key[t] <= d.key
    PROVE  /\ Numbered(certificate)' /\ certificate' \subseteq Certificates
           /\ Keyed' /\ OldKeysAreOut'
           /\ \A u \in Tablet : \A d \in Held(u)' :
                 \/ d = Issue(t)
                 \/ d \in D /\ \E c \in Held(u) : d \in Worn(c)
<1> DEFINE x == Issue(t)
<1>1. certificate \subseteq Certificates /\ x \in Certificates
  BY IssueType DEF Enrolling
<1>2. /\ x.number = Cardinality(certificate) + 1 /\ x.of = t /\ x.key = key[t]
      /\ Cardinality(certificate) \in Nat /\ key[t] \in Nat
  BY FS_CardinalityType DEF Issue, NextNumber, Numbered, Enrolling
<1> HIDE DEF x
<1>3. Numbered(D) /\ D \subseteq Certificates /\ Cardinality(D) = Cardinality(certificate)
  BY <1>1, WearKeepsNumbers
<1>4. /\ Numbered(certificate') /\ certificate' \subseteq Certificates
      /\ Cardinality(certificate') = Cardinality(certificate) + 1
  BY <1>1, <1>2, <1>3, NextNumberIsNew DEF x
<1>5. \A d \in D : \E c \in certificate : d \in Worn(c)
  BY DEF WornSets
<1>6. \A u \in Tablet : \A d \in D : d.of = u => \E c \in Of(u) : d \in Worn(c)
  BY <1>5 DEF Of, Worn, ConstantsFit
<1>7. /\ holds' \in [Tablet -> Nat]
      /\ \A u \in Tablet : \/ holds'[u] = holds[u]
                           \/ u = t /\ holds'[u] = x.number
  BY <1>2 DEF Answered, Enrolling, x
<1>8. \A u \in Tablet : holds[u] <= Cardinality(certificate) /\ holds[u] \in Nat
  BY DEF Keyed, Enrolling
<1>9. \A d \in D : d.number <= Cardinality(certificate) /\ d.number \in Nat
  BY <1>3 DEF Numbered, Certificates
<1>10. ASSUME NEW u \in Tablet, NEW d \in Held(u)'
       PROVE  d = x \/ (d \in D /\ \E c \in Held(u) : d \in Worn(c))
  <2>1. d.of = u /\ d.number = holds'[u] /\ (d = x \/ d \in D)
    BY <1>10 DEF Held, Of, x
  <2>2. d \in D => holds'[u] = holds[u]
    BY <1>2, <1>7, <1>9, <2>1
  <2>3. CASE d \in D
    <3>1. PICK c \in Of(u) : d \in Worn(c)
      BY <1>6, <2>1, <2>3
    <3> QED
      BY <2>1, <2>2, <2>3, <3>1 DEF Held, Worn
  <2> QED
    BY <2>1, <2>3
<1>11. ASSUME NEW u \in Tablet
       PROVE  /\ holds'[u] <= Cardinality(certificate')
              /\ \A c \in Of(u)' : c.key <= key[u]
              /\ \A c \in Held(u)' : c.key = key[u]
  <2>1. holds'[u] <= Cardinality(certificate')
    BY <1>2, <1>4, <1>7, <1>8
  <2>2. ASSUME NEW d \in Of(u)'
        PROVE  d.key <= key[u]
    <3>1. d.of = u /\ (d = x \/ d \in D)
      BY <2>2 DEF Of, x
    <3>2. CASE d = x
      BY <1>2, <3>1, <3>2
    <3>3. CASE d \in D
      <4>1. PICK c \in Of(u) : d \in Worn(c)
        BY <1>6, <3>1, <3>3
      <4> QED
        BY <4>1 DEF Keyed, Worn
    <3> QED
      BY <3>1, <3>2, <3>3
  <2>3. ASSUME NEW d \in Held(u)'
        PROVE  d.key = key[u]
    <3>1. d.of = u
      BY <2>3 DEF Held, Of
    <3> QED
      BY <1>2, <1>10, <2>3, <3>1 DEF Keyed, Worn
  <2> QED
    BY <2>1, <2>2, <2>3
<1>12. Keyed'
  BY <1>11 DEF Keyed
<1>13. ASSUME NEW u \in Tablet, NEW c \in Of(u)', NEW e \in Of(u)', ~c.revoked
       PROVE  e.key <= c.key
  <2>1. c.of = u /\ e.of = u /\ (c = x \/ c \in D) /\ (e = x \/ e \in D)
    BY <1>13 DEF Of, x
  <2>2. c \in Certificates /\ e \in Certificates
    BY <1>1, <1>3, <2>1
  <2>3. CASE c = x
    <3>1. u = t /\ e.key <= key[u]
      BY <1>2, <1>11, <1>13, <2>1, <2>3
    <3> QED
      BY <1>2, <2>3, <3>1
  <2>4. CASE c \in D /\ e = x
    BY <1>2, <1>13, <2>1, <2>4
  <2>5. CASE c \in D /\ e \in D
    <3>1. PICK b \in Of(u) : c \in Worn(b)
      BY <1>6, <2>1, <2>5
    <3>2. PICK f \in Of(u) : e \in Worn(f)
      BY <1>6, <2>1, <2>5
    <3> QED
      BY <1>13, <3>1, <3>2 DEF OldKeysAreOut, Worn
  <2> QED
    BY <2>1, <2>3, <2>4, <2>5
<1>14. OldKeysAreOut'
  BY <1>13 DEF OldKeysAreOut
<1> QED
  BY <1>4, <1>10, <1>12, <1>14 DEF Numbered, x

-----------------------------------------------------------------------------
(* Certificates, step by step                                              *)

\* What is left of Enrolling and LetsIn once the counters are apart.
Rest == Enrolling /\ Numbered(certificate) /\ Keyed /\ OldKeysAreOut /\ NeverCutOff

\* The tablet that asks for an enrolment holds nothing: what it held is withdrawn, and
\* nobody is cut off by that.
LEMMA EnrollIsSafe ==
    ASSUME ConstantsFit, Rest, NEW t \in Tablet, CommitEnroll(t)
    PROVE  Rest'
<1> DEFINE D == RevokeOld(t)
<1>1. /\ certificate' = D \cup {Issue(t)} /\ UNCHANGED key /\ Answered(t, Issue(t))
      /\ record' = [record EXCEPT ![t] = NewState(t)]
      /\ enrolling' = [enrolling EXCEPT ![t] = NotEnrolling]
      /\ holds[t] = 0
  BY DEF CommitEnroll, Rest, Enrolling
<1>2. Of(t) \subseteq certificate /\ certificate \subseteq Certificates
  BY DEF Of, Rest, Enrolling
<1>3. D \in WornSets(certificate)
  BY <1>2, RevokedIsWorn DEF RevokeOld
<1>4. \A d \in D : d.of = t => d.revoked
  <2>1. \A d \in Revoked(Of(t)) : d.revoked
    BY <1>2 DEF Revoked, Certificates
  <2> QED
    BY <2>1 DEF RevokeOld, Of
<1>5. \A d \in D : d.of # t => d \in certificate
  <2>1. \A d \in Revoked(Of(t)) : d.of = t
    BY <1>2 DEF Revoked, Of, Certificates
  <2> QED
    BY <2>1 DEF RevokeOld
<1>6. Issue(t).of = t /\ ~Issue(t).revoked
  BY DEF Issue
<1>7. /\ Numbered(certificate)' /\ certificate' \subseteq Certificates
      /\ Keyed' /\ OldKeysAreOut'
      /\ \A u \in Tablet : \A d \in Held(u)' :
            \/ d = Issue(t)
            \/ d \in D /\ \E c \in Held(u) : d \in Worn(c)
  BY <1>1, <1>3, <1>4, IssueIsSafe DEF Rest
<1>8. Held(t) = {}
  BY <1>1, <1>2 DEF Held, Certificates
<1>9. NeverCutOff'
  <2> SUFFICES ASSUME NEW u \in Tablet, NEW d \in Held(u)',
                      record'[u] = "enrolled", d.age # "expired"
               PROVE  ~d.revoked
    BY DEF NeverCutOff
  <2>1. CASE u = t
    BY <1>6, <1>7, <1>8, <2>1
  <2>2. CASE u # t
    <3>1. d.of = u /\ d \in D
      BY <1>6, <1>7, <2>2 DEF Held, Of
    <3>2. d \in certificate /\ record[u] = "enrolled" /\ holds'[u] = holds[u]
      BY <1>1, <1>5, <2>2, <3>1 DEF Answered, Rest, Enrolling
    <3> QED
      BY <3>1, <3>2 DEF Rest, NeverCutOff, Held, Of
  <2> QED
    BY <2>1, <2>2
<1>10. Issue(t).number \in Nat
  BY IssueType DEF Rest, Certificates
<1>11. Enrolling'
  <2>1. NewState(t) \in States /\ NotEnrolling \in Enrolments
    BY DEF NewState, NotEnrolling, Rest, Enrolling, States, Enrolments
  <2>2. holds' \in [Tablet -> Nat] /\ \A u \in Tablet \ {t} : holds'[u] = holds[u]
    BY <1>1, <1>10 DEF Answered, Rest, Enrolling
  <2>3. /\ record' \in [Tablet -> States] /\ enrolling' \in [Tablet -> Enrolments]
        /\ enrolling'[t].stage = "idle"
        /\ \A u \in Tablet \ {t} : record'[u] = record[u] /\ enrolling'[u] = enrolling[u]
    BY <1>1, <2>1 DEF Rest, Enrolling, NotEnrolling
  <2> QED
    BY <1>1, <1>7, <2>2, <2>3 DEF Rest, Enrolling
<1> QED
  BY <1>7, <1>9, <1>11 DEF Rest

\* A renewal withdraws nothing: whether its answer arrives or not, the tablet is let in.
LEMMA RenewIsSafe ==
    ASSUME ConstantsFit, Rest, NEW t \in Tablet, Renew(t)
    PROVE  Rest'
<1>1. /\ certificate' = certificate \cup {Issue(t)} /\ UNCHANGED <<key, record, enrolling>>
      /\ Answered(t, Issue(t))
  BY DEF Renew
<1>2. certificate \subseteq Certificates /\ certificate \in WornSets(certificate)
  BY NothingWorn DEF Rest, Enrolling
<1>3. PICK h \in Held(t) : ~h.revoked
  BY DEF Renew, LetIn
<1>4. h \in Of(t) /\ h.key = key[t] /\ h.number = holds[t]
  BY DEF Held, Rest, Keyed
<1>5. \A d \in certificate : d.of = t /\ ~d.revoked => key[t] <= d.key
  BY <1>4 DEF Rest, OldKeysAreOut, Of
<1>6. /\ Numbered(certificate)' /\ certificate' \subseteq Certificates
      /\ Keyed' /\ OldKeysAreOut'
      /\ \A u \in Tablet : \A d \in Held(u)' :
            \/ d = Issue(t)
            \/ d \in certificate /\ \E c \in Held(u) : d \in Worn(c)
  BY <1>1, <1>2, <1>5, IssueIsSafe DEF Rest
<1>7. ~Issue(t).revoked /\ Issue(t).number \in Nat
  BY IssueType DEF Issue, Rest, Certificates
<1>8. NeverCutOff'
  <2> SUFFICES ASSUME NEW u \in Tablet, NEW d \in Held(u)',
                      record'[u] = "enrolled", d.age # "expired"
               PROVE  ~d.revoked
    BY DEF NeverCutOff
  <2>1. CASE d # Issue(t)
    <3>1. PICK c \in Held(u) : d \in Worn(c)
      BY <1>6, <2>1
    <3>2. d \in certificate /\ c \in certificate /\ d.number = c.number
      BY <1>6, <2>1, <3>1 DEF Held, Of, Worn
    <3>3. d = c
      BY <3>2 DEF Rest, Numbered
    <3> QED
      BY <1>1, <3>3 DEF Rest, NeverCutOff
  <2> QED
    BY <1>7, <2>1
<1>9. Enrolling'
  <2>1. holds[t] # 0
    BY <1>2, <1>4 DEF Of, Certificates
  <2>2. holds' \in [Tablet -> Nat] /\ \A u \in Tablet \ {t} : holds'[u] = holds[u]
    BY <1>1, <1>7 DEF Answered, Rest, Enrolling
  <2> QED
    BY <1>1, <1>6, <2>1, <2>2 DEF Rest, Enrolling
<1> QED
  BY <1>6, <1>8, <1>9 DEF Rest

\* A reinstatement withdraws a certificate that had expired.
LEMMA ReinstateIsSafe ==
    ASSUME ConstantsFit, Rest, NEW t \in Tablet, Reinstate(t)
    PROVE  Rest'
<1>1. PICK h \in Held(t) :
         /\ h.age = "expired" /\ ~h.revoked
         /\ certificate' = (certificate \ {h}) \cup Revoked({h}) \cup {Issue(t)}
         /\ UNCHANGED <<key, record, enrolling>> /\ Answered(t, Issue(t))
  BY DEF Reinstate, MayReinstate
<1> DEFINE D == (certificate \ {h}) \cup Revoked({h})
<1>2. h \in certificate /\ certificate \subseteq Certificates
  BY DEF Held, Of, Rest, Enrolling
<1>3. D \in WornSets(certificate)
  BY <1>2, RevokedIsWorn
<1>4. h \in Of(t) /\ h.key = key[t] /\ h.number = holds[t]
  BY DEF Held, Rest, Keyed
<1>5. \A d \in Revoked({h}) : d.revoked /\ d.age = "expired"
  BY <1>1, <1>2 DEF Revoked, Certificates
<1>6. \A d \in D : d.of = t /\ ~d.revoked => key[t] <= d.key
  <2> SUFFICES ASSUME NEW d \in D, d.of = t, ~d.revoked PROVE key[t] <= d.key
    OBVIOUS
  <2>1. d \in Of(t)
    BY <1>5 DEF Of
  <2> QED
    BY <1>4, <2>1 DEF Rest, OldKeysAreOut
<1>7. /\ Numbered(certificate)' /\ certificate' \subseteq Certificates
      /\ Keyed' /\ OldKeysAreOut'
      /\ \A u \in Tablet : \A d \in Held(u)' :
            \/ d = Issue(t)
            \/ d \in D /\ \E c \in Held(u) : d \in Worn(c)
  BY <1>1, <1>3, <1>6, IssueIsSafe DEF Rest
<1>8. ~Issue(t).revoked /\ Issue(t).number \in Nat
  BY IssueType DEF Issue, Rest, Certificates
<1>9. NeverCutOff'
  <2> SUFFICES ASSUME NEW u \in Tablet, NEW d \in Held(u)', d # Issue(t),
                      record'[u] = "enrolled", d.age # "expired"
               PROVE  ~d.revoked
    BY <1>8 DEF NeverCutOff
  <2>1. PICK c \in Held(u) : d \in Worn(c)
    BY <1>7
  <2>2. d \in certificate /\ c \in certificate /\ d.number = c.number
    BY <1>5, <1>7, <2>1 DEF Held, Of, Worn
  <2>3. d = c
    BY <2>2 DEF Rest, Numbered
  <2> QED
    BY <1>1, <2>3 DEF Rest, NeverCutOff
<1>10. Enrolling'
  <2>1. holds[t] # 0
    BY <1>2, <1>4 DEF Certificates
  <2>2. holds' \in [Tablet -> Nat] /\ \A u \in Tablet \ {t} : holds'[u] = holds[u]
    BY <1>1, <1>8 DEF Answered, Rest, Enrolling
  <2> QED
    BY <1>1, <1>7, <2>1, <2>2 DEF Rest, Enrolling
<1> QED
  BY <1>7, <1>9, <1>10 DEF Rest

\* A retirement and a deletion take the record with the certificates, and time only
\* takes away.
LEMMA WearingSteps ==
    ASSUME ConstantsFit, Rest, NEW t \in Tablet,
           Retire(t) \/ Delete(t) \/ \E c \in certificate : Grow(c)
    PROVE  Rest'
<1>1. certificate \subseteq Certificates /\ Of(t) \subseteq certificate
  BY DEF Rest, Enrolling, Of
<1>2. /\ UNCHANGED <<tablet, enrolling>>
      /\ record' \in [Tablet -> States]
      /\ \A u \in Tablet : record[u] = "none" => record'[u] = "none"
  BY DEF Retire, Delete, Grow, Rest, Enrolling, States
<1> DEFINE Worse(u, d, c) ==
             record'[u] = "enrolled" /\ d.age # "expired" /\ d \in Worn(c)
             => record[u] = "enrolled" /\ c.age # "expired" /\ (d.revoked => c.revoked)
           Wears == /\ certificate' \in WornSets(certificate)
                    /\ \A u \in Tablet : \A d \in Of(u)', c \in Of(u) : Worse(u, d, c)
<1>3. Wears
  <2>1. CASE Retire(t)
    <3>1. certificate' \in WornSets(certificate)
      BY <1>1, <2>1, RevokedIsWorn DEF Retire, RevokeOld
    <3>2. \A d \in Revoked(Of(t)) : d.of = t
      BY <1>1 DEF Revoked, Of, Certificates
    <3>3. record'[t] = "retired" /\ \A u \in Tablet \ {t} : record'[u] = record[u]
      BY <2>1 DEF Retire, Rest, Enrolling
    <3>4. \A u \in Tablet \ {t} : \A d \in Of(u)', c \in Of(u) : d \in Worn(c) => d = c
      <4>1. \A u \in Tablet \ {t} : \A d \in Of(u)' : d \in certificate
        BY <2>1, <3>2 DEF Retire, RevokeOld, Of
      <4> QED
        BY <4>1 DEF Of, Worn, Rest, Numbered
    <3> QED
      BY <3>1, <3>3, <3>4
  <2>2. CASE Delete(t)
    <3> DEFINE g == [c \in Of(t) |-> [c EXCEPT !.of = "deleted"]]
    <3>1. ASSUME NEW c \in Of(t)
          PROVE  g[c] \in Certificates /\ g[c] \in Worn(c) /\ g[c].of = "deleted"
      <4>1. [c EXCEPT !.of = "deleted"] \in Certificates
        BY <1>1 DEF Certificates
      <4> QED
        BY <1>1, <4>1 DEF Certificates, Worn
    <3>2. certificate' = (certificate \ Of(t)) \cup {g[c] : c \in Of(t)}
      BY <2>2 DEF Delete
    <3>3. g \in [Of(t) -> Certificates]
      BY <3>1
    <3>4. record'[t] = "none" /\ \A u \in Tablet \ {t} : record'[u] = record[u]
      BY <2>2 DEF Delete, Rest, Enrolling
    <3> HIDE DEF g
    <3>5. certificate' \in WornSets(certificate)
      BY <1>1, <3>1, <3>2, <3>3, SomeWorn
    <3>6. \A u \in Tablet \ {t} : \A d \in Of(u)', c \in Of(u) : d \in Worn(c) => d = c
      <4>1. \A u \in Tablet \ {t} : \A d \in Of(u)' : d \in certificate
        BY <3>1, <3>2 DEF Of, ConstantsFit
      <4> QED
        BY <4>1 DEF Of, Worn, Rest, Numbered
    <3> QED
      BY <3>4, <3>5, <3>6
  <2>3. ASSUME NEW e \in certificate, Grow(e)
        PROVE  Wears
    <3> DEFINE age == IF e.age = "fresh" THEN "due" ELSE "expired"
               f == [e EXCEPT !.age = age]
               g == [c \in {e} |-> f]
    <3>1. f \in Certificates /\ f.number = e.number /\ f.revoked = e.revoked
      BY <1>1 DEF Certificates
    <3>2. f \in Worn(e)
      BY <1>1, <3>1 DEF Certificates, Worn
    <3>3. certificate' = (certificate \ {e}) \cup {f} /\ UNCHANGED record /\ e.age # "expired"
      BY <2>3 DEF Grow
    <3> HIDE DEF f
    <3>4. certificate' = (certificate \ {e}) \cup {g[c] : c \in {e}}
      BY <3>3
    <3>5. certificate' \in WornSets(certificate)
      <4>1. g \in [{e} -> Certificates] /\ \A c \in {e} : g[c] \in Worn(c)
        BY <3>1, <3>2
      <4> HIDE DEF g
      <4> QED
        BY <3>4, <4>1, <1>1, SomeWorn
    <3>6. ASSUME NEW u \in Tablet, NEW d \in Of(u)', NEW c \in Of(u)
          PROVE  Worse(u, d, c)
      <4>1. d \in certificate \ {e} \/ d = f
        BY <3>3 DEF Of
      <4>2. d \in Worn(c) => d = c \/ (d = f /\ c = e)
        BY <3>1, <4>1 DEF Of, Worn, Rest, Numbered
      <4> QED
        BY <3>1, <3>3, <4>2
    <3> QED
      BY <3>5, <3>6
  <2> QED
    BY <2>1, <2>2, <2>3
<1>4. /\ Numbered(certificate)' /\ certificate' \subseteq Certificates
      /\ Keyed' /\ OldKeysAreOut'
      /\ \A u \in Tablet : \A d \in Held(u)' : \E c \in Held(u) : d \in Worn(c)
  BY <1>2, <1>3, WearIsSafe DEF Rest
<1>5. NeverCutOff'
  BY <1>3, <1>4 DEF NeverCutOff, Rest, Held
<1>6. Enrolling'
  BY <1>2, <1>4 DEF Rest, Enrolling, tablet
<1> QED
  BY <1>4, <1>5, <1>6 DEF Rest

\* The steps that leave the certificates and what tablets hold alone.
LEMMA OtherSteps ==
    ASSUME ConstantsFit, Rest, NEW t \in Tablet,
           \/ BeginEnroll(t) \/ TurnAway(t) \/ Serve(t) \/ HeldForCode(t) \/ RefuseEnroll(t)
           \/ ResetAttempts(t) \/ Register(t) \/ SetBarred(t) \/ Lapse(t)
    PROVE  Rest'
<1>1. UNCHANGED <<certificate, tablet>>
  BY DEF BeginEnroll, TurnAway, Serve, HeldForCode, RefuseEnroll,
     ResetAttempts, Register, SetBarred, Lapse, server, tablet
<1>2. Enrolling'
  <2>1. CASE BeginEnroll(t)
    <3>1. record[t] \in {"none", "pending", "enrolled"}
      BY <2>1 DEF BeginEnroll, Rest, Enrolling, States
    <3>2. PICK b \in BOOLEAN : enrolling' = [enrolling EXCEPT ![t] =
                                  [stage |-> "begun", saw |-> record[t], byCode |-> b]]
      BY <2>1 DEF BeginEnroll
    <3> QED
      BY <1>1, <2>1, <3>1, <3>2 DEF BeginEnroll, Rest, Enrolling, Enrolments, server, tablet
  <2>2. CASE RefuseEnroll(t)
    BY <1>1, <2>2 DEF RefuseEnroll, NotEnrolling, Rest, Enrolling, Enrolments, server, tablet
  <2>3. CASE Register(t)
    BY <1>1, <2>3 DEF Register, Rest, Enrolling, States, tablet
  <2>4. CASE UNCHANGED <<record, enrolling>>
    BY <1>1, <2>4 DEF Rest, Enrolling, tablet
  <2> QED
    BY <2>1, <2>2, <2>3, <2>4 DEF TurnAway, Serve, HeldForCode,
       ResetAttempts, SetBarred, Lapse, server
<1>3. \A u \in Tablet : record'[u] = "enrolled" => record[u] = "enrolled"
  BY DEF BeginEnroll, TurnAway, Serve, HeldForCode, RefuseEnroll,
     ResetAttempts, Register, SetBarred, Lapse, server, Rest, Enrolling
<1> QED
  BY <1>1, <1>2, <1>3 DEF Rest, Numbered, Keyed, OldKeysAreOut, NeverCutOff, Held, Of, tablet

\* A factory reset takes the certificate with the key.
LEMMA WipeIsSafe ==
    ASSUME ConstantsFit, Rest, NEW t \in Tablet, Wipe(t)
    PROVE  Rest'
<1>1. /\ UNCHANGED <<certificate, record, enrolling>>
      /\ key' = [key EXCEPT ![t] = @ + 1] /\ holds' = [holds EXCEPT ![t] = 0]
  BY DEF Wipe, server
<1>2. /\ key' \in [Tablet -> Nat] /\ holds' \in [Tablet -> Nat]
      /\ \A u \in Tablet : key[u] <= key'[u] /\ (u # t => key'[u] = key[u])
      /\ holds'[t] = 0 /\ \A u \in Tablet \ {t} : holds'[u] = holds[u]
  BY <1>1 DEF Rest, Enrolling
<1>3. Enrolling'
  BY <1>1, <1>2 DEF Rest, Enrolling
<1>4. Numbered(certificate)' /\ Cardinality(certificate) \in Nat /\ OldKeysAreOut'
  BY <1>1, FS_CardinalityType DEF Rest, Numbered, OldKeysAreOut, Of
<1>5. Held(t)' = {} /\ \A u \in Tablet \ {t} : Held(u)' = Held(u)
  BY <1>1, <1>2 DEF Held, Of, Rest, Enrolling, Certificates
<1>6. \A u \in Tablet : \A c \in Of(u) : c.key \in Nat
  BY DEF Of, Rest, Enrolling, Certificates
<1>7. Keyed'
  <2> SUFFICES ASSUME NEW u \in Tablet
               PROVE  /\ holds'[u] <= Cardinality(certificate)
                      /\ \A c \in Of(u) : c.key <= key'[u]
                      /\ \A c \in Held(u)' : c.key = key'[u]
    BY <1>1 DEF Keyed, Of
  <2>1. holds'[u] <= Cardinality(certificate)
    BY <1>2, <1>4 DEF Rest, Keyed
  <2>2. \A c \in Of(u) : c.key <= key'[u]
    BY <1>2, <1>6 DEF Rest, Keyed, Enrolling
  <2>3. \A c \in Held(u)' : c.key = key'[u]
    BY <1>2, <1>5 DEF Rest, Keyed
  <2> QED
    BY <2>1, <2>2, <2>3
<1>8. NeverCutOff'
  BY <1>1, <1>5 DEF Rest, NeverCutOff
<1> QED
  BY <1>3, <1>4, <1>7, <1>8 DEF Rest

LEMMA StepLetsIn ==
    ASSUME ConstantsFit, LetsIn, [Next]_vars
    PROVE  LetsIn'
<1>1. Rest /\ Counted'
  BY StepCounted DEF LetsIn, Rest
<1>2. ASSUME NEW t \in Tablet,
             \/ BeginEnroll(t) \/ TurnAway(t) \/ Serve(t) \/ HeldForCode(t) \/ CommitEnroll(t)
             \/ RefuseEnroll(t) \/ Renew(t) \/ Reinstate(t)
             \/ ResetAttempts(t) \/ Retire(t) \/ Delete(t) \/ Register(t) \/ SetBarred(t)
             \/ Wipe(t) \/ Lapse(t)
      PROVE  Rest'
  BY <1>1, <1>2, EnrollIsSafe, RenewIsSafe, ReinstateIsSafe, WearingSteps, OtherSteps,
     WipeIsSafe
<1>3. ASSUME NEW c \in certificate, Grow(c)
      PROVE  Rest'
  <2>1. c.of \in Tablet
    BY <1>1, <1>3 DEF Grow, Rest, Enrolling, Certificates
  <2> QED
    BY <1>1, <1>3, <2>1, WearingSteps
<1>4. ASSUME EndQr \/ UNCHANGED vars
      PROVE  Rest'
  <2>1. UNCHANGED <<record, certificate, tablet, enrolling>>
    BY <1>4 DEF EndQr, vars, server
  <2> QED
    BY <1>1, <2>1 DEF Rest, Enrolling, Numbered, Keyed, OldKeysAreOut, NeverCutOff, Held, Of,
       tablet
<1>5. ASSUME NEW k \in Typing,
             \/ WrongCode(k) \/ RightCode(k)
             \/ \E t \in Tablet, screen \in Screens : ReadAttempts(k, t, screen)
      PROVE  Rest'
  <2>1. UNCHANGED <<record, certificate, tablet, enrolling>>
    BY <1>5 DEF WrongCode, RightCode, ReadAttempts, server
  <2> QED
    BY <1>1, <2>1 DEF Rest, Enrolling, Numbered, Keyed, OldKeysAreOut, NeverCutOff, Held, Of,
       tablet
<1>6. Rest'
  BY <1>2, <1>3, <1>4, <1>5 DEF Next
<1> QED
  BY <1>1, <1>6 DEF LetsIn, Rest

-----------------------------------------------------------------------------
(* What follows                                                            *)

LEMMA LetsInImplies ==
    LetsIn => OldKeysAreOut /\ NeverCutOff
  BY DEF LetsIn

\* Every use that was claimed is one that was there, and every wrong code was counted or is
\* known to have been written over.
LEMMA CountedImplies ==
    ASSUME ConstantsFit, LetsIn
    PROVE  QrIsNotOverspent /\ GuessesAreCapped
  BY DEF ConstantsFit, LetsIn, Counted, QrIsNotOverspent, GuessesAreCapped

\* Only an enrolment takes a record from retired to enrolled, and it has read the record
\* before it was retired: as enrolled it would write nothing, and there was one.
LEMMA RetiredStep ==
    ASSUME LetsIn, [Next]_vars, NEW t \in Tablet,
           record[t] = "retired", record'[t] = "enrolled"
    PROVE  enrolling[t].saw = "pending"
<1>1. record \in [Tablet -> States]
  BY DEF LetsIn, Enrolling
<1>2. \E u \in Tablet : CommitEnroll(u)
  BY <1>1 DEF Next, BeginEnroll, TurnAway, Serve, HeldForCode, RefuseEnroll, Renew, Reinstate,
     ResetAttempts, Retire, Delete, Register, SetBarred, Wipe, Lapse, WrongCode, RightCode,
     ReadAttempts, EndQr, Grow, vars, server
<1>3. CommitEnroll(t) /\ enrolling[t].saw # "enrolled"
  BY <1>1, <1>2 DEF CommitEnroll, NewState
<1> QED
  BY <1>3 DEF CommitEnroll, LetsIn, Enrolling, Enrolments

=============================================================================
