------------------------------ MODULE LibraryProofs ------------------------------
(***************************************************************************)
(* The inductive invariant of Library, for any number of builds, files and *)
(* policies, and of deletions in flight.  ServicesProofs concludes from it.*)
(***************************************************************************)
EXTENDS Library, NaturalsInduction, WellFoundedInduction, TLAPS

Rows == [line : Line, shares : SUBSET Common]
Content == Digest \cup FileDigest
Uploads == [build : 0 .. MaxBuilds, row : Rows \cup {Nothing}, parts : SUBSET Content]
Edits == UNION {[P -> Entries] : P \in SUBSET Policy}
Deletions == [builds : SUBSET Build, file : BOOLEAN, edits : Edits, left : SUBSET Content,
              free : SUBSET Content, unlinked : SUBSET Content]

\* What the constants are: an empty place holds none of what a full one does.
ConstantsFit ==
    /\ MaxBuilds \in Nat /\ Apk \subseteq [build : Build, line : Line, shares : SUBSET Common]
    /\ Nothing \notin Rows /\ Nothing \notin Content /\ Nothing \notin Uploads

Shaped ==
    /\ library \in [Build -> Rows \cup {Nothing}] /\ file \in Content \cup {Nothing}
    /\ pins \in [Policy -> Entries]
    /\ upload \in Uploads \cup {Nothing} /\ deletions \subseteq Deletions

\* The blobs an upload in flight stored are there or spoiled, and the build it brings
\* is not in the library yet.
Uploading ==
    upload # Nothing =>
        /\ upload.parts # {} /\ upload.parts \subseteq blob \cup spoiled
        /\ upload.build # 0 =>
              /\ upload.row \in Rows /\ upload.parts = {upload.build} \cup upload.row.shares
              /\ library[upload.build] = Nothing

\* Deletions in flight are of different builds of the library.  Each publishes every
\* policy on its builds, with a build that stays, but for the policies excused.
Deleting ==
    /\ \A d, e \in deletions : d # e => d.builds \cap e.builds = {}
    /\ \A d \in deletions :
          /\ d.builds \subseteq Stocked
          /\ \A p \in Policy \ raced :
                IF p \in DOMAIN d.edits THEN d.edits[p].pin \in {0} \cup (Stocked \ Leaving)
                                        ELSE pins[p].pin \notin d.builds

\* The row of a file references an Artifact row.
Referenced == file # Nothing => file \in artifact

\* What a build needs is on the disk, or spoiled, or unlinked by the deletion of the build
\* itself.
Has(b, x) == \/ x \in blob \cup spoiled
             \/ \E d \in deletions : b \in d.builds /\ x \in d.unlinked

\* What a deletion is about to unlink, no other build needs that is not spoiled already.
Blobs ==
    /\ \A b \in Stocked : \A x \in Parts(b) : Has(b, x)
    /\ file # Nothing => \/ file \in blob \cup spoiled
                         \/ \E d \in deletions : file \in d.unlinked
    /\ \A d \in deletions : \A x \in d.free \ spoiled :
          /\ \A b \in Stocked \ d.builds : x \notin Parts(b)
          /\ upload # Nothing => x \notin upload.parts

Sound == Shaped /\ Uploading /\ Deleting /\ Referenced /\ PinsAreStocked /\ Blobs

-----------------------------------------------------------------------------
(* The newest build                                                        *)

LEMMA LeastElement ==
    ASSUME NEW S \in SUBSET Nat, S # {}
    PROVE  \E s \in S : \A r \in S : s <= r
<1>1. PICK s \in S : \A r \in S : <<r, s>> \notin OpToRel(<, Nat)
  BY WFMin, NatLessThanWellFounded, Zenon
<1>2. \A r \in S : ~ (r < s)
  BY <1>1, Zenon DEF OpToRel
<1> QED
  BY <1>2

\* There is a newest of some builds.
LEMMA NewestIs ==
    ASSUME MaxBuilds \in Nat, NEW B \in SUBSET Build, B # {}
    PROVE  NewestOf(B) \in B /\ \A w \in B : w <= NewestOf(B)
<1> DEFINE S == {MaxBuilds - b : b \in B}
<1>1. \A b \in B : b \in Nat /\ MaxBuilds - b \in Nat
  BY DEF Build
<1>2. S \in SUBSET Nat /\ S # {}
  BY <1>1
<1>3. PICK n \in S : \A m \in S : n <= m
  BY <1>2, LeastElement
<1>4. PICK v \in B : n = MaxBuilds - v
  OBVIOUS
<1>5. ASSUME NEW w \in B
      PROVE  w <= v
  <2>1. n <= MaxBuilds - w
    BY <1>3
  <2> QED
    BY <1>1, <1>4, <2>1
<1> QED
  BY <1>5 DEF NewestOf

\* A deleted build is replaced by another the library has, the newest of its ATAK
\* version if there is one.
LEMMA ReplacementIs ==
    ASSUME MaxBuilds \in Nat, NEW b, Replacement(b) # 0
    PROVE  /\ Replacement(b) \in Stocked \ {b}
           /\ LET fitting == {v \in Stocked \ {b} : library[v].line = library[b].line}
              IN  fitting # {} => /\ Replacement(b) \in fitting
                                  /\ \A v \in fitting : v <= Replacement(b)
<1> DEFINE others == Stocked \ {b}
           sameLine == {v \in others : library[v].line = library[b].line}
           choice == IF sameLine # {} THEN sameLine ELSE others
<1>1. Replacement(b) = NewestOf(choice)
  BY DEF Replacement
<1>2. choice # {}
  BY <1>1 DEF NewestOf
<1>3. choice \in SUBSET Build
  BY DEF Stocked
<1>4. NewestOf(choice) \in choice /\ \A w \in choice : w <= NewestOf(choice)
  BY <1>2, <1>3, NewestIs
<1> QED
  BY <1>1, <1>4

-----------------------------------------------------------------------------
(* The start, and the shape                                                *)

LEMMA InitSound == ConstantsFit /\ Init => Sound
<1> SUFFICES ASSUME ConstantsFit, Init PROVE Sound
  OBVIOUS
<1>1. Shaped
  BY DEF Init, Shaped, Entries, ConstantsFit
<1>2. Uploading /\ Deleting /\ Referenced /\ PinsAreStocked
  BY DEF Init, Uploading, Deleting, Referenced, PinsAreStocked, NoEntry, Entry
<1>3. Blobs
  BY DEF Init, Blobs, Stocked
<1> QED
  BY <1>1, <1>2, <1>3 DEF Sound

\* What the library has is a row.
LEMMA StockedRows ==
    ASSUME Shaped, NEW b \in Stocked
    PROVE  b \in Build /\ library[b] \in Rows /\ Parts(b) \subseteq Content
  BY DEF Shaped, Stocked, Rows, Parts, Content, Digest

\* A policy without an entry pins no build, and one with a kind may pin any.
LEMMA EntriesAre ==
    ASSUME ConstantsFit
    PROVE  /\ NoEntry \in Entries /\ NoEntry.pin = 0 /\ NoEntry.kind = "none"
           /\ 0 \notin Build
           /\ \A e \in Entries : \A b \in Build :
                 e.pin \in Build => /\ [e EXCEPT !.pin = b] \in Entries
                                    /\ [e EXCEPT !.pin = b].pin = b
                                    /\ [e EXCEPT !.pin = b].kind = e.kind
<1>1. NoEntry \in Entries /\ NoEntry.pin = 0 /\ NoEntry.kind = "none"
  BY DEF Entries, NoEntry, Entry
<1>2. 0 \notin Build
  BY DEF Build
<1>3. ASSUME NEW e \in Entries, NEW b \in Build, e.pin \in Build
      PROVE  /\ [e EXCEPT !.pin = b] \in Entries /\ [e EXCEPT !.pin = b].pin = b
             /\ [e EXCEPT !.pin = b].kind = e.kind
  <2>1. PICK k \in {"catalog", "kiosk"}, c \in Build : e = Entry(k, c)
    BY <1>2, <1>3 DEF Entries, NoEntry, Entry
  <2>2. [e EXCEPT !.pin = b] = Entry(k, b)
    BY <2>1 DEF Entry
  <2> QED
    BY <2>1, <2>2 DEF Entries, Entry
<1> QED
  BY <1>1, <1>2, <1>3

\* A deletion of builds B publishes every policy on one of them, with edits that pin none
\* of B, unlock no kiosk and keep to an ATAK version while they can.
Withdrawn(B, E) ==
    /\ B \subseteq Stocked /\ E \in Edits
    /\ \A p \in DOMAIN E : E[p].pin \in {0} \cup (Stocked \ B)
    /\ \A p \in Policy \ DOMAIN E : pins[p].pin \notin B
    /\ \A p \in DOMAIN E :
          LET b == pins[p].pin
              fitting == {v \in Stocked \ B : library[v].line = library[b].line}
          IN  /\ pins[p].kind = "kiosk" => E[p].kind = "kiosk"
              /\ b \in B /\ fitting # {} =>
                    E[p].pin \in fitting /\ \A v \in fitting : v <= E[p].pin

LEMMA VersionWithdrawn ==
    ASSUME ConstantsFit, Shaped, NEW b \in Stocked, Replacement(b) # 0
    PROVE  Withdrawn({b}, [p \in {q \in Policy : pins[q].pin = b} |->
                             [pins[p] EXCEPT !.pin = Replacement(b)]])
<1> DEFINE new == Replacement(b)
           P == {q \in Policy : pins[q].pin = b}
           E == [p \in P |-> [pins[p] EXCEPT !.pin = new]]
           fitting == {v \in Stocked \ {b} : library[v].line = library[b].line}
<1>1. new \in Stocked \ {b}
      /\ (fitting # {} => new \in fitting /\ \A v \in fitting : v <= new)
  BY ReplacementIs DEF ConstantsFit
<1>2. new \in Build /\ b \in Build
  BY <1>1 DEF Stocked
<1> HIDE DEF new, fitting
<1>3. ASSUME NEW p \in P
      PROVE  E[p] \in Entries /\ E[p].kind = pins[p].kind /\ E[p].pin = new
  <2>1. pins[p] \in Entries /\ pins[p].pin = b
    BY DEF Shaped
  <2> QED
    BY <1>2, <2>1, EntriesAre
<1>4. DOMAIN E = P /\ P \in SUBSET Policy /\ E \in [P -> Entries]
  BY <1>3
<1> HIDE DEF E
<1>5. E \in Edits
  BY <1>4 DEF Edits
<1>6. \A p \in DOMAIN E : E[p].pin \in {0} \cup (Stocked \ {b})
  BY <1>1, <1>3, <1>4
<1>7. \A p \in Policy \ DOMAIN E : pins[p].pin \notin {b}
  BY <1>4
<1>8. ASSUME NEW p \in DOMAIN E
      PROVE  LET c == pins[p].pin
                 F == {v \in Stocked \ {b} : library[v].line = library[c].line}
             IN  /\ pins[p].kind = "kiosk" => E[p].kind = "kiosk"
                 /\ c \in {b} /\ F # {} => E[p].pin \in F /\ \A v \in F : v <= E[p].pin
  <2>1. pins[p].pin = b /\ E[p].kind = pins[p].kind /\ E[p].pin = new
    BY <1>3, <1>4
  <2> QED
    BY <1>1, <2>1 DEF fitting
<1>9. Withdrawn({b}, E)
  BY <1>5, <1>6, <1>7, <1>8 DEF Withdrawn
<1> QED
  BY <1>9 DEF E, new

LEMMA PackageWithdrawn ==
    ASSUME ConstantsFit, Shaped, \A p \in Policy : ~StripRefused(p)
    PROVE  Withdrawn(Stocked, [p \in {q \in Policy : pins[q] # NoEntry} |-> NoEntry])
<1> DEFINE P == {q \in Policy : pins[q] # NoEntry}
           E == [p \in P |-> NoEntry]
<1>1. DOMAIN E = P /\ P \in SUBSET Policy /\ E \in [P -> Entries]
      /\ \A p \in P : E[p].pin = 0
  BY EntriesAre
<1>2. E \in Edits
  BY <1>1 DEF Edits
<1>3. \A p \in Policy \ P : pins[p].pin \notin Stocked
  BY EntriesAre DEF Stocked
<1>4. \A p \in Policy : pins[p].kind # "kiosk"
  BY DEF StripRefused
<1>5. Stocked \ Stocked = {}
  OBVIOUS
<1> HIDE DEF E
<1>6. Withdrawn(Stocked, E)
  BY <1>1, <1>2, <1>3, <1>4, <1>5 DEF Withdrawn
<1> QED
  BY <1>6 DEF E

LEMMA FileWithdrawn ==
    ASSUME Shaped
    PROVE  Withdrawn({}, [p \in {} |-> NoEntry])
<1> DEFINE E == [p \in {} |-> NoEntry]
<1>1. DOMAIN E = {} /\ E \in [{} -> Entries] /\ {} \in SUBSET Policy
  OBVIOUS
<1>2. E \in Edits
  BY <1>1, Zenon DEF Edits
<1> QED
  BY <1>1, <1>2 DEF Withdrawn

-----------------------------------------------------------------------------
(* Uploads, policies and downloads                                         *)

LEMMA BeginUpload ==
    ASSUME ConstantsFit, Sound, NEW u \in Uploads, upload' = u, Put(u.parts), u.parts # {},
           u.build # 0 => u.row \in Rows /\ u.parts = {u.build} \cup u.row.shares
                          /\ library[u.build] = Nothing,
           UNCHANGED <<library, file, artifact, pins, deletions, raced>>
    PROVE  Sound'
<1>1. /\ blob' = blob \cup u.parts
      /\ spoiled' = (spoiled \ u.parts) \cup (u.parts \cap Condemned)
      /\ blob \cup spoiled \subseteq blob' \cup spoiled'
  BY DEF Put
<1>2. Shaped' /\ Uploading'
  BY <1>1 DEF Sound, Shaped, Uploading
<1>3. Stocked' = Stocked /\ (\A b \in Stocked : Parts(b)' = Parts(b)) /\ Leaving' = Leaving
  BY DEF Stocked, Parts, Leaving
<1>4. Deleting' /\ Referenced' /\ PinsAreStocked'
  BY <1>3 DEF Sound, Deleting, Referenced, PinsAreStocked
<1>5. ASSUME NEW d \in deletions, NEW x \in d.free \ spoiled'
      PROVE  x \notin spoiled /\ x \notin u.parts
  BY <1>1, <1>5 DEF Condemned
<1>6. Blobs'
  <2>1. \A b \in Stocked' : \A x \in Parts(b)' : Has(b, x)'
    BY <1>1, <1>3 DEF Sound, Blobs, Has
  <2>2. file' # Nothing => \/ file' \in blob' \cup spoiled'
                           \/ \E d \in deletions' : file' \in d.unlinked
    BY <1>1 DEF Sound, Blobs
  <2>3. \A d \in deletions' : \A x \in d.free \ spoiled' :
           /\ \A b \in Stocked' \ d.builds : x \notin Parts(b)'
           /\ upload' # Nothing => x \notin upload'.parts
    BY <1>3, <1>5 DEF Sound, Blobs
  <2> QED
    BY <2>1, <2>2, <2>3 DEF Blobs
<1> QED
  BY <1>2, <1>4, <1>6 DEF Sound

LEMMA UploadBuildSound ==
    ASSUME ConstantsFit, Sound, NEW a \in Apk, UploadBuild(a)
    PROVE  Sound'
<1> DEFINE row == [line |-> a.line, shares |-> a.shares]
           u == [build |-> a.build, row |-> row, parts |-> {a.build} \cup a.shares]
<1>1. row \in Rows /\ row.shares = a.shares
  BY DEF Rows, ConstantsFit
<1>2. a.build \in 0 .. MaxBuilds /\ {a.build} \cup a.shares \subseteq Content
  BY DEF Build, ConstantsFit, Content, Digest
<1>3. u \in Uploads /\ u.build = a.build /\ u.row = row /\ u.parts = {a.build} \cup a.shares
  <2> HIDE DEF row
  <2> QED
    BY <1>1, <1>2 DEF Uploads
<1>4. upload' = u /\ Put({a.build} \cup a.shares) /\ library[a.build] = Nothing
      /\ UNCHANGED <<library, file, artifact, pins, deletions, raced>>
  BY DEF UploadBuild
<1> HIDE DEF u, row
<1> QED
  BY <1>1, <1>3, <1>4, BeginUpload

LEMMA UploadFileSound ==
    ASSUME ConstantsFit, Sound, NEW d \in FileDigest, UploadFile(d)
    PROVE  Sound'
<1> DEFINE u == [build |-> 0, row |-> Nothing, parts |-> {d}]
<1>1. u \in Uploads /\ u.build = 0 /\ u.parts = {d}
  BY DEF Uploads, Content, ConstantsFit
<1>2. upload' = u /\ Put({d}) /\ UNCHANGED <<library, file, artifact, pins, deletions, raced>>
  BY DEF UploadFile
<1> HIDE DEF u
<1> QED
  BY <1>1, <1>2, BeginUpload

LEMMA UploadCommitSound ==
    ASSUME ConstantsFit, Sound, UploadCommit
    PROVE  Sound'
<1>1. upload \in Uploads /\ upload # Nothing /\ upload' = Nothing /\ Uploading'
  BY DEF Sound, Shaped, UploadCommit, Uploading
<1>2. UNCHANGED <<blob, pins, deletions, spoiled, raced>>
      /\ artifact' = artifact \cup upload.parts /\ Leaving' = Leaving
  BY DEF UploadCommit, Leaving
<1>3. upload.parts # {} /\ upload.parts \subseteq blob \cup spoiled
      /\ upload.parts \subseteq Content
  BY <1>1 DEF Sound, Uploading, Uploads
<1>4. CASE upload.build = 0
  <2>1. file' \in upload.parts /\ library' = library
    BY <1>3, <1>4 DEF UploadCommit
  <2>2. Stocked' = Stocked /\ \A b \in Stocked : Parts(b)' = Parts(b)
    BY <2>1 DEF Stocked, Parts
  <2>3. Shaped'
    BY <1>1, <1>2, <1>3, <2>1 DEF Sound, Shaped
  <2>4. Deleting' /\ PinsAreStocked' /\ Referenced'
    BY <1>2, <2>1, <2>2 DEF Sound, Deleting, PinsAreStocked, Referenced
  <2>5. Blobs'
    BY <1>1, <1>2, <1>3, <2>1, <2>2 DEF Sound, Blobs, Has
  <2> QED
    BY <1>1, <2>3, <2>4, <2>5 DEF Sound
<1>5. CASE upload.build # 0
  <2>1. PICK b \in Build :
           /\ b = upload.build /\ library[b] = Nothing
           /\ upload.row \in Rows /\ upload.parts = {b} \cup upload.row.shares
    BY <1>1, <1>5 DEF Sound, Uploading, Uploads, Build, ConstantsFit
  <2>2. library' = [library EXCEPT ![b] = upload.row] /\ file' = file
    BY <1>5, <2>1 DEF UploadCommit
  <2>3. library \in [Build -> Rows \cup {Nothing}] /\ upload.row # Nothing
    BY <2>1 DEF Sound, Shaped, ConstantsFit
  <2>4. library' \in [Build -> Rows \cup {Nothing}] /\ library'[b] = upload.row
        /\ \A c \in Build : c # b => library'[c] = library[c]
    BY <2>1, <2>2, <2>3
  <2>5. Stocked' = Stocked \cup {b} /\ b \notin Stocked
    BY <2>1, <2>3, <2>4 DEF Stocked
  <2>6. Shaped'
    BY <1>1, <1>2, <2>2, <2>4 DEF Sound, Shaped
  <2>7. Deleting'
    BY <1>2, <2>5 DEF Sound, Deleting
  <2>8. PinsAreStocked' /\ Referenced'
    BY <1>2, <2>2, <2>5 DEF Sound, PinsAreStocked, Referenced
  <2>9. Parts(b)' = upload.parts /\ \A c \in Stocked : Parts(c)' = Parts(c)
    BY <2>1, <2>4, <2>5 DEF Parts, Stocked
  <2>10. Blobs'
    <3>1. \A c \in Stocked' : \A x \in Parts(c)' : Has(c, x)'
      BY <1>2, <1>3, <2>5, <2>9 DEF Sound, Blobs, Has
    <3>2. file' # Nothing => \/ file' \in blob' \cup spoiled'
                             \/ \E d \in deletions' : file' \in d.unlinked
      BY <1>2, <2>2 DEF Sound, Blobs
    <3>3. \A d \in deletions' : \A x \in d.free \ spoiled' :
             /\ \A c \in Stocked' \ d.builds : x \notin Parts(c)'
             /\ upload' # Nothing => x \notin upload'.parts
      BY <1>1, <1>2, <2>5, <2>9 DEF Sound, Blobs
    <3> QED
      BY <3>1, <3>2, <3>3 DEF Blobs
  <2> QED
    BY <1>1, <2>6, <2>7, <2>8, <2>10 DEF Sound
<1> QED
  BY <1>4, <1>5

LEMMA UploadFailsSound ==
    ASSUME ConstantsFit, Sound, UploadFails
    PROVE  Sound'
<1>1. upload' = Nothing
      /\ UNCHANGED <<library, file, artifact, blob, pins, deletions, spoiled, raced>>
  BY DEF UploadFails
<1>2. Stocked' = Stocked /\ (\A b \in Stocked : Parts(b)' = Parts(b)) /\ Leaving' = Leaving
  BY <1>1 DEF Stocked, Parts, Leaving
<1>3. Shaped' /\ Uploading' /\ Referenced'
  BY <1>1 DEF Sound, Shaped, Uploading, Referenced
<1>4. Deleting' /\ PinsAreStocked' /\ Blobs'
  BY <1>1, <1>2 DEF Sound, Deleting, PinsAreStocked, Blobs, Has
<1> QED
  BY <1>3, <1>4 DEF Sound

LEMMA SavePolicySound ==
    ASSUME ConstantsFit, Sound, NEW p \in Policy, SavePolicy(p)
    PROVE  Sound'
<1>1. PICK e \in Entries :
         /\ pins' = [pins EXCEPT ![p] = e]
         /\ raced' = IF e.pin \in {0} \cup (Stocked \ Leaving)
                     THEN raced \ {p} ELSE raced \cup {p}
  BY DEF SavePolicy
<1>2. UNCHANGED <<library, file, artifact, blob, upload, deletions, spoiled>>
      /\ \A d \in deletions : p \notin DOMAIN d.edits
  BY DEF SavePolicy
<1>3. pins \in [Policy -> Entries] /\ pins' \in [Policy -> Entries]
      /\ pins'[p] = e /\ \A q \in Policy : q # p => pins'[q] = pins[q]
  BY <1>1 DEF Sound, Shaped
<1>4. Stocked' = Stocked /\ (\A b \in Stocked : Parts(b)' = Parts(b)) /\ Leaving' = Leaving
  BY <1>2 DEF Stocked, Parts, Leaving
<1>5. Shaped' /\ Uploading' /\ Referenced' /\ Blobs'
  BY <1>2, <1>3, <1>4 DEF Sound, Shaped, Uploading, Referenced, Blobs, Has
<1>6. ASSUME NEW q \in Policy \ raced'
      PROVE  IF q = p THEN e.pin \in {0} \cup (Stocked \ Leaving) ELSE q \notin raced
  BY <1>1
<1>7. PinsAreStocked'
  BY <1>3, <1>4, <1>6 DEF Sound, PinsAreStocked
<1>8. ASSUME NEW d \in deletions, NEW q \in Policy \ raced'
      PROVE  IF q \in DOMAIN d.edits THEN d.edits[q].pin \in {0} \cup (Stocked \ Leaving)
                                     ELSE pins'[q].pin \notin d.builds
  <2>1. CASE q = p
    <3>1. e.pin \notin d.builds \/ p \in raced'
      <4>1. d.builds \subseteq Leaving /\ 0 \notin d.builds
        BY EntriesAre DEF Leaving, Sound, Deleting, Stocked
      <4> QED
        BY <1>1, <4>1
    <3> QED
      BY <1>2, <1>3, <2>1, <3>1
  <2>2. CASE q # p
    BY <1>3, <1>6, <2>2 DEF Sound, Deleting
  <2> QED
    BY <2>1, <2>2
<1>9. Deleting'
  BY <1>2, <1>4, <1>8 DEF Sound, Deleting
<1> QED
  BY <1>5, <1>7, <1>9 DEF Sound

-----------------------------------------------------------------------------
(* Deletions, from the first statement to the commit                       *)

LEMMA WithdrawSound ==
    ASSUME ConstantsFit, Sound, NEW B, NEW gone \in BOOLEAN, NEW E, Withdraw(B, gone, E),
           Withdrawn(B, E), gone => file # Nothing
    PROVE  Sound'
<1> DEFINE n == [builds |-> B, file |-> gone, edits |-> E,
                 left |-> IF gone THEN {file} ELSE PartsOf(B), free |-> {}, unlinked |-> {}]
<1>1. UNCHANGED <<library, file, artifact, blob, pins, upload, spoiled>>
      /\ deletions' = deletions \cup {n}
      /\ raced' = raced \cup {p \in DOMAIN E : E[p].pin \in Leaving}
                      \cup {p \in Policy : \E d \in deletions :
                                p \in DOMAIN d.edits /\ d.edits[p].pin \in B}
      /\ \A d \in deletions : d.builds \cap B = {}
  BY DEF Withdraw
<1>2. n \in Deletions /\ n.builds = B /\ n.edits = E /\ n.free = {} /\ n.unlinked = {}
  <2>1. PartsOf(B) \subseteq Content
    BY StockedRows DEF PartsOf, Withdrawn, Sound
  <2>2. n.left \in SUBSET Content
    BY <2>1 DEF Sound, Shaped
  <2> QED
    BY <2>2 DEF Withdrawn, Deletions, Stocked
<1> HIDE DEF n
<1>3. Stocked' = Stocked /\ (\A b \in Stocked : Parts(b)' = Parts(b))
  BY <1>1 DEF Stocked, Parts
<1>4. Leaving' = Leaving \cup B
  BY <1>1, <1>2 DEF Leaving
<1>5. Shaped' /\ Uploading' /\ Referenced'
  BY <1>1, <1>2 DEF Sound, Shaped, Uploading, Referenced
<1>6. PinsAreStocked'
  BY <1>1, <1>3 DEF Sound, PinsAreStocked
<1>7. Blobs'
  BY <1>1, <1>2, <1>3 DEF Sound, Blobs, Has
<1>8. \A d, e \in deletions' : d # e => d.builds \cap e.builds = {}
  BY <1>1, <1>2 DEF Sound, Deleting
<1>9. ASSUME NEW d \in deletions, NEW p \in Policy \ raced'
      PROVE  IF p \in DOMAIN d.edits THEN d.edits[p].pin \in {0} \cup (Stocked \ (Leaving \cup B))
                                     ELSE pins[p].pin \notin d.builds
  <2>1. p \notin raced /\ (p \in DOMAIN d.edits => d.edits[p].pin \notin B)
    BY <1>1, <1>9
  <2> QED
    BY <2>1 DEF Sound, Deleting
<1>10. ASSUME NEW p \in Policy \ raced'
       PROVE  IF p \in DOMAIN E THEN E[p].pin \in {0} \cup (Stocked \ (Leaving \cup B))
                                ELSE pins[p].pin \notin B
  <2>1. p \in DOMAIN E => E[p].pin \notin Leaving
    BY <1>1, <1>10
  <2> QED
    BY <2>1 DEF Withdrawn
<1>11. Deleting'
  <2>1. ASSUME NEW d \in deletions'
        PROVE  /\ d.builds \subseteq Stocked
               /\ \A p \in Policy \ raced' :
                     IF p \in DOMAIN d.edits
                     THEN d.edits[p].pin \in {0} \cup (Stocked \ (Leaving \cup B))
                     ELSE pins[p].pin \notin d.builds
    <3>1. CASE d \in deletions
      BY <1>9, <3>1 DEF Sound, Deleting
    <3>2. CASE d = n
      BY <1>2, <1>10, <3>2 DEF Withdrawn
    <3> QED
      BY <1>1, <3>1, <3>2
  <2> QED
    BY <1>1, <1>3, <1>4, <1>8, <2>1 DEF Deleting
<1> QED
  BY <1>5, <1>6, <1>7, <1>11 DEF Sound

\* A deletion that goes on, with its builds and edits, keeps what is said of deletions.
LEMMA BecomesKeeps ==
    ASSUME Sound, NEW d \in deletions, NEW e \in Deletions, Becomes(d, e),
           e.builds = d.builds, e.edits = d.edits,
           UNCHANGED <<library, file, artifact, pins, upload, raced>>
    PROVE  /\ Shaped' /\ Deleting' /\ Referenced' /\ PinsAreStocked'
           /\ Stocked' = Stocked /\ (\A b \in Stocked : Parts(b)' = Parts(b))
           /\ deletions' = (deletions \ {d}) \cup {e}
<1>1. deletions' = (deletions \ {d}) \cup {e}
  BY DEF Becomes
<1>2. Stocked' = Stocked /\ (\A b \in Stocked : Parts(b)' = Parts(b))
  BY DEF Stocked, Parts
<1>3. Leaving' = Leaving
  BY <1>1 DEF Leaving
<1>4. Shaped' /\ Referenced' /\ PinsAreStocked'
  BY <1>1, <1>2 DEF Sound, Shaped, Referenced, PinsAreStocked
<1>5. \A c, f \in deletions' : c # f => c.builds \cap f.builds = {}
  BY <1>1 DEF Sound, Deleting
<1>6. ASSUME NEW c \in deletions'
      PROVE  \E f \in deletions : f.builds = c.builds /\ f.edits = c.edits
  BY <1>1
<1>7. Deleting'
  BY <1>2, <1>3, <1>5, <1>6 DEF Sound, Deleting
<1> QED
  BY <1>1, <1>2, <1>4, <1>7

LEMMA AskSound ==
    ASSUME ConstantsFit, Sound, NEW d \in deletions, Ask(d)
    PROVE  Sound'
<1>1. d \in Deletions /\ d.free = {}
      /\ UNCHANGED <<library, file, artifact, blob, pins, upload, raced>>
  BY DEF Sound, Shaped, Ask
<1>2. PICK x \in d.left :
         \/ /\ Becomes(d, [d EXCEPT !.left = @ \ {x}]) /\ UNCHANGED spoiled
         \/ /\ ~StillUsed(d, x)
            /\ Becomes(d, [d EXCEPT !.left = @ \ {x}, !.free = {x}])
            /\ spoiled' = IF upload = Nothing THEN spoiled
                          ELSE spoiled \cup ({x} \cap upload.parts)
  BY DEF Ask
<1>3. x \in Content
  BY <1>1 DEF Deletions
<1>4. CASE Becomes(d, [d EXCEPT !.left = @ \ {x}]) /\ UNCHANGED spoiled
  <2> DEFINE e == [d EXCEPT !.left = @ \ {x}]
  <2>1. e \in Deletions /\ e.builds = d.builds /\ e.edits = d.edits /\ e.free = {}
        /\ e.unlinked = d.unlinked /\ Becomes(d, e)
    BY <1>1, <1>4 DEF Deletions
  <2> HIDE DEF e
  <2>2. /\ Shaped' /\ Deleting' /\ Referenced' /\ PinsAreStocked'
        /\ Stocked' = Stocked /\ (\A b \in Stocked : Parts(b)' = Parts(b))
        /\ deletions' = (deletions \ {d}) \cup {e}
    BY <1>1, <2>1, BecomesKeeps
  <2>3. Uploading'
    BY <1>1, <1>4 DEF Sound, Uploading
  <2>4. Blobs'
    <3>1. \A b \in Stocked' : \A y \in Parts(b)' : Has(b, y)'
      BY <1>1, <1>4, <2>1, <2>2 DEF Sound, Blobs, Has
    <3>2. file' # Nothing => \/ file' \in blob' \cup spoiled'
                             \/ \E c \in deletions' : file' \in c.unlinked
      BY <1>1, <1>4, <2>1, <2>2 DEF Sound, Blobs
    <3>3. \A c \in deletions' : \A y \in c.free \ spoiled' :
             /\ \A b \in Stocked' \ c.builds : y \notin Parts(b)'
             /\ upload' # Nothing => y \notin upload'.parts
      BY <1>1, <1>4, <2>1, <2>2 DEF Sound, Blobs
    <3> QED
      BY <3>1, <3>2, <3>3 DEF Blobs
  <2> QED
    BY <2>2, <2>3, <2>4 DEF Sound
<1>5. CASE /\ ~StillUsed(d, x)
           /\ Becomes(d, [d EXCEPT !.left = @ \ {x}, !.free = {x}])
           /\ spoiled' = IF upload = Nothing THEN spoiled
                         ELSE spoiled \cup ({x} \cap upload.parts)
  <2> DEFINE e == [d EXCEPT !.left = @ \ {x}, !.free = {x}]
  <2>1. e \in Deletions /\ e.builds = d.builds /\ e.edits = d.edits /\ e.free = {x}
        /\ e.unlinked = d.unlinked /\ Becomes(d, e)
    BY <1>1, <1>3, <1>5 DEF Deletions
  <2> HIDE DEF e
  <2>2. /\ Shaped' /\ Deleting' /\ Referenced' /\ PinsAreStocked'
        /\ Stocked' = Stocked /\ (\A b \in Stocked : Parts(b)' = Parts(b))
        /\ deletions' = (deletions \ {d}) \cup {e}
    BY <1>1, <2>1, BecomesKeeps
  <2>3. spoiled \subseteq spoiled'
    BY <1>5
  <2>4. Uploading'
    BY <1>1, <2>3 DEF Sound, Uploading
  <2>5. /\ \A b \in Stocked \ e.builds : x \notin Parts(b)
        /\ upload # Nothing /\ x \notin spoiled' => x \notin upload.parts
    BY <1>5, <2>1 DEF StillUsed, PartsOf
  <2>6. Blobs'
    <3>1. \A b \in Stocked' : \A y \in Parts(b)' : Has(b, y)'
      BY <1>1, <2>1, <2>2, <2>3 DEF Sound, Blobs, Has
    <3>2. file' # Nothing => \/ file' \in blob' \cup spoiled'
                             \/ \E c \in deletions' : file' \in c.unlinked
      BY <1>1, <2>1, <2>2, <2>3 DEF Sound, Blobs
    <3>3. ASSUME NEW c \in deletions', NEW y \in c.free \ spoiled'
          PROVE  /\ \A b \in Stocked' \ c.builds : y \notin Parts(b)'
                 /\ upload' # Nothing => y \notin upload'.parts
      <4>1. CASE c = e
        BY <1>1, <2>1, <2>2, <2>5, <3>3, <4>1
      <4>2. CASE c \in deletions
        BY <1>1, <2>2, <2>3, <3>3, <4>2 DEF Sound, Blobs
      <4> QED
        BY <2>2, <4>1, <4>2
    <3> QED
      BY <3>1, <3>2, <3>3 DEF Blobs
  <2> QED
    BY <2>2, <2>4, <2>6 DEF Sound
<1> QED
  BY <1>2, <1>4, <1>5

LEMMA UnlinkSound ==
    ASSUME ConstantsFit, Sound, NEW d \in deletions, Unlink(d)
    PROVE  Sound'
<1> DEFINE e == [d EXCEPT !.free = {}, !.unlinked = @ \cup d.free]
<1>1. d \in Deletions /\ blob' = blob \ d.free
      /\ UNCHANGED <<library, file, artifact, pins, upload, spoiled, raced>>
  BY DEF Sound, Shaped, Unlink
<1>2. e \in Deletions /\ e.builds = d.builds /\ e.edits = d.edits /\ e.free = {}
      /\ e.unlinked = d.unlinked \cup d.free /\ Becomes(d, e)
  BY <1>1 DEF Deletions, Unlink
<1> HIDE DEF e
<1>3. /\ Shaped' /\ Deleting' /\ Referenced' /\ PinsAreStocked'
      /\ Stocked' = Stocked /\ (\A b \in Stocked : Parts(b)' = Parts(b))
      /\ deletions' = (deletions \ {d}) \cup {e}
  BY <1>1, <1>2, BecomesKeeps
<1>4. Uploading'
  BY <1>1 DEF Sound, Uploading, Blobs
<1>5. ASSUME NEW b \in Stocked, NEW x \in Parts(b)
      PROVE  Has(b, x)'
  <2>1. CASE x \in blob \cup spoiled
    <3>1. CASE x \in d.free \ spoiled
      <4>1. b \in e.builds /\ x \in e.unlinked
        BY <1>2, <3>1 DEF Sound, Blobs
      <4> QED
        BY <1>3, <4>1 DEF Has
    <3>2. CASE x \notin d.free \ spoiled
      BY <1>1, <2>1, <3>2 DEF Has
    <3> QED
      BY <3>1, <3>2
  <2>2. CASE x \notin blob \cup spoiled
    <3>1. PICK c \in deletions : b \in c.builds /\ x \in c.unlinked
      BY <2>2 DEF Sound, Blobs, Has
    <3>2. \E f \in deletions' : b \in f.builds /\ x \in f.unlinked
      BY <1>2, <1>3, <3>1
    <3> QED
      BY <3>2 DEF Has
  <2> QED
    BY <2>1, <2>2
<1>6. Blobs'
  <2>1. \A b \in Stocked' : \A x \in Parts(b)' : Has(b, x)'
    BY <1>3, <1>5
  <2>2. file' # Nothing => \/ file' \in blob' \cup spoiled'
                           \/ \E c \in deletions' : file' \in c.unlinked
    BY <1>1, <1>2, <1>3 DEF Sound, Blobs
  <2>3. \A c \in deletions' : \A x \in c.free \ spoiled' :
           /\ \A b \in Stocked' \ c.builds : x \notin Parts(b)'
           /\ upload' # Nothing => x \notin upload'.parts
    BY <1>1, <1>2, <1>3 DEF Sound, Blobs
  <2> QED
    BY <2>1, <2>2, <2>3 DEF Blobs
<1> QED
  BY <1>3, <1>4, <1>6 DEF Sound

LEMMA DeletionCommitSound ==
    ASSUME ConstantsFit, Sound, NEW d \in deletions, DeletionCommit(d)
    PROVE  Sound'
<1>1. /\ library' = [b \in Build |-> IF b \in d.builds THEN Nothing ELSE library[b]]
      /\ file' = IF d.file THEN Nothing ELSE file
      /\ artifact' = artifact \ d.unlinked
      /\ pins' = [p \in Policy |-> IF p \in DOMAIN d.edits THEN d.edits[p] ELSE pins[p]]
      /\ deletions' = deletions \ {d}
      /\ UNCHANGED <<blob, upload, spoiled, raced>>
      /\ d.unlinked \cap artifact \cap StillReferenced(d) = {}
  BY DEF DeletionCommit, Refused
<1>2. d \in Deletions /\ d.builds \subseteq Stocked
      /\ library \in [Build -> Rows \cup {Nothing}] /\ pins \in [Policy -> Entries]
  BY DEF Sound, Shaped, Deleting
<1>3. Stocked' = Stocked \ d.builds /\ \A b \in Stocked' : Parts(b)' = Parts(b)
  BY <1>1, <1>2 DEF Stocked, Parts
<1>4. Leaving' = Leaving \ d.builds
  BY <1>1 DEF Sound, Deleting, Leaving
<1>5. d.edits \in Edits /\ \A p \in DOMAIN d.edits : d.edits[p] \in Entries
  BY <1>2 DEF Deletions, Edits
<1>6. pins' \in [Policy -> Entries]
  BY <1>1, <1>2, <1>5
<1>7. Shaped'
  BY <1>1, <1>2, <1>6 DEF Sound, Shaped
<1>8. Uploading'
  <2>1. ASSUME upload # Nothing, upload.build # 0
        PROVE  library'[upload.build] = Nothing
    <3>1. upload.build \in Build
      BY <2>1 DEF Sound, Shaped, Uploads, Build, ConstantsFit
    <3> QED
      BY <1>1, <2>1, <3>1 DEF Sound, Uploading
  <2> QED
    BY <1>1, <2>1 DEF Sound, Uploading
<1>9. ASSUME NEW p \in Policy \ raced
      PROVE  IF p \in DOMAIN d.edits
             THEN pins'[p] = d.edits[p] /\ pins'[p].pin \in {0} \cup (Stocked \ Leaving)
             ELSE pins'[p] = pins[p] /\ pins[p].pin \notin d.builds
  BY <1>1 DEF Sound, Deleting
<1>10. d.builds \subseteq Leaving
  BY DEF Leaving
<1>11. PinsAreStocked'
  BY <1>1, <1>3, <1>9, <1>10 DEF Sound, PinsAreStocked
<1>12. file' # Nothing => file' = file /\ file \in artifact /\ file \notin d.unlinked
  BY <1>1 DEF Sound, Referenced, StillReferenced
<1>13. Referenced'
  BY <1>1, <1>12 DEF Referenced
<1>14. ASSUME NEW c \in deletions'
       PROVE  /\ c \in deletions /\ c # d /\ c.builds \subseteq Stocked'
              /\ 0 \notin c.builds /\ c.builds \subseteq Leaving
              /\ \A p \in Policy \ raced' :
                    IF p \in DOMAIN c.edits
                    THEN c.edits[p].pin \in {0} \cup (Stocked' \ Leaving')
                    ELSE pins'[p].pin \notin c.builds
  <2>1. c \in deletions /\ c # d /\ c.builds \cap d.builds = {} /\ c.builds \subseteq Stocked
        /\ c.builds \subseteq Leaving
    BY <1>1 DEF Sound, Deleting, Leaving
  <2>2. 0 \notin c.builds
    BY <2>1, EntriesAre DEF Stocked
  <2>3. ASSUME NEW p \in Policy \ raced'
        PROVE  IF p \in DOMAIN c.edits THEN c.edits[p].pin \in {0} \cup (Stocked' \ Leaving')
                                       ELSE pins'[p].pin \notin c.builds
    <3>1. p \notin raced
      BY <1>1, <2>3
    <3>2. CASE p \in DOMAIN c.edits
      <4>1. c.edits[p].pin \in {0} \cup (Stocked \ Leaving)
        BY <2>1, <3>1, <3>2 DEF Sound, Deleting
      <4> QED
        BY <1>3, <1>4, <1>10, <3>2, <4>1
    <3>3. CASE p \notin DOMAIN c.edits
      <4>1. pins[p].pin \notin c.builds
        BY <2>1, <3>1, <3>3 DEF Sound, Deleting
      <4> QED
        BY <1>9, <2>1, <2>2, <3>1, <3>3, <4>1
    <3> QED
      BY <3>2, <3>3
  <2> QED
    BY <1>3, <2>1, <2>2, <2>3
<1>15. Deleting'
  BY <1>14 DEF Sound, Deleting
<1>16. Blobs'
  <2>1. ASSUME NEW b \in Stocked', NEW x \in Parts(b)'
        PROVE  Has(b, x)'
    <3>1. b \in Stocked /\ b \notin d.builds /\ x \in Parts(b)
      BY <1>3
    <3> QED
      BY <1>1, <3>1 DEF Sound, Blobs, Has
  <2>2. file' # Nothing => \/ file' \in blob' \cup spoiled'
                           \/ \E c \in deletions' : file' \in c.unlinked
    BY <1>1, <1>12 DEF Sound, Blobs
  <2>3. \A c \in deletions' : \A x \in c.free \ spoiled' :
           /\ \A b \in Stocked' \ c.builds : x \notin Parts(b)'
           /\ upload' # Nothing => x \notin upload'.parts
    BY <1>1, <1>3 DEF Sound, Blobs
  <2> QED
    BY <2>1, <2>2, <2>3 DEF Blobs
<1> QED
  BY <1>7, <1>8, <1>11, <1>13, <1>15, <1>16 DEF Sound

\* Deletions that roll back leave their builds, and what they unlinked is spoiled.
LEMMA RollbackSound ==
    ASSUME ConstantsFit, Sound, NEW D \in SUBSET deletions, deletions' = deletions \ D,
           spoiled' = spoiled \cup UNION {d.unlinked : d \in D},
           upload' \in {upload, Nothing}, UNCHANGED <<library, file, artifact, blob, pins, raced>>
    PROVE  Sound'
<1>1. Stocked' = Stocked /\ (\A b \in Stocked : Parts(b)' = Parts(b)) /\ Leaving' \subseteq Leaving
  BY DEF Stocked, Parts, Leaving
<1>2. Shaped' /\ Uploading' /\ Referenced' /\ PinsAreStocked'
  BY <1>1 DEF Sound, Shaped, Uploading, Referenced, PinsAreStocked
<1>3. Deleting'
  <2>1. ASSUME NEW d \in deletions', NEW p \in Policy \ raced'
        PROVE  IF p \in DOMAIN d.edits THEN d.edits[p].pin \in {0} \cup (Stocked \ Leaving')
                                       ELSE pins'[p].pin \notin d.builds
    BY <1>1, <2>1 DEF Sound, Deleting
  <2> QED
    BY <1>1, <2>1 DEF Sound, Deleting
<1>4. ASSUME NEW b, NEW x, Has(b, x)
      PROVE  Has(b, x)'
  BY <1>4 DEF Has
<1>5. Blobs'
  <2>1. \A b \in Stocked' : \A x \in Parts(b)' : Has(b, x)'
    BY <1>1, <1>4 DEF Sound, Blobs
  <2>2. file' # Nothing => \/ file' \in blob' \cup spoiled'
                           \/ \E c \in deletions' : file' \in c.unlinked
    BY DEF Sound, Blobs
  <2>3. \A c \in deletions' : \A x \in c.free \ spoiled' :
           /\ \A b \in Stocked' \ c.builds : x \notin Parts(b)'
           /\ upload' # Nothing => x \notin upload'.parts
    BY <1>1 DEF Sound, Blobs
  <2> QED
    BY <2>1, <2>2, <2>3 DEF Blobs
<1> QED
  BY <1>2, <1>3, <1>5 DEF Sound

LEMMA DeletionRefusedSound ==
    ASSUME ConstantsFit, Sound, NEW d \in deletions, DeletionRefused(d)
    PROVE  Sound'
<1> DEFINE D == {d}
<1>1. D \in SUBSET deletions /\ UNION {c.unlinked : c \in D} = d.unlinked
  OBVIOUS
<1>2. /\ deletions' = deletions \ D
      /\ spoiled' = spoiled \cup UNION {c.unlinked : c \in D}
      /\ UNCHANGED <<library, file, artifact, blob, pins, upload, raced>>
  BY <1>1 DEF DeletionRefused
<1> HIDE DEF D
<1> QED
  BY <1>1, <1>2, RollbackSound

LEMMA CrashSound ==
    ASSUME ConstantsFit, Sound, Crash
    PROVE  Sound'
<1>1. deletions' = deletions \ deletions
  BY DEF Crash
<1> QED
  BY <1>1, RollbackSound DEF Crash

\* Each beginning of a deletion.
LEMMA Begins ==
    ASSUME ConstantsFit, Sound,
           (\E b \in Build : DeleteVersion(b)) \/ DeletePackage \/ DeleteFile
    PROVE  \E B, E : \E gone \in BOOLEAN :
              Withdraw(B, gone, E) /\ Withdrawn(B, E) /\ (gone => file # Nothing)
<1>1. ASSUME NEW b \in Build, DeleteVersion(b)
      PROVE  \E B, E : Withdraw(B, FALSE, E) /\ Withdrawn(B, E)
  BY <1>1, VersionWithdrawn, Zenon DEF DeleteVersion, Sound
<1>2. ASSUME DeletePackage
      PROVE  \E B, E : Withdraw(B, FALSE, E) /\ Withdrawn(B, E)
  BY <1>2, PackageWithdrawn, Zenon DEF DeletePackage, Sound
<1>3. ASSUME DeleteFile
      PROVE  \E B, E : Withdraw(B, TRUE, E) /\ Withdrawn(B, E) /\ file # Nothing
  BY <1>3, FileWithdrawn, Zenon DEF DeleteFile, Sound
<1> QED
  BY <1>1, <1>2, <1>3, Zenon

LEMMA StepSound ==
    ASSUME ConstantsFit, Sound, [Next]_libraryVars
    PROVE  Sound'
<1>1. CASE UNCHANGED libraryVars
  BY <1>1 DEF libraryVars, Sound, Shaped, Uploading, Deleting, Referenced, PinsAreStocked,
     Blobs, Has, Leaving, Stocked, Parts
<1>2. CASE (\E b \in Build : DeleteVersion(b)) \/ DeletePackage \/ DeleteFile
  BY <1>2, Begins, WithdrawSound
<1>3. CASE Download
  BY <1>1, <1>3 DEF Download
<1> QED
  BY <1>1, <1>2, <1>3, UploadBuildSound, UploadFileSound, UploadCommitSound, UploadFailsSound,
     SavePolicySound, AskSound, UnlinkSound, DeletionCommitSound, DeletionRefusedSound,
     CrashSound DEF Next

LEMMA SoundImplies == Sound => PinsAreStocked /\ RowsHaveBlobs
  BY DEF Sound, Blobs, Has, RowsHaveBlobs, Leaving, PartsOf

\* What PinsKeepTheirLine says of the step that begins a deletion.
KeepsLine(d) ==
    \A p \in DOMAIN d.edits :
        LET b == pins[p].pin
            fitting == {v \in Stocked \ d.builds : library[v].line = library[b].line}
        IN  /\ pins[p].kind = "kiosk" => d.edits[p].kind = "kiosk"
            /\ (b \in d.builds /\ fitting # {}) =>
                   /\ d.edits[p].pin \in fitting
                   /\ \A v \in fitting : v <= d.edits[p].pin

LEMMA PinsStep ==
    ASSUME ConstantsFit, Sound, [Next]_libraryVars, NEW d \in deletions',
           \A o \in deletions : o.edits # d.edits
    PROVE  KeepsLine(d)
<1>1. CASE (\E b \in Build : DeleteVersion(b)) \/ DeletePackage \/ DeleteFile
  <2>1. PICK B, E : \E gone \in BOOLEAN : Withdraw(B, gone, E) /\ Withdrawn(B, E)
    BY <1>1, Begins
  <2>2. d.builds = B /\ d.edits = E
    BY <2>1 DEF Withdraw
  <2> QED
    BY <2>1, <2>2 DEF Withdrawn, KeepsLine
<1>2. ASSUME NEW c \in deletions, NEW e, Becomes(c, e), e.edits = c.edits
      PROVE  FALSE
  BY <1>2 DEF Becomes
<1>3. ASSUME NEW c \in deletions, Ask(c) \/ Unlink(c)
      PROVE  FALSE
  <2>1. c \in Deletions
    BY DEF Sound, Shaped
  <2>2. \A x : /\ [c EXCEPT !.left = @ \ {x}].edits = c.edits
               /\ [c EXCEPT !.left = @ \ {x}, !.free = {x}].edits = c.edits
    BY <2>1 DEF Deletions
  <2>3. [c EXCEPT !.free = {}, !.unlinked = @ \cup c.free].edits = c.edits
    BY <2>1 DEF Deletions
  <2> QED
    BY <1>2, <1>3, <2>2, <2>3 DEF Ask, Unlink
<1>4. deletions' \subseteq deletions => FALSE
  OBVIOUS
<1> QED
  BY <1>1, <1>3, <1>4 DEF Next, UploadBuild, UploadFile, UploadCommit, UploadFails, SavePolicy,
     DeletionCommit, DeletionRefused, Crash, Download, libraryVars

=============================================================================
