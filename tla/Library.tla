-------------------------------- MODULE Library --------------------------------
(***************************************************************************)
(* The app library of one package: its builds and the managed files, the   *)
(* content-addressed blobs under both, and the policies that pin a build.  *)
(* A deletion takes the build out of every policy and deletes its rows,    *)
(* asks of each digest whether anything still has it and unlinks it if     *)
(* not, and only then commits; an upload stores its blobs and then         *)
(* commits.  Deletions overlap, and one upload may be in flight beside     *)
(* them; a policy may be saved with any build, in the library or not.      *)
(***************************************************************************)
EXTENDS Integers, FiniteSets

CONSTANTS
    MaxBuilds,  \* a build is its versionCode
    Common,     \* digests of parts that builds and files share (splits, OBBs)
    FileDigest, \* digests a managed file may have: some build's base, some part
    Line,       \* ATAK versions a build may be of or for
    Apk,        \* what one may upload: a build, its line, the parts it shares
    Policy,
    Nothing,    \* what an empty place holds
    MaxBegun    \* bound: uploads and deletions begun

VARIABLES
    library,    \* build -> its committed row and parts, or Nothing
    file,       \* the digest of the managed file, or Nothing
    artifact,   \* digests with a committed Artifact row
    blob,       \* digests on the disk
    pins,       \* policy -> what its latest version says of the package
    upload,     \* the upload in flight: blobs stored, nothing committed
    deletions,  \* the deletions in flight: blobs unlinked, nothing committed
    spoiled,    \* digests unlinked by a deletion that then lost its transaction
                \* or met an upload of the same content
    raced,      \* policies given a build the library does not have, or is losing
    begun

libraryVars == <<library, file, artifact, blob, pins, upload, deletions, spoiled,
                 raced, begun>>

Build == 1 .. MaxBuilds
\* The base APK of a build is its own content; what it shares is in Common.
Digest == Build \cup Common

Stocked == {b \in Build : library[b] # Nothing}
Parts(b) == {b} \cup library[b].shares
PartsOf(builds) == UNION {Parts(b) : b \in builds}

\* A policy's entry: a catalog row or a single-app kiosk pinned to a build, a row
\* set to the newest one, or nothing.
Entry(kind, b) == [kind |-> kind, pin |-> b]
NoEntry == Entry("none", 0)
Entries == {NoEntry, Entry("newest", 0)}
               \cup {Entry(k, b) : k \in {"catalog", "kiosk"}, b \in Build}

Init ==
    /\ library = [b \in Build |-> Nothing] /\ file = Nothing
    /\ artifact = {} /\ blob = {}
    /\ pins = [p \in Policy |-> NoEntry]
    /\ upload = Nothing /\ deletions = {}
    /\ spoiled = {} /\ raced = {} /\ begun = 0

Begin == begun < MaxBegun /\ begun' = begun + 1

-----------------------------------------------------------------------------
(* Uploads.                                                                *)

\* What a deletion in flight has asked about and is about to unlink.
Condemned == UNION {d.free : d \in deletions}

\* LocalArtifactStorage.put: a rename into place, unless the digest is there.
Put(digests) ==
    /\ blob' = blob \cup digests
    /\ spoiled' = (spoiled \ digests) \cup (digests \cap Condemned)

\* packages.ingest up to the commit; a versionCode the library has is refused.
UploadBuild(a) ==
    /\ Begin /\ upload = Nothing
    /\ library[a.build] = Nothing
    /\ Put({a.build} \cup a.shares)
    /\ upload' = [build |-> a.build, row |-> [line |-> a.line, shares |-> a.shares],
                  parts |-> {a.build} \cup a.shares]
    /\ UNCHANGED <<library, file, artifact, pins, deletions, raced>>

\* files.ingest_stream up to the commit
UploadFile(d) ==
    /\ Begin /\ upload = Nothing /\ file = Nothing
    /\ Put({d})
    /\ upload' = [build |-> 0, row |-> Nothing, parts |-> {d}]
    /\ UNCHANGED <<library, file, artifact, pins, deletions, raced>>

UploadCommit ==
    /\ upload # Nothing
    /\ IF upload.build = 0
       THEN file' = (CHOOSE d \in upload.parts : TRUE) /\ UNCHANGED library
       ELSE library' = [library EXCEPT ![upload.build] = upload.row] /\ UNCHANGED file
    /\ artifact' = artifact \cup upload.parts
    /\ upload' = Nothing
    /\ UNCHANGED <<blob, pins, deletions, spoiled, raced, begun>>

\* Rolled back, refused by the database, or the client went away: the blobs stay.
UploadFails ==
    /\ upload # Nothing
    /\ upload' = Nothing
    /\ UNCHANGED <<library, file, artifact, blob, pins, deletions, spoiled, raced, begun>>

-----------------------------------------------------------------------------
(* Policies.                                                               *)

\* Builds of the library that a deletion in flight is taking.
Leaving == UNION {d.builds : d \in deletions}

\* upsert_section and the REST publish: an operator saves a policy with any build, of a
\* page rendered before a deletion too, and nothing asks the library.  A version that a
\* deletion in flight is about to write has this one's number (uq_policy_version).
SavePolicy(p) ==
    /\ \A d \in deletions : p \notin DOMAIN d.edits
    /\ \E e \in Entries :
        /\ e # pins[p]
        /\ pins' = [pins EXCEPT ![p] = e]
        /\ raced' = IF e.pin \in {0} \cup (Stocked \ Leaving)
                    THEN raced \ {p} ELSE raced \cup {p}
    /\ UNCHANGED <<library, file, artifact, blob, upload, deletions, spoiled, begun>>

-----------------------------------------------------------------------------
(* Deletions.                                                              *)

NewestOf(builds) == IF builds = {} THEN 0 ELSE CHOOSE v \in builds : \A w \in builds : w <= v

\* Mutants: the newest build, itself included; the newest other, of any version.
ReplacementOrItself(b) == IF Stocked = {b} THEN 0 ELSE NewestOf(Stocked)
ReplacementOfAnyLine(b) == NewestOf(Stocked \ {b})

\* replacement: the newest other build of the same ATAK version, else the newest.
Replacement(b) ==
    LET others == Stocked \ {b}
        sameLine == {v \in others : library[v].line = library[b].line}
    IN  NewestOf(IF sameLine # {} THEN sameLine ELSE others)

\* strip refuses to take the app a kiosk is locked to; nothing is changed then.
StripRefused(p) == pins[p].kind = "kiosk"

\* The transaction's first half: the new versions of the policies named in edits, and the
\* rows gone.  It waits for another deletion of the same rows, and one that publishes
\* the same policy is refused (uq_policy_version).  A policy it moves to a build that
\* another is taking, or the other way round, is left without one.
Withdraw(builds, gone, edits) ==
    /\ Begin
    /\ \A d \in deletions : /\ d.builds \cap builds = {} /\ ~(d.file /\ gone)
                            /\ DOMAIN d.edits \cap DOMAIN edits = {}
    /\ deletions' = deletions \cup
           {[builds |-> builds, file |-> gone, edits |-> edits,
             left |-> IF gone THEN {file} ELSE PartsOf(builds), free |-> {}, unlinked |-> {}]}
    /\ raced' = raced \cup {p \in DOMAIN edits : edits[p].pin \in Leaving}
                     \cup {p \in Policy : \E d \in deletions :
                               p \in DOMAIN d.edits /\ d.edits[p].pin \in builds}
    /\ UNCHANGED <<library, file, artifact, blob, pins, upload, spoiled>>

\* library_withdrawal.delete_version of a build that is not the last: every policy
\* on it moves to its replacement.
DeleteVersion(b) ==
    /\ b \in Stocked /\ Replacement(b) # 0
    /\ Withdraw({b}, FALSE, [p \in {q \in Policy : pins[q].pin = b} |->
                                [pins[p] EXCEPT !.pin = Replacement(b)]])

\* Deleting the package, or its last build: every entry naming it goes.
DeletePackage ==
    /\ Stocked # {}
    /\ \A p \in Policy : ~StripRefused(p)
    /\ Withdraw(Stocked, FALSE, [p \in {q \in Policy : pins[q] # NoEntry} |-> NoEntry])

\* files.delete_file
DeleteFile ==
    /\ file # Nothing
    /\ Withdraw({}, TRUE, [p \in {} |-> NoEntry])

\* Mutant: nothing is asked.
NeverUsed(d, x) == FALSE

\* still_used: a build that stays has the digest, by the rows this transaction sees.
StillUsed(d, x) == x \in PartsOf(Stocked \ d.builds)

Becomes(d, e) == deletions' = (deletions \ {d}) \cup {e}

\* A digest is asked about; an upload in flight is not seen.  A file's is kept as well
\* when any version of a policy names it (what the earlier ones named is left open).
Ask(d) ==
    /\ d.free = {}
    /\ \E x \in d.left :
        \/ /\ StillUsed(d, x) \/ (d.file /\ x \in Build)
           /\ Becomes(d, [d EXCEPT !.left = @ \ {x}])
           /\ UNCHANGED spoiled
        \/ /\ ~StillUsed(d, x)
           /\ Becomes(d, [d EXCEPT !.left = @ \ {x}, !.free = {x}])
           /\ spoiled' = IF upload = Nothing THEN spoiled
                         ELSE spoiled \cup ({x} \cap upload.parts)
    /\ UNCHANGED <<library, file, artifact, blob, pins, upload, raced, begun>>

\* LocalArtifactStorage.delete
Unlink(d) ==
    /\ d.free # {}
    /\ blob' = blob \ d.free
    /\ Becomes(d, [d EXCEPT !.free = {}, !.unlinked = @ \cup d.free])
    /\ UNCHANGED <<library, file, artifact, pins, upload, spoiled, raced, begun>>

\* Rows that reference an Artifact row once the deletion's own are gone.
StillReferenced(d) ==
    PartsOf(Stocked \ d.builds) \cup (IF file = Nothing \/ d.file THEN {} ELSE {file})

\* An Artifact row of a digest it unlinked that something still references.
Refused(d) == d.unlinked \cap artifact \cap StillReferenced(d) # {}

DeletionCommit(d) ==
    /\ d.left = {} /\ d.free = {} /\ ~Refused(d)
    /\ library' = [b \in Build |-> IF b \in d.builds THEN Nothing ELSE library[b]]
    /\ file' = IF d.file THEN Nothing ELSE file
    /\ artifact' = artifact \ d.unlinked
    /\ pins' = [p \in Policy |-> IF p \in DOMAIN d.edits THEN d.edits[p] ELSE pins[p]]
    /\ deletions' = deletions \ {d}
    /\ UNCHANGED <<blob, upload, spoiled, raced, begun>>

\* The request rolls back with the blobs already gone.
DeletionRefused(d) ==
    /\ d.free = {} /\ Refused(d)
    /\ deletions' = deletions \ {d}
    /\ spoiled' = spoiled \cup d.unlinked
    /\ UNCHANGED <<library, file, artifact, blob, pins, upload, raced, begun>>

Crash ==
    /\ upload # Nothing \/ deletions # {}
    /\ upload' = Nothing /\ deletions' = {}
    /\ spoiled' = spoiled \cup UNION {d.unlinked : d \in deletions}
    /\ UNCHANGED <<library, file, artifact, blob, pins, raced, begun>>

\* download_artifact changes nothing: the bytes of a digest with a row and a blob, a
\* 404 for any other.
Download == UNCHANGED libraryVars

Next ==
    \/ \E a \in Apk : UploadBuild(a)
    \/ \E d \in FileDigest : UploadFile(d)
    \/ UploadCommit \/ UploadFails
    \/ \E p \in Policy : SavePolicy(p)
    \/ \E b \in Build : DeleteVersion(b)
    \/ DeletePackage \/ DeleteFile
    \/ \E d \in deletions : Ask(d) \/ Unlink(d) \/ DeletionCommit(d) \/ DeletionRefused(d)
    \/ Crash \/ Download

-----------------------------------------------------------------------------
(* Properties.                                                             *)

\* A policy saved with a build the library has keeps to builds it has: a deletion takes
\* its build out of every policy in the transaction that deletes it, and one that is
\* refused or rolled back has moved nothing.  The exceptions are the ones the code makes
\* by not asking the library: a save of a build that is gone or going, and two deletions
\* of which one moves the policy to the build the other takes
\* (library_withdrawal.delete_version, profiles.upsert_section).
PinsAreStocked ==
    \A p \in Policy \ raced : pins[p].pin # 0 => pins[p].pin \in Stocked

\* Whatever the library lists can be downloaded: content shared between builds, or
\* between a build and a file, outlives the deletion of one of them or of several at
\* once, and an upload that repeats content already there adds to it safely.  The
\* exceptions are the ones a deletion's unlinking before its commit makes: a crash in
\* between, a commit the database refuses (a managed file holding a deleted build's
\* content, which the package deletion does not look for), and an upload of the same
\* content that is in flight when it is asked for or begins before it is unlinked
\* (packages.delete_version, files.release_artifact).
RowsHaveBlobs ==
    LET unlinked == UNION {d.unlinked : d \in deletions}
    IN  /\ PartsOf(Stocked \ Leaving) \subseteq blob \cup spoiled
        /\ PartsOf(Stocked \cap Leaving) \cup (IF file = Nothing THEN {} ELSE {file})
               \subseteq blob \cup spoiled \cup unlinked

\* A deletion moves a pin to a build of the same ATAK version while the library it
\* read had one, to the newest of those, and unlocks no kiosk
\* (library_withdrawal.replacement, strip).
PinsKeepTheirLine ==
    [][\A d \in deletions' : (\A o \in deletions : o.edits # d.edits) =>
          \A p \in DOMAIN d.edits :
              LET b == pins[p].pin
                  fitting == {v \in Stocked \ d.builds : library[v].line = library[b].line}
              IN  /\ pins[p].kind = "kiosk" => d.edits[p].kind = "kiosk"
                  /\ (b \in d.builds /\ fitting # {}) =>
                         /\ d.edits[p].pin \in fitting
                         /\ \A v \in fitting : v <= d.edits[p].pin]_libraryVars

=============================================================================
