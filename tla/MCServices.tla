------------------------------ MODULE MCServices ------------------------------
(***************************************************************************)
(* The services that run beside policy convergence and the command queue,  *)
(* each on its own: they share no state the properties are about, so a     *)
(* behaviour picks one of them, `focus`, and only that one moves.          *)
(***************************************************************************)
EXTENDS Integers, FiniteSets, Sequences, TLC

CONSTANTS
    Recorder, Keep, MaxRows, MaxWall,
    Slice, Timeout, MaxWrites,
    Watched, MaxChanges, MaxRaised, MaxCrashes,
    Tablet, Typing, MaxUses, MaxGuesses, MaxCertificates, MaxEvents,
    Job, Page, Click, MaxTokens, MaxMishaps,
    MaxStack,
    Policies, Universe, Carries, Report, Plugin, OtherApp, Atak, AtlasPlugin, Launcher,
    WebFilter, OldestLine,
    MaxBuilds, Common, FileDigest, Line, Apk, Policy, Nothing, MaxBegun,
    Holder, SameName, IssuerLife, DeviceLife, Window, Margin, MaxIssuers, MaxTime, MaxDeaths,
    NoFile

VARIABLES
    focus,
    log, holder, stage, tail, window, pruning, checking, wall, written, recorded, doctored,
    version, stale, due, scheduled, order, moved, writer, writing, known, park, slept, left,
    bell, overdue, owed, settled, writes,
    occurrence, rules, listed, quiet, failing, verdict, pass, spell, mailed, changes, crashes, raised,
    record, certificate, uses, revokedQr, attempts, onHold, barred, key, holds, enrolling,
    typing, joined, guesses, overwritten, events,
    row, live, issued, codeState, lock, task, click, excuse, mishaps,
    strategy, stack,
    policy, device, stock, links,
    library, file, artifact, blob, pins, upload, deletions, spoiled, raced, begun,
    rootKey, issuing, issuingKey, retired, bundle, command, server, loader, held, heard,
    today, deaths

Audit == INSTANCE AuditChainProofs
Bell == INSTANCE Doorbell
Alert == INSTANCE AlertsProofs
Who == INSTANCE IdentityProofs
Tak == INSTANCE TakGovLink
Stack == INSTANCE Stacking
App == INSTANCE AppResolution WITH library <- stock, App <- OtherApp
Lib == INSTANCE LibraryProofs
Trust == INSTANCE TrustChain

\* What the proofs assume of the constants.
ASSUME BellAssumption == Slice \in Nat /\ Timeout \in Nat
ASSUME AuditAssumption == Audit!ConstantsFit
ASSUME AlertAssumption == Alert!ConstantsFit
ASSUME IdentityAssumption == Who!ConstantsFit
ASSUME TakGovAssumption == Tak!None \notin Tak!Reader /\ MaxTokens \in Nat
ASSUME LibraryAssumption == Lib!ConstantsFit
ASSUME StackingAssumption == MaxStack \in Nat
ASSUME TrustAssumption ==
    /\ NoFile \notin Trust!Certificate \cup Nat
    /\ {MaxIssuers, MaxTime, IssuerLife, Window, Margin} \subseteq Nat
    /\ DeviceLife \in Nat \ {0}

\* A plugin inside a plugin, ATAK and ATLAS's own apps are no companions (_attach_one).
\* A package has one build of a versionCode (uq_package_version_code).  ATAK declares the
\* line it is of; no ATLAS plugin is for an ATAK older than MINIMUM_ATAK.
ASSUME ResolutionAssumption ==
    /\ IsFiniteSet(Carries) /\ OldestLine \in Nat
    /\ Atak # AtlasPlugin /\ Launcher # WebFilter
    /\ {Launcher, WebFilter} \cap {Atak, AtlasPlugin} = {}
    /\ (Plugin \cup OtherApp) \cap {Atak, AtlasPlugin, Launcher, WebFilter} = {}
    /\ IsFiniteSet(Plugin \cup OtherApp)
    /\ Plugin \cup OtherApp \cup {Atak, AtlasPlugin, Launcher, WebFilter} \subseteq Nat
    /\ \A b \in Universe :
           /\ b # App!NoBuild /\ b.code \in Nat /\ b.version \in Nat /\ b.line \in Nat
           /\ b.pkg = Atak => b.line # App!NoLine /\ b.version = b.line
           /\ b.pkg = AtlasPlugin => b.line >= OldestLine
    /\ \A b, v \in Universe : b.pkg = v.pkg /\ b.code = v.code => b = v
    /\ Carries \subseteq Universe \X Universe
    /\ \A l \in Carries : l[2].pkg \in OtherApp /\ l[2].line = App!NoLine

\* Builds and policies for AppResolution.  ATAK is 1, its plugins 2 and 4, a companion
\* app both may carry 3, the plugin ATLAS ships 5.  Plugin 2's newer build is for the
\* older ATAK, plugin 4's is older than any ATAK takes, ATAK's second needs a newer
\* Android.
AppBuild(p, c, v, l, s) == [pkg |-> p, code |-> c, version |-> v, line |-> l, sdk |-> s]
SecondAtak == AppBuild(1, 2, 3, 3, 2)
AtakBuilds == {AppBuild(1, 1, 2, 2, 1), SecondAtak}
Beacon == AppBuild(2, 1, 0, 3, 1)
OldPlugin == AppBuild(4, 1, 0, 1, 1)
FirstCompanion == AppBuild(3, 1, 0, 0, 1)
SecondCompanion == AppBuild(3, 2, 0, 0, 1)
AppUniverse == AtakBuilds \cup {Beacon, AppBuild(2, 2, 0, 2, 1), OldPlugin, FirstCompanion,
                               SecondCompanion, AppBuild(5, 1, 0, 3, 1), AppBuild(5, 2, 0, 2, 1)}
AppCarries == {<<Beacon, FirstCompanion>>, <<OldPlugin, SecondCompanion>>}
AppReports == {[atak |-> 2, level |-> 1], [atak |-> 3, level |-> 2]}

AppEntry(p, new, b, l) == [pkg |-> p, newest |-> new, pin |-> b, held |-> l]
OpenApp(p) == AppEntry(p, FALSE, AppBuild(0, 0, 0, 0, 0), 0)
NewestApp(p, l) == AppEntry(p, TRUE, AppBuild(0, 0, 0, 0, 0), l)
PinnedApp(b) == AppEntry(b.pkg, FALSE, b, 0)
AppPolicy(core, plugins, apps, kiosk, tiles) ==
    [core |-> core, plugins |-> plugins, apps |-> apps, kiosk |-> kiosk, tiles |-> tiles,
     own |-> IF tiles = {} THEN {} ELSE {6, 7},
     shelf |-> IF tiles = {} THEN {FirstCompanion} ELSE {AppBuild(2, 2, 0, 2, 1)},
     kioskStore |-> tiles # {}]

\* What one policy says, and what only several, an older console's or the API's may: a
\* package in two fields, ATAK of a kiosk or a tile without ATAK Core, and a build named
\* for another package.
AppPolicies ==
    {AppPolicy(core, fields[1], fields[2], {}, tiles) :
        core \in {{}, {NewestApp(1, 0)}, {NewestApp(1, 2)}}
                    \cup {{PinnedApp(b)} : b \in AtakBuilds},
        fields \in {<<{}, {}>>, <<{NewestApp(2, 0), NewestApp(4, 0)}, {}>>,
                    <<{NewestApp(2, 0), PinnedApp(OldPlugin)}, {PinnedApp(FirstCompanion)}>>},
        tiles \in {{}, {OpenApp(3)}}}
    \cup {AppPolicy(core, {NewestApp(2, 0)}, {PinnedApp(Beacon)}, kiosk, {}) :
              core \in {{}, {NewestApp(1, 2)}}, kiosk \in {{}, {PinnedApp(SecondAtak)}}}
    \cup {AppPolicy({}, {NewestApp(4, 0)}, {}, {}, {PinnedApp(SecondAtak), OpenApp(3)}),
          AppPolicy({AppEntry(1, FALSE, Beacon, 0)}, {NewestApp(2, 0)}, {}, {}, {})}

\* Builds for Library: two of one ATAK version that share a part, and a newer one of
\* another, or of the same with the part.
LibraryApk(b, l, parts) == [build |-> b, line |-> l, shares |-> parts]
LibraryApks == {LibraryApk(1, 1, Common), LibraryApk(2, 1, Common), LibraryApk(3, 2, {}),
                LibraryApk(3, 1, Common)}

auditVars == <<log, holder, stage, tail, window, pruning, checking, wall, written,
               recorded, doctored>>
bellVars == <<version, stale, due, scheduled, order, moved, writer, writing, known, park,
              slept, left, bell, overdue, owed, settled, writes>>
alertVars == <<occurrence, rules, listed, quiet, failing, verdict, pass, spell, mailed,
               changes, crashes, raised>>
whoVars == <<record, certificate, uses, revokedQr, attempts, onHold, barred, key, holds,
             enrolling, typing, joined, guesses, overwritten, events>>
linkVars == <<row, live, issued, codeState, lock, task, click, excuse, mishaps>>
stackVars == <<strategy, stack>>
appVars == <<policy, device, stock, links>>
libraryVars == <<library, file, artifact, blob, pins, upload, deletions, spoiled,
                 raced, begun>>
trustVars == <<rootKey, issuing, issuingKey, retired, bundle, command, server, loader, held,
               heard, today, deaths>>

Services == {"audit", "doorbell", "alerts", "identity", "takgov", "stacking",
             "apps", "library", "trust"}

Init ==
    /\ focus \in Services
    \* One initial state of a service that is to stand still.
    /\ strategy \in IF focus = "stacking" THEN Stack!Strategies ELSE {"max"}
    /\ policy \in IF focus = "apps" THEN Policies ELSE {CHOOSE p \in Policies : TRUE}
    /\ device \in IF focus = "apps" THEN Report ELSE {CHOOSE r \in Report : TRUE}
    /\ Audit!Init /\ Bell!Init /\ Alert!Init /\ Who!Init
    /\ Tak!Init /\ Stack!Init /\ App!Init /\ Lib!Init
    /\ Trust!Init

\* Every service but s stands still.
Others(s) ==
    /\ UNCHANGED focus
    /\ IF s = "audit" THEN TRUE ELSE UNCHANGED auditVars
    /\ IF s = "doorbell" THEN TRUE ELSE UNCHANGED bellVars
    /\ IF s = "alerts" THEN TRUE ELSE UNCHANGED alertVars
    /\ IF s = "identity" THEN TRUE ELSE UNCHANGED whoVars
    /\ IF s = "takgov" THEN TRUE ELSE UNCHANGED linkVars
    /\ IF s = "stacking" THEN TRUE ELSE UNCHANGED stackVars
    /\ IF s = "apps" THEN TRUE ELSE UNCHANGED appVars
    /\ IF s = "library" THEN TRUE ELSE UNCHANGED libraryVars
    /\ IF s = "trust" THEN TRUE ELSE UNCHANGED trustVars

AuditStep == focus = "audit" /\ Audit!Next /\ Others("audit")
BellStep == focus = "doorbell" /\ Bell!Next /\ Others("doorbell")
AlertStep == focus = "alerts" /\ Alert!Next /\ Others("alerts")
IdentityStep == focus = "identity" /\ Who!Next /\ Others("identity")
TakGovStep == focus = "takgov" /\ Tak!Next /\ Others("takgov")
StackingStep == focus = "stacking" /\ Stack!Next /\ Others("stacking")
AppStep == focus = "apps" /\ App!Next /\ Others("apps")
LibraryStep == focus = "library" /\ Lib!Next /\ Others("library")
TrustStep == focus = "trust" /\ Trust!Next /\ Others("trust")

Next == AuditStep \/ BellStep \/ AlertStep \/ IdentityStep
        \/ TakGovStep \/ StackingStep \/ AppStep \/ LibraryStep
        \/ TrustStep

vars == <<focus, auditVars, bellVars, alertVars, whoVars, linkVars, stackVars, appVars,
          libraryVars, trustVars>>

\* The fairness of each service (FairSpec of its module), for when it moves.
Fairness ==
    /\ WF_bellVars(focus = "doorbell" /\ Bell!ServeWait)
    /\ SF_bellVars(focus = "doorbell" /\ Bell!CheckIn)
    /\ WF_alertVars(focus = "alerts" /\ Alert!Sweep)
    /\ SF_alertVars(focus = "alerts" /\ Alert!Send)

Spec == Init /\ [][Next]_vars /\ Fairness

\* A service standing still is in an initial state of its own: its invariants are asked
\* only of the one that moves.
VerdictIsTrue == Audit!VerdictIsTrue
NothingIsLost == focus = "audit" => Audit!NothingIsLost
LostRingCostsASlice == focus = "doorbell" => Bell!LostRingCostsASlice
RingsAreHeard == Bell!RingsAreHeard
IsTakenUp == Bell!IsTakenUp
SentIsTrue == focus = "alerts" => Alert!SentIsTrue
OncePerSpell == focus = "alerts" => Alert!OncePerSpell
EveryAlertIsSent == Alert!EveryAlertIsSent
QrIsNotOverspent == focus = "identity" => Who!QrIsNotOverspent
OldKeysAreOut == focus = "identity" => Who!OldKeysAreOut
NeverCutOff == focus = "identity" => Who!NeverCutOff
GuessesAreCapped == focus = "identity" => Who!GuessesAreCapped
RetiredStaysOut == Who!RetiredStaysOut
BrokenHasACause == focus = "takgov" => Tak!BrokenHasACause
ReadOrderIsIrrelevant == focus = "stacking" => Stack!ReadOrderIsIrrelevant
StackingOnlyTightens == focus = "stacking" => Stack!StackingOnlyTightens
ConflictsAreTold == focus = "stacking" => Stack!ConflictsAreTold
PluginsLoad == focus = "apps" => App!PluginsLoad
CompanionsFit == focus = "apps" => App!CompanionsFit
PinsAreStocked == focus = "library" => Lib!PinsAreStocked
RowsHaveBlobs == focus = "library" => Lib!RowsHaveBlobs
PinsKeepTheirLine == Lib!PinsKeepTheirLine
RotationStrandsNobody == focus = "trust" => Trust!RotationStrandsNobody

=============================================================================
