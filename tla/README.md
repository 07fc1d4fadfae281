# TLA+ models of the ATLAS device-management server

ATLAS (this repository) manages Android tablets that run TAK. Operators write
policies in a console; each enrolled device polls `POST /checkin`, says what it
holds and has applied, and is answered with a signed document when there is a
newer one, and with queued commands. The agent on the device is not in this
repository: here it is known from what the server's code says of it.

These modules model how a policy reaches a device, how breach mode is
confirmed, how overlapping database sessions interfere, how one-shot commands,
wipes and disenrolment go through a queue, and the services beside them: the
doorbell, alerts, the audit chain, enrolment and certificates, the certificate
authority, the tak.gov link, the merge of stacked policies, the choice of app
builds and the app library. TLC checks small instances; TLAPS proves, for any number
of devices, policies, sessions, builds and instants, every safety property that a
passing run checks, and a refinement. What is left to the model checker is liveness.

## 1. Inventory

The server is one uvicorn process over Postgres. Handlers are synchronous and
run in a thread pool; background threads sweep alerts and deployments, prune
logs, check for plugin updates and snapshot the dashboard. Sessions are
`autoflush=False, expire_on_commit=False` at READ COMMITTED, and no row is
locked or carries a version column, the audit chain (an advisory lock) and one
conditional UPDATE in `qr_recipes.claim` excepted.

| Component | State it keeps | Operations | What is hard | What makes it correct |
|---|---|---|---|---|
| Check-in (`api/routers/checkin.py`) | reported facts, `acked_state_version`, compliance | `checkin`, `_record_convergence`, `renew` | lost and late requests, order of steps in one handler, overlap with the console | "unchanged" is only said to a device that holds that content; acks are true |
| Effective policy (`services/effective_policy.py`) | `state_version`, cache row (payload, stale, horizon) | `refresh`, `get_effective`, `invalidate*`, `devices_*` | staleness by writes and by the clock; read-modify-write without locks | a row that would be served is what a recompute would say |
| Desired state (`services/desired_state.py`) | none | `build`, `build_signed` | form depends on the reported agent | one version, one document |
| Policies, profiles, assignments | revisions, archive flags, assignment rows | publish, sections, targets, archive, restore | who must be told | everyone a change reaches is told |
| Deployment (`services/deployment.py`) | `pending_deployment`, `effective_at` | hold, activate, sweep | time passes with no write; the sweeper may be dead | scheduled policy lands anyway |
| Breach mode (`services/breach.py`) | engaged and confirmed times, the breach profile | engage, clear, regenerate, confirm | confirmation races with a recompute | confirmed means applied |
| Enrollment (`services/enrollment.py`) | what the server believes of a device | enroll, re-enroll | a device that starts over while its record goes on | nothing of the device's previous life is believed |
| Commands (`services/commands.py`) | status, attempts, TTL per command | enqueue, claim, record, expire, cancel, list | at-least-once delivery, late outcomes | finished stays finished; attempts are bounded |
| Disenroll (`services/disenroll.py`) | the record itself | request, acknowledged, complete | the last message a device ever sends | only an agreed disenroll removes a record, and it does |
| Compliance (`compliance_rules.py`, `compliance_actions.py`) | verdict, failing since | record, check, sweep, sync_wipe | a wipe pending while the device recovers | a compliant device is not wiped |
| Long poll (`notifications.py`, `wait.py`) | parked events | wait, wake after commit | ring before or without a commit | a parked device notices every change |
| Alerts (`alerts.py`, `main.py` sweeps) | occurrences, rules | raise, clear, notify | crash between send and commit, two raisers | one alert per condition |
| Audit (`audit.py`, `audit_retention.py`) | hash chain | record, prune, verify | append against prune | the chain verifies |
| Identity (`enrollment.py`, `qr_recipes.py`, `bypass_pin.py`, `certificate_renewal.py`) | records, certificates, QR uses, attempts, holds | enroll, renew, reinstate, retire, delete | overlapping enrolments, codes counted by value on two rows, lost answers, a reset between two lives | nobody is let in who should not be, nobody cut off who should |
| Certificate authority (`security/ca.py`, `cli.py`) | files of the pki directory, the authority the server has loaded | issue an intermediate, load, sign, verify, delete the root | a command that dies between two files, loads beside it, certificates that outlive their signer | a rotation costs no tablet its access |
| tak.gov link (`tak_gov_link.py`, `tak_gov.py`) | one row with a rotating refresh token | link, poll, refresh, unlink | a token that is spent by being used | a link is broken only for a cause |
| Resolver (`policies/resolver.py`, `policies/strategies.py`) | none; assignment rows and ranks | order, merge, record conflicts | ties, seven strategies over one stack | the same rows give the same policy; stacking tightens |
| App resolution (`effective_policy.py`, `newest_build.py`, `atak_compat.py`, `atlas_plugin.py`, `plugin_companions.py`) | companion links | resolve the list, the store | ATAK, plugins and companions are chosen by looking at one another | what is installed loads |
| App library (`packages.py`, `library_withdrawal.py`, `files.py`) | builds, files, artifacts, blobs, pins | upload, delete, withdraw pins, save a policy | files outside the transaction, shared content, deletions and saves that overlap | what is listed can be downloaded; a deletion leaves no pin behind |
| Others | | agent updates, imports, extracts, console, security, CLI, migrations | | see section 7 |

Interactions: console forms and REST routers write policies and call
`invalidate`, which marks cache rows and, after the commit, rings the doorbell
of parked long polls; a check-in reads the device row when it is authenticated,
records facts and outcomes, settles the cache, confirms a breach, builds the
document and claims commands, in that order and in one transaction; background
threads write the same tables.

## 2. Modules

| Module | Models |
|---|---|
| `DesiredState` | What the policy engine promises, with no cache: a version per recorded state, answers that carry both |
| `Convergence` | The program: policies, assignments, schedules, breach mode, cache rows, check-ins, devices; each request one step |
| `MCConvergence` | Symmetry for its instances |
| `CheckinSessions` | One device's check-ins, pages and edits taken apart into database sessions that overlap |
| `MCFleet` | `Convergence` with a fleet, and `CheckinSessions`, one of them moving in each behaviour |
| `Commands` | One device's command queue, disenrolment and the compliance wipe |
| `AuditChain` | Appends, prunes and verifications of the hash chain, as overlapping transactions |
| `Doorbell` | One device's long poll, the rings of commits, and what a check-in takes up |
| `Alerts` | The sweep that raises, clears and mails, commit by commit |
| `Identity` | Enrolment through a limited QR, the security code, certificates |
| `TrustChain` | The pki directory, the rotation of the intermediate, loads and renewals |
| `TakGovLink` | The rotating token, its lock, and the requests that do not take it |
| `Stacking` | Ranks, merge strategies and conflicts of one field |
| `AppResolution` | The builds a device is told to install or offered |
| `Library` | Uploads, deletions, pins and blobs |
| `MCServices` | The nine modules above side by side, one of them moving in each behaviour |
| `ConvergenceProofs`, `CommandsProofs` | The theorems about `Convergence` and the sessions `MCFleet` puts beside it, and about `Commands` |
| `CheckinSessionsProofs`, `AuditChainProofs`, `IdentityProofs`, `AlertsProofs`, `LibraryProofs` | The inductive invariants of those modules |
| `ServicesProofs` | The theorems about all nine services, as `MCServices` states them |

### Convergence

Tables become functions on devices or units. A *unit* is a policy, or a profile
whole: `rev[u]` is its latest published content. `reach[d]` is the set of units
assigned to `d`, directly or through a group. `payload`, `stale` and `horizon`
are the cache row, `version` and `acked` the device row's `state_version` and
`acked_state_version`; `held`, `document`, `applied` and `running` are the
device's. One exchange per device goes `idle`, `waiting`, `replied`; a request
the device gave up moves to `late` and may still be handled, a reply may be
lost after the commit.

| Action | Code |
|---|---|
| `Publish`, `AddSection` | `publish_version`, the composite profile editor, `upsert_section` (which returns early for a new section) |
| `SetTargets` | `create_assignment`, `set_policy_targets`, `set_profile_targets`, deletion, group membership |
| `Archive`, `Restore` | `profiles` and `policy_admin`; archiving a profile drops its assignments |
| `Hold`, `Activate`, `Sweep` | `deployment` |
| `Engage`, `Clear` | `breach.engage` (with the blocklist regenerated from the library), `breach.clear` |
| `EditCatalog` | whatever calls `invalidate_all`: uploads, EULA, licence keys, distrusted CAs |
| `ReadEffective` | the device page and `GET /devices/{id}/effective-policy`, which settle and commit |
| `Checkin`, `LateCheckin` | `checkin`: `Record` is everything up to the answer |
| `Reenroll` | `enroll_device` for a device that was wiped |
| `Send`, `GiveUp`, `LoseReply`, `Deliver`, `Apply`, `HostChange`, `AgentUpgrade`, `Tick` | the agent, the network, the clock (external) |

Abstracted: how stacked policies merge (rank, strategies, pinned versions, device
variables): distinct sets of unit revisions are taken to resolve to distinct
payloads. Compliance enforcement and TAK enrolment markers move the payload in
the way the reported host does, and `host` stands for them. `force_full` only
adds documents. `EffectivePolicyCache.state_version` is written and never read.

### CheckinSessions

A session is `sent`, `begun` (device row read), `loaded` (cache row read, stale),
`resolved` (payload known), then commits, writing only the columns it changed,
by value, as the ORM does. A flush before the commit is invisible to others and
only orders the commits of sessions that wrote the same row, so writes are made
at the commit. The answer is taken at the commit; what happens to it on the way
is in `Convergence`. Edits are sessions as well, and nothing keeps any session from
overlapping any other.

Some of what overlaps is lost, which two runs show, and what the properties say is
how much. A session is `crossed` when another commits an edit after it has read, when it is
an edit itself and another settles the row, or when another that was crossed writes. The
row is `clouded` when such a session was the last to write it and left it unmarked, and a
version is `disputed` up to the highest in use when one wrote a version.

### Commands

`status[c]` follows `DeviceCommand.status`, with `unused` before and `deleted`
after. A check-in is one step: outcomes, then the disenroll, then the rules'
wipe, then the claim. The agent runs what it is handed as often as it is handed
it, erases itself only after an answered check-in carried the outcome (as
`disenroll.py` says it does), and may die and forget. Each command kind is a
set of command identities; the compliance wipe can be queued once per identity.

### AuditChain

Each recorder takes the advisory lock, reads the last row in a statement begun
after that, appends and commits; a prune does the same from its own row; the page
that verifies takes no lock and reads the last recorded prune, then the rows. A
hash is a tuple of what it covers. Rows may be edited behind the program's back.

### Doorbell

A writer flushes, commits, collects the parked events and sets them, which are
separate steps beside the wait's own: read, find nothing, park for a slice, wake.
A ring may be lost (the process is another one, or the wait is between its read and
parking). Time passes only while nobody has a step to take at once. A `scheduled`
change becomes `due` with no write. A wait that is rung is `owed` the kind of change
the writer rings for, whatever the rows hold by then, until a check-in or a page has
taken it up.

### Alerts

A pass of `_start_alert_sweeper` is: the compliance check and its commit, the
raising and clearing and its commit, the mail, the mark and its commit. Each may
fail, the process may die between any two, and what was not committed is lost.
Events are recorded by requests meanwhile.

### Identity

An enrolment reads (`BeginEnroll`), and later claims its use of the QR and commits
(`CommitEnroll`), with the operator's forms, the code's attempts and the other
tablet's enrolment in between. A certificate is a number, a key, an age and a
revocation; a wipe gives the tablet a new key. Renewal and reinstatement are whole
steps whose answer may be lost.

The security code is typed at four screens: an enrolment the hardware does not vouch for,
a restore, and the permission screen of a tablet before and after it is enrolled. The
first two and the last count attempts in the device's row, the other in the enrolment
token's. A check reads the count (`ReadAttempts`) and later writes what it read and one
more (`WrongCode`, by value, as the ORM does), so checks that overlap are counted as one;
`overwritten` is how many attempts others' writes may have taken out of the count.

### TrustChain

`issue_intermediate` is a step per file operation and may die before any of them;
the server, restarted, and the console page load the directory in three steps
beside it, and each load rewrites the bundle. A key is the serial of the certificate
it was made for, so a pair whose key is another certificate's is seen to be torn.
Tablets renew when due, with the expiry capped by the signer's; `Tick` waits for
every tablet to be heard by a server that can still sign. Serials are random in the
code; here a new certificate has any that is not in use.

### TakGovLink

Jobs load the row after they take `_REFRESH_LOCK`, the plugins page before. The
provider honours the last token only. Operators start, poll and unlink without the
lock. `excuse` collects what may cost the link: a lost answer, a failure of the
provider, a lost vault key, a page that judged by the row it had loaded before.

### Stacking

One field, with one strategy of the seven, and the assignment rows that reach one
device. `Resolve` is `order_assignments`, the collection of values, the strategy and
the conflict it records; the actions assign, unassign and rerank. A stable sort is its
result: a row's place is the number of rows before it. Of the rows only those that say
something of the field are put in order, since `_collect` drops the others. The loops
that gather a list become the places where an item is met that was not met before.

### AppResolution

A merged policy and a device's report, fixed in a behaviour, over a library that gains and
loses builds. `Apps` and `Store` translate `resolve_required_apps` and
`resolve_store_apps`: what the catalog's three fields say (`Said`), what a single-app
kiosk, ATLAS itself and the tiles add of packages nothing was said of (`Required`), the
version of ATAK that ATAK Core will install, the plugin ATLAS ships, the newest build of
each package that fits, and the companions. `Delivered` is what the list has a build or a
row for; `Apps` puts it in order. `_with_companions` puts each companion in front of the
first plugin of the list it comes with, companion after companion; `Anchor` and `Ahead`
give the order those insertions end in, and places are counted as in `Stacking`. Packages
are numbers, in the order of their names.

`Valid` is what a stored policy cannot break and the merge, by the key of one field,
keeps. It does not keep a package to one field, since two policies may name it in two, nor
ATAK out of a kiosk or a tile, nor a pin to its package. `PluginsLoad` asks of ATAK Core
that it names ATAK, as the console's picker does (`CoreIsAtak`). Left out: processors (the
Android level stands for them), tiles of the device's own apps, of the agent and of web
pages, which the code passes over, and builds whose plugin API was not yet read. Tiles that
nothing delivers come last, by name rather than in the order of the tiles.

### Library

An upload stores blobs and then commits. A deletion is a record of its own: it rewrites
the policies and deletes rows (`Withdraw`), asks of each digest whether anything still
has it (`Ask`), unlinks it in a step after that (`Unlink`), and commits, or is rolled
back, or refused by a foreign key, or dies. Several may be in flight; they wait for each
other over one row, and of two that write one policy the second is refused. A policy is
saved with any build at all, since a page is rendered by one request and saved by
another, and nothing asks the library at the save. Blobs are content, so builds and files
share them. `spoiled` holds the content that an unlinking before the commit took, and
`raced` the policies the code does not keep to the library: saved with a build that is
gone or going, or moved by one deletion to the build another takes. Left out: reserved
packages, packages of several apps, icons, and two uploads in flight at once.

## 3. Runs

| Run | Shows | Bounds |
|---|---|---|
| `convergence` | types; a fresh row is current; one version one payload; acks are true; breaches are confirmed when earned, in the end always, and the device converges; refinement of `DesiredState` | 1 device, 1 policy, 2 hosts, 2 builds, 2 instants, 2 edits, 1 late request |
| `fleet` | with one-section endpoints, a fresh row is behind in nothing but such sections; with overlapping sessions, only what an edit crossed is lost, of the row, of the meaning of versions and of acks | 2 devices (symmetric), 1 profile and the breach profile, both growing, 2 edits; 1 device, 2 sessions, 2 edits |
| `section` | finding 1 | as the fleet of `fleet` |
| `upgrade` | finding 2 | 1 device, 2 builds |
| `wiped` | finding 3 | 1 device |
| `sessions_breach` | finding 4 | 2 sessions, 1 edit |
| `sessions_versions` | finding 5 | 2 sessions, 2 edits |
| `sessions_stale` | finding 6 | 2 sessions, 2 edits |
| `commands` | wipes run once; records go only by agreed disenrolments; compliant devices are spared; finished is final | 3 commands of 3 kinds, 2 attempts, TTL 1, 2 instants, 2 edits, 1 late request |
| `commands_reset` | finding 7 | as `commands`, 3 edits |
| `services` | the properties of the nine modules beside policy and commands | per module below |
| `rotation` | finding 8 | 1 tablet, 2 intermediates of the default name, no command dies |

`services` is one run of nine systems. They share no state that a property is about,
so `MCServices` chooses the one that moves (`focus`) and the others stand still: its
states are the sum of theirs, not the product (`fleet` does the same with its two).
Invariants are asked of the one that
moves, step properties hold of the others by stuttering.

| Module | Properties | Bounds |
|---|---|---|
| `AuditChain` | `NothingIsLost`, `VerdictIsTrue` | 2 recorders, 4 rows, 3 instants, window 0 or 1: two prunes with appends between them |
| `Doorbell` | `LostRingCostsASlice`, `RingsAreHeard`, `IsTakenUp` | slice 2, timeout 3 (the last slice is cut short), 2 writes |
| `Alerts` | `SentIsTrue`, `OncePerSpell`, `EveryAlertIsSent` | 2 devices, 3 changes, 5 occurrences, 1 crash |
| `Identity` | `QrIsNotOverspent`, `OldKeysAreOut`, `NeverCutOff`, `GuessesAreCapped`, `RetiredStaysOut` | 2 tablets, a QR of 2 uses, 2 guesses, 2 codes checked at once, 4 certificates, 3 events (operators', wipes, codes typed) |
| `TrustChain` | `RotationStrandsNobody` | 1 tablet, 2 intermediates of names of their own, lives 4, window and margin 1, 7 instants, 1 death |
| `TakGovLink` | `BrokenHasACause` | 2 jobs, 1 page, 1 click, 3 tokens, 1 mishap |
| `Stacking` | `ReadOrderIsIrrelevant`, `StackingOnlyTightens`, `ConflictsAreTold` | 3 assignments, 2 ranks, 2 scopes, 2 to 3 values a strategy |
| `AppResolution` | `PluginsLoad`, `CompanionsFit` | 7 packages, 9 builds, 2 reports, 36 policies |
| `Library` | `PinsAreStocked`, `RowsHaveBlobs`, `PinsKeepTheirLine` | 3 builds, 1 shared part, 2 lines, 1 policy, any deletions and 1 upload in flight, 4 begun |

Why the bounds are enough. An invalidation is missed by one edit, so two edits (one to
reach the device or engage it, one to change it) meet each omission; the second instant
lets a schedule come due with no write. Agreement of versions is about one device, and the
devices of the fleet interact only through who is told, for which two are enough. A late
request overtaken by one later exchange is the shortest reordering. Two attempts
distinguish a repeated delivery from a spent one. Two of a kind (recorders, tablets, codes, jobs,
devices, sessions) are the fewest that interfere, three rows or builds the fewest of which one is
between others, and one crash or lost answer is enough to reach what each leaves behind,
since nothing keeps more than its latest. Every safety property of the passing runs is
proved without these bounds (section 5), so what they have to be enough for is liveness,
and to meet the mistake if the code, and the model with it, comes to make one. `MaxEdits`
counts operator, library and device-side changes (in `CheckinSessions` only edits);
`MaxClock` and `MaxLate` are named in the guards. Deadlock is checked but for `Commands`,
where a device that has erased itself may have used up its edits, which is an end state.

### Fairness

`convergence` assumes weak fairness of a device's `Send` and `Apply` (the agent
polls on a timer and reconciles what it holds) and strong fairness of `Checkin`
and `Deliver` (requests and answers may be lost again and again, but not for
ever). Nothing is assumed of operators, the sweeper thread, console pages or late
requests: `Converges` holds with the sweeper dead, because the resolver reads the
clock and each row carries its horizon.

`services` assumes, of the doorbell, weak fairness of the wait's own steps (a
handler runs on) and strong fairness of the check-in a wait leads to; nothing of
rings, so `IsTakenUp` holds with every ring lost. Of alerts it assumes weak fairness
of `Sweep` (the thread's loop catches what a pass raises and goes on) and strong
fairness of `Send` (a mail server that refuses again and again does not refuse for
ever). `VerdictIsTrue`, `RingsAreHeard`, `RetiredStaysOut` and `PinsKeepTheirLine`
are about single steps and need none. `TrustChain` assumes no fairness; its `Tick`
carries the assumption that tablets check in and operators rotate in time.

## 4. Findings

1. **A new section tells nobody** (`FreshMeansCurrent`, run `section`).
   `upsert_section` returns before its invalidation when the section is new.
2. **An upgraded agent is told nothing changed** (`UnchangedMeansIdentical`, run
   `upgrade`). The document depends on the agent version; the version does not.
3. **A confirmation survives a wipe** (`ConfirmedStands`, run `wiped`).
   Re-enrolment resets acks and the verdict, not `breach_confirmed_at`.
4. **A breach confirmed before it was applied** (`ConfirmedIsEarned`, run
   `sessions_breach`). The version compared is the one read at authentication; a
   page may have recomputed since.
5. **One version, two payloads** (`VersionNamesPayload`, run `sessions_versions`).
   The version is read, incremented and written by value. A page that resolved the
   policy before an edit commits after a check-in that resolved it since, under the same
   version.
6. **An edit lost under a recompute** (`RowFollowsEdits`, run `sessions_stale`). The
   stale mark is cleared by a session that read the device before the edit.
7. **Reset but not forgotten** (`ResetIsForgotten`, run `commands_reset`). The
   outcome of a disenroll that was cancelled or expired meanwhile is dropped, and
   the check-in that carried it is answered as if it were taken.
8. **The second rotation locks out whoever it signs** (`RotationStrandsNobody`, run
   `rotation`). `_issuer_of` takes the first trusted certificate of the issuer's
   name, retired ones first, and `ca-issue-intermediate` gives every intermediate the
   same name unless told otherwise. With names of their own, as `services` has them,
   the same property holds.

Seen while modelling, and not in a run:

- `sweep_alert_conditions` commits only if a verdict changed, an alert was raised or
  one was sent. An alert that clears in any other pass is still open in the table, and
  the next occurrence of its condition tells nobody, against alerts.py:174 ("This is
  what re-arms the alert"). A wipe queued by the clock, and alerts discarded for want
  of anybody to tell, are rolled back the same way; the latter are all mailed to
  the first address added later.
- Findings 4, 5 and 6 are of one kind: a recompute is a read and a write with nothing
  between them locked. An overlap can also write a smaller `acked_state_version` or
  `state_version` over a larger one, so that a device holds a version the server has
  yet to reach again, where `models.py` and `checkin.py` call both monotonic.
  `VersionsBind` and `RowIsCurrent` say what bounds this: it takes a write that crosses a
  session, and ends with the next version or the next settling that no write crosses.
  `AcksWereApplied` has no exception.
- Wrong security codes are counted by value with no lock (bypass_pin.py:149-156), so of
  several checked at once only one is counted, and the limit is one on codes checked one
  after another. The same code typed before and after enrolment is counted apart, per
  token and per device, so a tablet that fails at one may go on at the other.
- A rotation that dies between unlinking the old certificate and the old key leaves
  the key. The command run again writes its certificate and is refused the key, which
  `write_private` will not overwrite. The pair left loads, signs certificates nobody
  accepts, and passes the checks of `ca-delete-root`. `RotationStrandsNobody` excepts
  certificates signed by such a torn pair. An intermediate is not capped at the root's own
  expiry, which the model puts beyond its horizon.
- tak.gov: the plugins page holds the row before it waits for the lock, so a refresh
  meanwhile makes it present a spent token and break a live link; a crash or a lost answer between
  the rotation and the commit breaks it too, since the previous token kept is older
  still (models.py:1849 has it that this "costs a retry rather than a trip"); an unlink
  committed during a refresh gets the tokens written back; a poll clicked twice writes
  UNLINKED over LINKED.
- Library: a build's blobs are unlinked before the commit, so a crash, or a foreign
  key refusing the commit because a managed file has the same content, leaves a row
  without its blob.
- Library: a page rendered before a deletion and saved after it, or beside it, pins a build
  there no longer is, and the API takes any digest. Of two deletions at once, the first may
  move a policy to the build the second takes. The device is then told that its pin is not
  in the library, and nothing is installed. `PinsAreStocked` excepts just these.
- App resolution: a kiosk, a tile or a plugin's entry may bring ATAK where there is no
  ATAK Core, and then plugins are chosen for the ATAK the device reports, not for the one
  it is about to install (`_atak_version_for` looks at ATAK Core only). A single-app kiosk
  locked to ATAK with no ATAK Core is such a policy, and so is a multi-app one saved before ATAK Core moved
  into the kiosk's editor (kiosk_atak.py:28-30). `PluginsLoad` says what holds there.
- App resolution: one policy may not name a package in two fields
  (app_catalog.py:203-246), but two policies may, and each field is merged by itself. The
  device is then told of both entries, with a build each, and Android takes one.
  `CompanionsFit` excepts these.
- App resolution: the plugin ATLAS ships is added only beside a *pinned* ATAK
  (`atlas_plugin.atak_line_for`), not beside "always the newest", which
  howto/15-atak-and-tak-servers.md:14-16 does not say; the ATAK version, Android level
  and processors a device reports (checkin.py:226-237) do not mark its row
  stale, against models.py:1476; a companion deleted and uploaded again is not
  linked again; a plugin build of the exact line is preferred over one of a higher
  versionCode, a downgrade Android refuses.
- App resolution: a client of the API may send an entry that wants the newest build and
  pins one as well (app_catalog.py:115: "`artifact_sha256` is ignored").
  `atlas_plugin.atak_line_for` reads the pin all the same and pairs ATLAS's plugin with
  a build that will not be installed. `_atak_version_for` looks a pin up by its content
  alone, where `resolve_required_apps` asks for its package too. The model has both;
  `CoreIsAtak` is what `PluginsLoad` asks instead.
- A reinstatement whose answer is lost leaves the tablet without a certificate; an
  enrolment retried after a lost answer is refused if it spent the last use of its QR.
- A verification of the audit chain during which a prune commits may raise a false
  alarm; `VerdictIsTrue` excepts it.
- An agent build that crashes after its check-in is taken for settled at its second
  launch (`agent_update`), since launches on one build are not told apart.

## 5. Proofs

Every theorem holds for any values of the constants that satisfy the assumptions named
in the modules; bounds such as `MaxEdits` are constants too, and none is ever fixed. The
assumptions are types and finiteness, distinct names for distinct things, and what the
code enforces of its own data (`ResolutionAssumption`: a companion is an app that
declares no ATAK line, ATAK's builds declare one, no plugin of ATLAS's is for an ATAK
older than the oldest it supports). TLC evaluates each in the runs.

Two kinds of theorem carry a hypothesis that the code does not meet everywhere, and a run
shows what fails without it: `Growing = {}` (run `section`) and `~SameName` (run
`rotation`).

### Policy convergence (`ConvergenceProofs`)

| Theorem | Says |
|---|---|
| `TypeCorrect` | `Spec => []TypeOK` |
| `NothingIsAhead` | `Spec => []AckedWasApplied` |
| `OneVersionOnePayload` | `Spec => []VersionBinding` |
| `CacheMissesOnlySections` | `Spec => []FreshButForSections` |
| `CacheIsCurrent` | `Growing = {}` and `Spec` imply `[]FreshMeansCurrent` |
| `ConfirmationIsEarned` | `Growing = {}` and `Spec` imply `ConfirmedIsEarned` |
| `CacheRefinesDesired` | `Growing = {}` and `Spec` imply `CacheIsTransparent` |

`Growing = {}` is the program without finding 1: no section is added one at a time, by
an endpoint that tells nobody, to a profile that reaches a device. To one that reaches
none it may be added all the same, as happens whenever a profile is put together first and
assigned later.

*Agreement.* `VersionBinding` alone is not inductive: an applied version may be
older than the one held, a reply in flight may be older than both, and a request
carries an old claim. The strengthening `Agreement` bounds every version found
anywhere, in requests in flight and late ones too, by the device's next older
one, and says of each place that if its version is the server's, its content is
the server's payload. It is preserved because a version moves exactly when the
payload does, and by one.

*CacheHolds.* `FreshMeansCurrent` needs to survive `Tick`. The strengthening
says that a fresh row agrees with what a recompute would say *at every instant
before its horizon*, and that its horizon is no later than any transition still
to come. `HorizonIsNext` and `HorizonIsQuiet` are the facts about
`next_transition` it rests on: the soonest transition exists, and nothing goes
live before it. A sweep, which activates what is already live by the clock,
changes no payload, and that is why it may lag or die.

*ConfirmedIsEarned* follows from both: the ack compared is of an applied version,
the version is the settled one, its payload is current, and the current payload
of a device in breach is the breach profile.

*Refinement.* `Desired` maps what is wanted to a recompute at this instant,
what is recorded to the payload, and an answer without a document to the
content the device already holds; each step is a step of `DesiredState` or a
stutter.

### Commands (`CommandsProofs`)

| Theorem | Says |
|---|---|
| `TypeCorrect` | `Spec => []TypeOK`; among its types, that attempts are bounded |
| `OutcomesAreFinal` | `Spec => FinishedIsFinal` |
| `WipedOnlyOnce` | `Spec => []ErasedOnce` |
| `OnlyAckedIsForgotten` | `Spec => []ForgottenWasAcked` |
| `RecoveredIsSpared` | `Spec => []CompliantIsSpared` |

*Custody* follows an outcome from the device to the record. `Queued` says that whatever is
handed over or voiced (by the device, in a request, in a late one or in an answer) is of a
command that was queued, and a success of one the device carries out. `Recording` says
that what an answer carries as recorded has come to its end, that so has each wipe a
device erased itself for, and that none of those is on its way to it again. `Follows` and
`Credits` are the two facts about every step these rest on: what ended stays ended, and a
success has a report.

### Overlapping sessions (`CheckinSessionsProofs`, `ConvergenceProofs`)

`CheckinSessionsProofs` holds the inductive invariant, `Overlap`, and the theorem about
the types. As `MCFleet` lets either view move, `OverlapHolds` says that `Overlap` is an
invariant of the whole (`SessionsMove`), and the theorems are about the very definitions
the run `fleet` checks.

| Theorem | Says |
|---|---|
| `TypeCorrect` | `Spec => []TypeOK` |
| `FreshStaysCurrent` | `BothSpec => []RowIsCurrent` |
| `VersionsNameOnePayload` | `BothSpec => []VersionsBind` |
| `AcksAreTrue` | `BothSpec => []AcksWereApplied` |

No theorem here has a hypothesis on who may overlap whom. `RowIsCurrent` and
`VersionsBind` except what a crossed session wrote, and `sessions_stale` and
`sessions_versions` show that without the exception neither holds.

*Overlap* is about what open sessions have in memory. Of a session that nothing has
crossed and that read the cache row stale, `Behind` says: while nobody has settled the row
since, it has read what is still there; once somebody has, the version has moved by one if
the payload did, and so it will write the very version and payload that are there. That is
why sessions that both recompute do no harm to each other. `Memory` is what is left to say
of a crossed one: the version it read is no higher than any in use or disputed
(`Ceiling`), and past what is disputed it goes with the payload it read (`Tied`).
`SettledWell` and `SettledIll` are the two outcomes of settling a row.

### Services (`ServicesProofs`)

`MCServices` holds nine instances and lets one move. A lemma per service says that each
step of the whole is a step of that service or leaves its variables alone
(`BellMoves`, `TrustMoves` and so on), so that an inductive invariant of the service is
one of `MCServices`, and the theorems are about the very definitions the run checks.

| Theorem | Property | By the invariant |
|---|---|---|
| `AuditLosesNothing`, `VerdictsAreTrue` | `NothingIsLost`, `VerdictIsTrue` | `Unbroken` |
| `ClaimsAreLimited`, `CodesAreLimited` | `QrIsNotOverspent`, `GuessesAreCapped` | `LetsIn` |
| `EarlierLivesAreOver`, `NobodyIsCutOff`, `RetirementLasts` | `OldKeysAreOut`, `NeverCutOff`, `RetiredStaysOut` | `LetsIn` |
| `WaitsAreSliced`, `RingsFollowTheirData` | `LostRingCostsASlice`, `RingsAreHeard` | `Punctual` |
| `AlertsAreTrue`, `SilenceIsToldOnce` | `SentIsTrue`, `OncePerSpell` | `ToldRight` |
| `PinsStayStocked`, `RowsKeepTheirBlobs`, `PinsMoveAlongTheirLine` | `PinsAreStocked`, `RowsHaveBlobs`, `PinsKeepTheirLine` | `Sound` |
| `BreaksAreExplained` | `BrokenHasACause` | `Backed` |
| `RotationIsSafe` | `~SameName` implies `RotationStrandsNobody` | `Trusted` |
| `OrderOfReadingIsNothing`, `NothingIsDroppedInSilence`, `OneMorePolicyTightens` | `ReadOrderIsIrrelevant`, `ConflictsAreTold`, `StackingOnlyTightens` | `Stacked` |
| `PluginsMatchAtak`, `CompanionsComeFirst` | `PluginsLoad`, `CompanionsFit` | `Shelved` |

*Unbroken.* `Chained` is about all rows ever written: numbered without a gap, each
holding the hash of the one before, no prune claiming less than an earlier one. `Table`
says which of them are in the log, `Locked` that who has read the tail holds the lock
and that the tail is still what it read: without the advisory lock two rows would get
one number. `Explained` bounds what a verification that began earlier expects, which is
what makes its verdict true whenever no prune disturbed it.

*LetsIn.* Uses are claims counted one at a time. `Counted` says that the codes compared are
no more than the count and what was written over, and of each check in flight that what it
will write, with the codes it has missed, makes up for what was compared by then. No
certificate is for a key its tablet has yet to make, which is why a new key puts every
earlier certificate out of use.

*Punctual.* A reason to answer has been there no longer than the wait has slept in this
slice, since either the reading before the park would have found it or it came later; and
a slice ends; rings have no part in that. `RingsAreHeard` needs the rest: once it is
committed a change is to be found until somebody takes it up, hence when its ring follows
and while the wait is owed it. Rung before the commit, it would not be.

*ToldRight* is an invariant of the table of occurrences together with what a pass in
flight will clear from it: the occurrence of the silence a device is in is open and will
stay so, hence it is found and not raised anew. A rolled back pass leaves an earlier such table.

*Sound.* What each build needs is on the disk, or spoiled, or unlinked by the deletion of
that very build (`Blobs`), and what a deletion has asked about and is about to unlink no
other build needs. Deletions in flight are of different builds, and each publishes every
policy on its builds with one that stays (`Deleting`), but for the policies in `raced`.

*Backed.* While nothing has happened that may cost the link, the token stored is the live
one, or the one that replaces it is in the hand of a reader that holds the lock
(`Usable`); a token that came for a device code is nobody else's yet (`Fresh`).

*Trusted.* For each tablet, every set of authorities in use anywhere (the bundle, the
server's, and what a load under way has gathered) holds the signer of its
certificate, and the certificate ends before its signer does (`Serves`). Each load and each file
operation preserves this because the old intermediate is in `retired` before it is unlinked.

*Stacked* only types the rows; the work is in the lemmas about ordering. Counting
what stands before an element of a finite total order gives each its own place, and
there are as many places as elements, so that the sorted list is a function of the set
of rows and not of the order they were read in. The list of an assignment set and that
without one assignment differ by one element, from which each strategy's tightening follows.

*Shelved* says the policy is one that may be stored and the library finite; the theorems
are about the functions `Delivered` and `Apps` of such a state. `CompanionsComeFirst` uses
that `Ahead` orders what is delivered, entries of one package by the fields that name
it, so that places are one to one, and that a companion's anchor is at or before every
plugin it comes with.

### What is only model-checked

Liveness: `Converges`, `BreachIsConfirmed`, `IsTakenUp` and `EveryAlertIsSent` rest on
fairness, which is beyond the prover. The violation runs are counterexamples, which
only TLC gives. No module declares a RECURSIVE operator, and so each can be proved about.

## 6. Plan

1. Liveness of `Commands` (every open command comes to an end) on an instance of
   its own.
2. Models: the facts a device reports that choose its builds, in `Convergence`;
   location batches retried while the first attempt still runs; the rate limiter's
   evictions; the agent-update offer.
3. Proofs of what those models add.

## 7. Not modelled

Telemetry, locations, logs and extracts (append-only, or a file per upload);
attestation and signatures (cryptography, taken to tell keys apart); the agent-update
decision (pure over facts that `Convergence` lets change); import jobs (a thread and a
dictionary per process, with nothing kept); the Play link, plugin-update alerts,
mail, geocoding; parsing of APKs, packages and preference files; authentication, CSRF
and rate limits; settings, migrations and packaging; the console's pages, but for the
forms that reach modelled services. These are most of the repository's lines: parsers, page
handlers, schemas and column declarations, whose state is a row written once from a
form, so the modules cover the part that keeps state between steps and little of
the rest. Within modelled parts: in `Convergence` a payload is one abstract value, and
what `Stacking` and `AppResolution` say of its content is checked apart; custom alert
rules, schedules and staged wipes; a wait that names no version; several QR recipes;
the hardware's proof of identity. Deadlock between row locks
at commit is not modelled: Postgres would abort one of the sessions, which the
models allow as a request that was never handled.
