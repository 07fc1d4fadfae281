----------------------------- MODULE AppResolution -----------------------------
(***************************************************************************)
(* Which builds a device is told to install, and which it is offered: the  *)
(* merged policy's entries (a build by name, or always the newest), the    *)
(* builds the library holds and what the device reported, resolved to the  *)
(* list its document carries.  ATAK, the plugins of its line, the plugin   *)
(* ATLAS ships and the companion apps plugins carry are each chosen by     *)
(* looking at the others.  The library changes under a policy that stays.  *)
(***************************************************************************)
EXTENDS Integers, FiniteSets, Sequences, SequencesExt

CONSTANTS
    Policies,   \* merged values to resolve
    Universe,   \* builds an operator may upload
    Carries,    \* <<plugin build, companion build>>: an APK inside the plugin's
    Plugin, App,    \* package names: operators' plugins; their other apps.  Names
                    \* are numbers, in the order of the names
    Atak, AtlasPlugin, Launcher, WebFilter, \* package names with a part of their own
    Report,     \* what a device may report: its ATAK line and its Android level
    OldestLine  \* OLDEST_ACCEPTED: an older plugin loads in its own line only

VARIABLES policy, device, library, links

resolutionVars == <<policy, device, library, links>>

\* A build: its package, versionCode, the ATAK line its versionName reads as, the ATAK line
\* it declares in its plugin-api, the Android level it needs.  0 is none.
NoLine == 0
NoBuild == [pkg |-> 0, code |-> 0, version |-> NoLine, line |-> NoLine, sdk |-> 0]

\* An entry: always the newest build (ATAK: of the line it is held to, if any), one
\* build, or nothing said.
Newest(p, line) == [pkg |-> p, newest |-> TRUE, pin |-> NoBuild, held |-> line]
Pinned(b) == [pkg |-> b.pkg, newest |-> FALSE, pin |-> b, held |-> NoLine]
Open(p) == [pkg |-> p, newest |-> FALSE, pin |-> NoBuild, held |-> NoLine]

\* What no stored policy breaks (AppCatalogSpec, KioskSpec, reserved_packages.named_in),
\* and the merge keeps, which is by the key of one field: a field names a package once,
\* only the catalog's fields may want the newest, ATAK is no required app, ATLAS's own
\* packages are in no field, and a home screen has the launcher.  Two fields may name one
\* package, since two policies may, and nothing says what package a build is of.
Valid(v) ==
    /\ \A e, f \in v.core : e = f
    /\ \A e, f \in v.kiosk : e = f
    /\ \A field \in {v.plugins, v.apps, v.tiles} : \A e, f \in field : e.pkg = f.pkg => e = f
    /\ \A e \in v.kiosk \cup v.tiles : ~e.newest
    /\ \A e \in v.apps : e.pkg # Atak
    /\ \A e \in v.core \cup v.plugins \cup v.apps \cup v.kiosk \cup v.tiles :
           e.pkg \in {Atak} \cup Plugin \cup App
    /\ v.own \subseteq {Launcher, WebFilter} /\ (v.tiles # {} => Launcher \in v.own)

Init ==
    /\ policy \in {v \in Policies : Valid(v)}
    /\ device \in Report
    /\ library = {} /\ links = {}

-----------------------------------------------------------------------------
(* The library.                                                            *)

\* packages.ingest of one build, and of the companions inside a plugin's.
Upload(b) ==
    LET inside == {l \in Carries : l[1] = b}
    IN  /\ b \notin library
        /\ library' = library \cup {b} \cup {l[2] : l \in inside}
        /\ links' = links \cup inside
        /\ UNCHANGED <<policy, device>>

\* A build no policy names; deleting one that is named moves the pin (Library).  A
\* companion uploaded again is not linked again: its plugins have been scanned.
Delete(b) ==
    /\ b \in library
    /\ \A e \in policy.core \cup policy.plugins \cup policy.apps
              \cup policy.kiosk \cup policy.tiles : e.pin # b
    /\ library' = library \ {b}
    /\ links' = {l \in links : b # l[1] /\ b # l[2]}
    /\ UNCHANGED <<policy, device>>

Next == \E b \in Universe : Upload(b) \/ Delete(b)

-----------------------------------------------------------------------------
(* One build of one package (newest_build, atlas_plugin, packages).        *)

Of(p) == {b \in library : b.pkg = p}

Top(builds) ==
    IF builds = {} THEN NoBuild ELSE CHOOSE b \in builds : \A v \in builds : v.code <= b.code

\* atak_compat.level: a NOTE, for a line older than ATAK's that it still loads.
Loads(target, line) == target < line /\ target >= OldestLine

\* newest_build.choose for this device, beside ATAK of the line `atak`.
Choose(p, atak, held) ==
    LET inLine == {b \in Of(p) : held = NoLine \/ b.version = held}
        runnable == {b \in inLine : b.sdk <= device.level}
        plugins == {b \in runnable : b.line # NoLine}
        exact == {b \in plugins : b.line = atak}
        older == {b \in plugins : Loads(b.line, atak)}
    IN  IF atak = NoLine \/ plugins = {} THEN Top(runnable)
        ELSE Top(IF exact # {} THEN exact ELSE older)

\* The build an entry comes to; a pin is absolute.
Build(e, atak) ==
    IF e.newest THEN Choose(e.pkg, atak, e.held)
    ELSE IF e.pin \in Of(e.pkg) THEN e.pin ELSE NoBuild

\* Mutant: what the device runs, before what the policy is about to install.
AtakVersionReported ==
    IF device.atak # NoLine THEN device.atak
    ELSE IF \E e \in policy.core : e.pin \in library
         THEN (CHOOSE e \in policy.core : TRUE).pin.version ELSE NoLine

\* _atak_version_for: ATAK Core if it comes to a build, else the report.  A build it pins
\* is looked up by its content alone, and no kiosk, tile or plugin's entry is looked at.
AtakVersion ==
    LET core == {IF e.newest THEN Choose(e.pkg, NoLine, e.held) ELSE e.pin : e \in policy.core}
        there == core \cap library
    IN  IF there # {} THEN (CHOOSE b \in there : TRUE).version ELSE device.atak

\* atlas_plugin.required_entry: only beside ATAK Core pinned to a build there is, of ATAK;
\* the highest line at or below that one's, and of that the newest build.
AtlasEntries ==
    LET fitting == {b \in Of(AtlasPlugin) :
                       /\ b.line # NoLine
                       /\ \E e \in policy.core :
                              e.pkg = Atak /\ e.pin \in Of(Atak) /\ b.line <= e.pin.version}
    IN  IF fitting = {} THEN {}
        ELSE {Pinned(Top({b \in fitting : \A v \in fitting : v.line <= b.line}))}

\* packages.newest_base_sha
OwnEntry(p) == IF Of(p) = {} THEN Open(p) ELSE Pinned(Top(Of(p)))

-----------------------------------------------------------------------------
(* The list (resolve_required_apps, _with_companions, resolve_store_apps). *)

\* _everything_required: the entries of the catalog's fields, with the place of the field.
Core == 1
Said == ({Core} \X policy.core) \cup ({2} \X policy.plugins) \cup ({3} \X policy.apps)

\* _require: entries of packages nothing was said of yet.
Unless(said, entries) ==
    said \cup ({4} \X {e \in entries : \A s \in said : s[2].pkg # e.pkg})

\* What a single-app kiosk, then ATLAS, then the tiles add.  Tiles of the device's own apps
\* and of the agent are left out, as the code passes them over.
Required ==
    LET own == AtlasEntries \cup {OwnEntry(p) : p \in policy.own}
        placed == {e \in policy.tiles : e.pin # NoBuild}
    IN  Unless(Unless(Unless(Said, policy.kiosk), own), placed)

\* What the list says of a package: a build to install, or none there is; `place` is that
\* of the entry, `with` are the plugins a companion comes with.
Item(p, b, place, carriers) == [pkg |-> p, build |-> b, place |-> place, with |-> carriers]

Beside(atak) == {Item(s[2].pkg, Build(s[2], atak), s[1], {}) : s \in Required}
Resolved == Beside(AtakVersion)

\* Where the list has an item: a companion in front of the first plugin it comes with,
\* the others by their names, those of one name by their places.
Anchor(i) ==
    IF i.with = {} THEN i.pkg ELSE CHOOSE p \in i.with : \A q \in i.with : p <= q
Ahead(i, j) ==
    \/ Anchor(i) < Anchor(j)
    \/ Anchor(i) = Anchor(j) /\ i.with # {} /\ (j.with = {} \/ i.pkg < j.pkg)
    \/ Anchor(i) = Anchor(j) /\ i.with = {} /\ j.with = {} /\ i.place < j.place

InOrder(items) ==
    LET Place(i) == Cardinality({j \in items : Ahead(j, i)}) + 1
    IN  [n \in 1 .. Cardinality(items) |-> CHOOSE i \in items : Place(i) = n]

\* The links out of the plugin builds chosen.
From(builds) == {l \in links : l[1] \in builds}
Brought(items) == From({i.build : i \in items})

\* What the list says of a companion: its highest build, and the plugins it comes with.
OneOf(p, brought) ==
    Item(p, Top({l[2] : l \in {k \in brought : k[2].pkg = p}}), 0,
         {l[1].pkg : l \in {k \in brought : k[2].pkg = p}})

\* Mutant: a companion the policy names is brought all the same.
CompanionsAll(items, brought) == {OneOf(p, brought) : p \in {l[2].pkg : l \in brought}}

\* One item per companion nothing names.
Companions(items, brought) ==
    {OneOf(p, brought) : p \in {l[2].pkg : l \in brought} \ {i.pkg : i \in items}}

\* Everything the list has a build of, in no order.
Delivered == Resolved \cup Companions(Resolved, Brought(Resolved))

WithCompanions(items) == InOrder(items \cup Companions(items, Brought(items)))

Named(list) == {list[i].pkg : i \in DOMAIN list}

\* Tiles that only place an app, where nothing delivers it.
Missing(list) == {e.pkg : e \in {f \in policy.tiles : f.pin = NoBuild}} \ Named(list)

WithMissing(list) == list \o InOrder({Item(p, NoBuild, 0, {}) : p \in Missing(list)})

Apps == WithMissing(WithCompanions(Resolved))

\* The builds of the storefront the device is offered, beside a list of these names.
Store(named) ==
    {b \in policy.shelf \cap library :
        /\ b.pkg \notin named
        /\ policy.kioskStore => b.line = NoLine}

-----------------------------------------------------------------------------
(* Properties.                                                             *)

\* ATAK Core as the console's picker saves it: ATAK, held to one build of it or the newest.
CoreIsAtak ==
    \A e \in policy.core :
        /\ e.pkg = Atak
        /\ e.pin = NoBuild \/ (e.pin.pkg = Atak /\ ~e.newest)

\* Every plugin whose build the server chose is one ATAK will load: it is of the line
\* of the very ATAK that ATAK Core puts on the same list, or of an older one that ATAK
\* accepts, and where ATAK Core puts none there, of what the device reported; ATAK that
\* only a kiosk, a tile or a plugin's entry brings is looked at by nobody
\* (effective_policy._atak_version_for, newest_build.choose, atlas_plugin).
PluginsLoad ==
    LET chosen == {i \in Delivered :
                      /\ i.build.line # NoLine
                      /\ i.pkg # Atak
                      /\ \/ i.pkg = AtlasPlugin
                         \/ \E s \in Required :
                                s[2].newest /\ s[2].pkg = i.pkg /\ s[1] = i.place}
        atak == {i.build : i \in {j \in Delivered : j.place = Core}} \ {NoBuild}
        line == IF atak = {} THEN device.atak ELSE (CHOOSE b \in atak : TRUE).version
    IN  CoreIsAtak /\ line # NoLine =>
            \A i \in chosen : i.build.line = line \/ Loads(i.build.line, line)

\* Packages that two of the catalog's fields name.
NamedTwice == {s[2].pkg : s \in {x \in Said : \E y \in Said : x # y /\ x[2].pkg = y[2].pkg}}

\* The list is what is delivered and the tiles nothing delivers.  A package is one slot
\* on a device, and what the list says fills it once, or once for each of the catalog's
\* fields that name it; the store offers nothing the list names; a companion is there
\* once, before every plugin that would ask the user for it, and is no older than any of
\* those carries (effective_policy._with_companions, resolve_store_apps).
CompanionsFit ==
    LET apps == Apps
        at(p) == {i \in DOMAIN apps : apps[i].pkg = p}
        required == {s[2].pkg : s \in Required}
    IN  /\ Delivered \subseteq ToSet(apps)
        /\ \A i \in ToSet(apps) \ Delivered : i.build = NoBuild
        /\ \A i, j \in DOMAIN apps :
               apps[i].pkg = apps[j].pkg =>
                   i = j \/ (apps[i].pkg \in NamedTwice /\ apps[i].place # apps[j].place)
        /\ \A b \in Store(Named(apps)) : at(b.pkg) = {}
        /\ \A l \in Brought(Resolved) : \A i \in at(l[1].pkg), c \in at(l[2].pkg) :
               l[2].pkg \notin required =>
                   c < i /\ apps[c].build.code >= l[2].code

=============================================================================
