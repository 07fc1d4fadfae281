------------------------------- MODULE MCFleet -------------------------------
(***************************************************************************)
(* Two views of the cache rows, each on its own: a fleet, each request one *)
(* step, and one device with the sessions of its requests overlapping.     *)
(* They share no state, so a behaviour is one of them, `focus`, and the    *)
(* other stands still.                                                     *)
(***************************************************************************)
EXTENDS Convergence, TLC

CONSTANTS Session, MaxConsole

VARIABLES
    focus,
    oneRev, oneBreached, oneConfirmed, oneVersion, oneAcked, onePayload, oneStale,
    oneHeld, oneDocument, oneApplied, oneRunning, waiting, stage, local, opened,
    crossed, clouded, disputed, ever

oneVars == <<oneRev, oneBreached, oneConfirmed, oneVersion, oneAcked, onePayload, oneStale,
             oneHeld, oneDocument, oneApplied, oneRunning, waiting, stage, local, opened,
             crossed, clouded, disputed, ever>>

One == INSTANCE CheckinSessionsProofs
    WITH rev <- oneRev, breached <- oneBreached, confirmed <- oneConfirmed,
         version <- oneVersion, acked <- oneAcked, payload <- onePayload, stale <- oneStale,
         held <- oneHeld, document <- oneDocument, applied <- oneApplied,
         running <- oneRunning, at <- stage, edits <- opened, MaxEdits <- MaxConsole

\* One initial state of the fleet when it is to stand still.
BothInit ==
    /\ focus \in {"fleet", "sessions"}
    /\ Init /\ One!Init
    /\ focus = "sessions" => \A d \in Device : reach[d] = {}

FleetStep == focus = "fleet" /\ Next /\ UNCHANGED <<focus, oneVars>>
SessionStep == focus = "sessions" /\ One!Next /\ UNCHANGED <<focus, vars>>
BothNext == FleetStep \/ SessionStep

BothSpec == BothInit /\ [][BothNext]_<<focus, vars, oneVars>>

\* Devices are interchangeable, and so are sessions.
Symmetry == Permutations(Device) \cup Permutations(Session)

\* What CheckinSessions says of its sessions.
RowIsCurrent == One!RowIsCurrent
VersionsBind == One!VersionsBind
AcksWereApplied == One!AcksWereApplied

=============================================================================
