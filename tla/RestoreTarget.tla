---------------------------- MODULE RestoreTarget ----------------------------
(***************************************************************************)
(* What a restore does to the guest that holds its target VMID: the        *)
(* preflight report of the dashboard (services/restore_service.py), which  *)
(* judges by an inventory that lags behind the host, the checks of the     *)
(* agent (services/restore_service.py of the agent), which look at the     *)
(* host but act on what they saw some awaits ago, and the task that stops, *)
(* replaces and starts the guest, while the operator goes on using Proxmox.*)
(*                                                                         *)
(* RestoreFlow follows the row and the task through crashes and restarts   *)
(* and knows nothing of guests; here the row is followed only as far as    *)
(* its verdict says something about the guest.  One VMID, one archive.     *)
(***************************************************************************)
EXTENDS Naturals, FiniteSets

CONSTANTS
    RestoreIds, \* ids of restore_history rows, handed out in increasing order
    Here,       \* the node the agent runs on
    Elsewhere,  \* any other node a request may name
    Nothing,
    TargetStarts    \* scenarios: what holds the VMID, and how many events of each kind follow

ASSUME RestoreIdsAssumption == RestoreIds \subseteq Nat /\ Nothing \notin RestoreIds

ASSUME NodeAssumption == Here # Elsewhere

\* request: a restore is asked for; guest: the operator creates, removes, starts or stops
\* a guest; archive: the file is rewritten or removed; storage: it fills up, frees up or is
\* removed;
\* lost: the dashboard gives up on the agent, whose answer is late or lost.
TargetEvents == {"request", "guest", "archive", "storage", "lost"}

VARIABLES
    \* the host
    guest,      \* what holds the VMID: Nothing, or its type and whether it runs
    archive,    \* the archive: intact, damaged or absent
    sidecar,    \* the digest cached beside it: of which content, or Nothing
    storage,    \* the target storage: ready, full (or inactive), removed
    \* the database
    inventory,  \* the cached guest row for the VMID, Nothing if there never was one
    digest,     \* whether a digest was recorded with the backup
    verdict,    \* row: the verdict on each restore
    want,       \* what each restore asks for
    \* the agent
    phase,      \* where the request for r, and then its task, is
    seen,       \* the restores for which a guest held the VMID when the agent looked
    hashed,     \* what hashing the archive for r found
    \* history
    done,       \* what the agent did to the guest for r; "verified": it looked at the
                \* archive for its digest while that was intact
    misfiled,   \* a digest was written beside an archive rewritten since it was hashed
    calm,       \* confirmed on a true picture, and nothing has changed since
    targetLeft

hostVars   == <<guest, archive, sidecar, storage>>
recordVars == <<inventory, digest, verdict, want>>
digestVars == <<hashed, misfiled>>
touchVars  == <<phase, seen, digestVars, done>>
targetVars == <<hostVars, recordVars, touchVars, calm, targetLeft>>

Types  == {"vm", "lxc"}
Type   == "vm"              \* of the guest the archive was taken from
Guests == {Nothing} \cup [type : Types, up : BOOLEAN]
Wishes == [node : {Here, Elsewhere}, overwrite : BOOLEAN, stop : BOOLEAN, start : BOOLEAN]

ASSUME TargetStartsAssumption ==
    TargetStarts \subseteq [guest : Guests, left : [TargetEvents -> Nat]]

ASSUME NothingAssumption ==
    Nothing \notin {"intact", "damaged"} \cup Wishes \cup [type : Types, up : BOOLEAN]

TargetInFlight == {"confirmed", "running"}
Before   == {"none", "pending", "confirmed", "expired", "dropped", "refused"}
Verdicts == Before \cup {"running", "success", "failed", "cancelled", "interrupted"}

Handling  == {"asked", "status", "digest", "hashed", "filed"}  \* in the handler, no slot yet
Acting == {"stopping", "spawn", "restoring", "starting"}
Phases    == {"none", "refused", "success", "failed", "cancelled"} \cup Handling \cup Acting
Effects   == {"verified", "stopped", "destroyed", "rebuilt", "started"}

TargetSpend(e) == targetLeft[e] > 0 /\ targetLeft' = [targetLeft EXCEPT ![e] = @ - 1]

\* What Proxmox answers: at most one guest holds a VMID, of either type.
Discovered == {guest} \ {Nothing}

\* The row the inventory keeps; it never forgets a guest that disappeared.
Cached == IF Discovered = {} THEN inventory ELSE CHOOSE g \in Discovered : TRUE

TargetInit ==
    /\ \E start \in TargetStarts : guest = start.guest /\ targetLeft = start.left
    /\ archive = "intact" /\ storage = "ready"
    /\ digest \in BOOLEAN /\ sidecar \in (IF digest THEN {Nothing, "intact"} ELSE {Nothing})
    /\ inventory = guest
    /\ verdict = [r \in RestoreIds |-> "none"]
    /\ want = [r \in RestoreIds |-> Nothing]
    /\ phase = [r \in RestoreIds |-> "none"] /\ seen = {}
    /\ hashed = [r \in RestoreIds |-> Nothing] /\ misfiled = FALSE
    /\ done = [r \in RestoreIds |-> {}]
    /\ calm = {}

-----------------------------------------------------------------------------
(* The preflight report. *)

\* The mutant of TargetTypeMatches: the type of the target is not compared.
AnyType(w) == TRUE

\* The digest the sidecar vouches for while it is newer than the archive, if it is.
ReadCached == IF archive = "absent" THEN Nothing ELSE sidecar

\* What the agent lists: nothing, or the archive with the digest it has at hand.
Listed == IF archive = "absent" THEN {} ELSE {[digest |-> ReadCached]}

ArchivePresent == Listed # {}

\* A digest the host does not report yet is left to the agent.
ChecksumMatches == digest => \A item \in Listed : item.digest \in {Nothing, "intact"}

\* The VMID is looked up across both types.
Existing == {inventory} \ {Nothing}

TargetFree(w)        == Existing # {} => w.overwrite
TargetTypeMatches(w) == \A g \in Existing : g.type = Type
TargetStopped(w)     == \A g \in Existing : g.up => w.stop

NodeSupported(w) == w.node = Here

StorageFree == storage = "ready"

NoneInFlight == \A r \in RestoreIds : verdict[r] \notin TargetInFlight

TargetPreflight(w) ==
    /\ ArchivePresent /\ ChecksumMatches
    /\ TargetFree(w) /\ TargetTypeMatches(w) /\ TargetStopped(w)
    /\ NodeSupported(w) /\ StorageFree /\ NoneInFlight

-----------------------------------------------------------------------------
(* The dashboard. *)

NewRow(r, w) ==
    /\ verdict[r] = "none" /\ \A q \in RestoreIds : q < r => verdict[q] # "none"
    /\ verdict' = [verdict EXCEPT ![r] = "pending"] /\ want' = [want EXCEPT ![r] = w]

\* A refused request writes nothing.
Create(r, w) ==
    /\ TargetPreflight(w) /\ NewRow(r, w) /\ TargetSpend("request")
    /\ UNCHANGED <<hostVars, inventory, digest, touchVars, calm>>

\* The picture the second preflight judges by is the true one, and the agent is free.
TruePicture ==
    /\ inventory = guest
    /\ archive = "intact"
    /\ \A q \in RestoreIds : phase[q] \notin Handling \cup Acting

\* The original request, rebuilt from the row.
RequestFrom(r) == want[r]

Confirm(r) ==
    /\ verdict[r] = "pending" /\ TargetPreflight(RequestFrom(r))
    /\ verdict' = [verdict EXCEPT ![r] = "confirmed"]
    /\ calm' = IF TruePicture THEN calm \cup {r} ELSE calm
    /\ UNCHANGED <<hostVars, inventory, digest, want, touchVars, targetLeft>>

Cancel(r) ==
    /\ verdict[r] \in {"pending", "confirmed"}
    /\ verdict' = [verdict EXCEPT ![r] = "dropped"]
    /\ UNCHANGED <<hostVars, inventory, digest, want, touchVars, calm, targetLeft>>

ExpireStale(r) ==
    /\ verdict[r] = "pending"
    /\ verdict' = [verdict EXCEPT ![r] = "expired"]
    /\ UNCHANGED <<hostVars, inventory, digest, want, touchVars, calm, targetLeft>>

\* The plan the worker rebuilds from the row: what the agent is asked for.
Plan(r) == want[r]

\* The worker claims the row and asks the agent.
Ask(r) ==
    /\ verdict[r] = "confirmed"
    /\ verdict' = [verdict EXCEPT ![r] = "running"] /\ phase' = [phase EXCEPT ![r] = "asked"]
    /\ UNCHANGED <<hostVars, inventory, digest, want, seen, digestVars, done, calm, targetLeft>>

\* The mutant of Unanswered: an unreachable agent counts as a refusal.
UnansweredFails == "refused"

Unanswered == "interrupted"

\* The agent cannot be reached: the request, its answer or the polls are lost, or the
\* answer takes longer than the client waits, which hashing a large archive may.
GiveUp(r) ==
    /\ verdict[r] = "running" /\ TargetSpend("lost")
    /\ verdict' = [verdict EXCEPT ![r] = Unanswered]
    /\ \/ UNCHANGED phase
       \/ phase[r] \in Handling /\ phase' = [phase EXCEPT ![r] = "none"]
    /\ UNCHANGED <<hostVars, inventory, digest, want, seen, digestVars, done, calm>>

\* The agent's refusal, or the end of its task, reaches the row.
Record(r) ==
    /\ verdict[r] = "running" /\ phase[r] \in {"refused", "success", "failed", "cancelled"}
    /\ verdict' = [verdict EXCEPT ![r] = phase[r]]
    /\ UNCHANGED <<hostVars, inventory, digest, want, touchVars, calm, targetLeft>>

SyncInventory ==
    /\ inventory' = Cached
    /\ UNCHANGED <<hostVars, digest, verdict, want, touchVars, calm, targetLeft>>

-----------------------------------------------------------------------------
(* The handler of the agent.  Every step is an await after the previous one. *)

To(r, p) == phase' = [phase EXCEPT ![r] = p]

Resolved == archive # "absent"

StorageKnown == storage # "removed"

\* The config file that holds the VMID, of whichever type.
Found == {guest} \ {Nothing}

Acceptable(w) ==
    /\ Resolved /\ StorageKnown
    /\ \A g \in Found : w.overwrite /\ g.type = Type

Look(r) ==
    /\ phase[r] = "asked"
    /\ IF Acceptable(Plan(r))
       THEN IF Found # {}
            THEN To(r, "status") /\ seen' = seen \cup {r}
            ELSE To(r, "digest") /\ UNCHANGED seen
       ELSE To(r, "refused") /\ UNCHANGED seen
    /\ UNCHANGED <<hostVars, recordVars, digestVars, done, calm, targetLeft>>

\* `qm status` fails for a guest of the other type, or for none.
GuestStatus ==
    IF \E g \in Found : g.type = Type
    THEN IF guest.up THEN "running" ELSE "stopped"
    ELSE "unknown"

\* A status that cannot be read passes.
AssertStoppable(r) ==
    /\ phase[r] = "status"
    /\ To(r, IF GuestStatus = "running" /\ ~Plan(r).stop THEN "refused" ELSE "digest")
    /\ UNCHANGED <<hostVars, recordVars, seen, digestVars, done, calm, targetLeft>>

\* The agent looks at the archive for its digest.
LooksAt(r) == done' = IF archive = "intact" THEN [done EXCEPT ![r] = @ \cup {"verified"}] ELSE done

\* Without a cached digest, a thread hashes the archive while the loop goes on.
HashArchive(r) ==
    /\ phase[r] = "digest" /\ digest /\ ReadCached = Nothing /\ archive # "absent"
    /\ To(r, "hashed") /\ hashed' = [hashed EXCEPT ![r] = archive] /\ LooksAt(r)
    /\ UNCHANGED <<hostVars, recordVars, seen, misfiled, calm, targetLeft>>

\* Another thread caches what was found, whatever the archive is by now; a write that
\* fails is only logged.
WriteCache(r) ==
    /\ phase[r] = "hashed" /\ To(r, "filed")
    /\ \/ sidecar' = hashed[r] /\ misfiled' = (misfiled \/ hashed[r] # archive)
       \/ UNCHANGED <<sidecar, misfiled>>
    /\ UNCHANGED <<guest, archive, storage, recordVars, seen, hashed, done, calm, targetLeft>>

\* The handler has the digest it compares, or needs none.
DigestReady(r) == phase[r] = "filed" \/ (phase[r] = "digest" /\ (digest => ReadCached # Nothing))

\* What it is a digest of.
Computed(r) == IF phase[r] = "filed" THEN hashed[r] ELSE ReadCached

Verified(r) == digest => Computed(r) = "intact"

SlotBusy == \E q \in RestoreIds : phase[q] \in Acting

\* What the task will do first: stop the guest that was seen, if it was asked to.
StopFirst(r) == r \in seen /\ Plan(r).stop

\* A cached digest is compared at once.
Accept(r) ==
    /\ DigestReady(r) /\ Verified(r) /\ ~SlotBusy
    /\ To(r, IF StopFirst(r) THEN "stopping" ELSE "spawn")
    /\ IF phase[r] = "digest" THEN LooksAt(r) ELSE UNCHANGED done
    /\ UNCHANGED <<hostVars, recordVars, seen, digestVars, calm, targetLeft>>

\* A mismatch, another restore in the slot, or an archive that is no longer there to hash.
Reject(r) ==
    /\ \/ DigestReady(r) /\ (~Verified(r) \/ SlotBusy)
       \/ phase[r] = "digest" /\ digest /\ archive = "absent"
    /\ To(r, "refused")
    /\ UNCHANGED <<hostVars, recordVars, seen, digestVars, done, calm, targetLeft>>

-----------------------------------------------------------------------------
(* The task of the agent, and the commands it runs. *)

Did(r, e) == done' = [done EXCEPT ![r] = @ \cup e]

\* `qm stop`: the guest runs and stops, or there was nothing to do.
StopGuest(r) ==
    /\ phase[r] = "stopping" /\ guest # Nothing /\ guest.type = Type
    /\ guest' = [guest EXCEPT !.up = FALSE]
    /\ Did(r, IF guest.up THEN {"stopped"} ELSE {})
    /\ To(r, "spawn")
    /\ UNCHANGED <<archive, sidecar, storage, recordVars, seen, digestVars, calm, targetLeft>>

\* The mutant of Forced: --force on every restore.
ForcedAlways(r) == TRUE

Forced(r) == Plan(r).overwrite

\* `qmrestore` replaces a guest of its own type that does not run, and with --force only.
Restorable(r) ==
    /\ archive # "absent" /\ storage # "removed"
    /\ guest # Nothing => (Forced(r) /\ guest.type = Type /\ ~guest.up)

Spawn(r) ==
    /\ phase[r] = "spawn" /\ Restorable(r)
    /\ guest' = [type |-> Type, up |-> FALSE]
    /\ Did(r, IF guest # Nothing THEN {"destroyed"} ELSE {})
    /\ To(r, "restoring")
    /\ UNCHANGED <<archive, sidecar, storage, recordVars, seen, digestVars, calm, targetLeft>>

Rebuilt(r) ==
    /\ phase[r] = "restoring"
    /\ Did(r, {"rebuilt"})
    /\ To(r, IF Plan(r).start THEN "starting" ELSE "success")
    /\ UNCHANGED <<hostVars, recordVars, seen, digestVars, calm, targetLeft>>

\* The restore ends without a guest, or with a part of one.
Broken(r) ==
    /\ phase[r] = "restoring"
    /\ guest' \in {Nothing, guest}
    /\ \E end \in {"failed", "cancelled"} : To(r, end)
    /\ UNCHANGED <<archive, sidecar, storage, recordVars, seen, digestVars, done, calm, targetLeft>>

\* A guest that fails to start is a warning on a success.
StartGuest(r) ==
    /\ phase[r] = "starting"
    /\ \/ /\ guest # Nothing /\ guest.type = Type
          /\ guest' = [guest EXCEPT !.up = TRUE] /\ Did(r, {"started"})
       \/ UNCHANGED <<guest, done>>
    /\ To(r, "success")
    /\ UNCHANGED <<archive, sidecar, storage, recordVars, seen, digestVars, calm, targetLeft>>

\* A command that fails before the restore began, or an exception anywhere.
TaskFails(r) ==
    /\ phase[r] \in {"stopping", "spawn", "starting"}
    /\ To(r, "failed")
    /\ UNCHANGED <<hostVars, recordVars, seen, digestVars, done, calm, targetLeft>>

-----------------------------------------------------------------------------
(* The operator, and the disk. *)

\* Proxmox locks a guest while it is being restored.
Locked == \E r \in RestoreIds : phase[r] = "restoring"

Operate ==
    /\ ~Locked /\ TargetSpend("guest")
    /\ guest' \in Guests \ {guest}
    /\ (guest # Nothing /\ guest' # Nothing) => guest'.type = guest.type
    /\ calm' = {}
    /\ UNCHANGED <<archive, sidecar, storage, recordVars, touchVars>>

\* A rewritten archive is newer than its sidecar.
ArchiveChanges ==
    /\ archive = "intact" /\ TargetSpend("archive")
    /\ archive' \in {"damaged", "absent"} /\ sidecar' = Nothing
    /\ calm' = {}
    /\ UNCHANGED <<guest, storage, recordVars, touchVars>>

StorageChanges ==
    /\ TargetSpend("storage")
    /\ storage' \in {"ready", "full", "removed"} \ {storage}
    /\ calm' = {}
    /\ UNCHANGED <<guest, archive, sidecar, recordVars, touchVars>>

-----------------------------------------------------------------------------

Request(r) == Confirm(r) \/ Cancel(r) \/ ExpireStale(r) \/ \E w \in Wishes : Create(r, w)
TargetWorker(r)  == Ask(r) \/ GiveUp(r) \/ Record(r)
Handler(r) ==
    Look(r) \/ AssertStoppable(r) \/ HashArchive(r) \/ WriteCache(r) \/ Accept(r) \/ Reject(r)
Task(r)    == StopGuest(r) \/ Spawn(r) \/ Rebuilt(r) \/ Broken(r) \/ StartGuest(r) \/ TaskFails(r)
Outside    == Operate \/ ArchiveChanges \/ StorageChanges

TargetNext ==
    \/ \E r \in RestoreIds : Request(r) \/ TargetWorker(r) \/ Handler(r) \/ Task(r)
    \/ SyncInventory
    \/ Outside

TargetSpec == TargetInit /\ [][TargetNext]_targetVars

-----------------------------------------------------------------------------
(* Properties. *)

TargetTypeOK ==
    /\ guest \in Guests /\ inventory \in Guests
    /\ archive \in {"intact", "damaged", "absent"} /\ sidecar \in {Nothing, "intact", "damaged"}
    /\ storage \in {"ready", "full", "removed"} /\ digest \in BOOLEAN
    /\ verdict \in [RestoreIds -> Verdicts] /\ want \in [RestoreIds -> Wishes \cup {Nothing}]
    /\ phase \in [RestoreIds -> Phases] /\ done \in [RestoreIds -> SUBSET Effects]
    /\ seen \subseteq RestoreIds /\ calm \subseteq RestoreIds
    /\ hashed \in [RestoreIds -> {Nothing, "intact", "damaged"}] /\ misfiled \in BOOLEAN
    /\ targetLeft \in [TargetEvents -> Nat]

\* What the row tells the operator about the guest is true: a restore that was never
\* confirmed, or that the agent refused, did nothing to it ("so nothing on the host
\* changed"); a success rebuilt it; a failure rebuilt it only if starting it is what failed.
VerdictIsTrue ==
    \A r \in RestoreIds :
        /\ verdict[r] \in Before => done[r] \subseteq {"verified"}
        /\ verdict[r] = "success" => "rebuilt" \in done[r]
        /\ verdict[r] \in {"failed", "cancelled"} => ("rebuilt" \in done[r] => want[r].start)

\* A cached digest vouches for a damaged archive only if it was written beside it after
\* the archive had been rewritten; of an intact archive no other digest is ever found.
SidecarIsRight ==
    /\ archive = "damaged" /\ sidecar = "intact" => misfiled
    /\ archive = "intact" => sidecar # "damaged" /\ \A r \in RestoreIds : hashed[r] # "damaged"

\* At most one restore is in flight; the agent works on what was claimed, and the verdict
\* it gave is the one in the row.
PhaseIsRows ==
    /\ \A q, r \in RestoreIds : {verdict[q], verdict[r]} \subseteq TargetInFlight => q = r
    /\ \A r \in RestoreIds :
          /\ verdict[r] \in Before \ {"refused"} => phase[r] = "none"
          /\ verdict[r] \in {"refused", "success", "failed", "cancelled"} => phase[r] = verdict[r]
          /\ verdict[r] # "none" => want[r] \in Wishes

\* What has been done for a restore at each stage of its request and its task.
DoneByPhase ==
    \A r \in RestoreIds :
       /\ phase[r] \in {"none", "refused"} \cup Handling => done[r] \subseteq {"verified"}
       /\ phase[r] \in {"hashed", "filed"} => hashed[r] # Nothing
       /\ phase[r] \in {"hashed", "filed"} /\ hashed[r] = "intact" => "verified" \in done[r]
       /\ phase[r] \in {"stopping", "spawn"} =>
             /\ done[r] \subseteq {"verified", "stopped"}
             /\ digest => ("verified" \in done[r] \/ misfiled)
       /\ phase[r] = "stopping" => StopFirst(r)
       /\ phase[r] = "restoring" => "rebuilt" \notin done[r]
       /\ phase[r] = "starting" => "rebuilt" \in done[r] /\ want[r].start
       /\ phase[r] = "success" => "rebuilt" \in done[r]
       /\ phase[r] \in {"failed", "cancelled"} => ("rebuilt" \in done[r] => want[r].start)
       /\ r \in seen =>
             /\ want[r].overwrite /\ phase[r] # "asked"
             /\ verdict[r] \notin {"none", "pending", "confirmed"}

\* As long as nothing has changed, the agent would find what the report said, and is
\* busy with nothing else.
StillAccepted ==
    \A r \in calm :
       /\ verdict[r] \notin {"none", "pending", "refused"}
       /\ verdict[r] \in TargetInFlight =>
             /\ archive = "intact" /\ storage = "ready" /\ phase[r] # "refused"
             /\ \A q \in RestoreIds \ {r} : phase[q] \notin Handling \cup Acting
             /\ phase[r] \in {"none"} \cup Handling /\ guest # Nothing =>
                   want[r].overwrite /\ guest.type = Type /\ (guest.up => want[r].stop)

\* An inductive invariant: what the report, the rows, the agent and its task say of one
\* another, verdicts included.
Consistent ==
    TargetTypeOK /\ SidecarIsRight /\ PhaseIsRows /\ DoneByPhase /\ StillAccepted /\ VerdictIsTrue

\* The two sets of checks agree: a restore confirmed while the inventory, the archive and
\* the agent were as the report said, and nothing changed since, is not refused.
RefusalIsNews == \A r \in RestoreIds : verdict[r] = "refused" => r \notin calm

New(r) == done'[r] \ done[r]

\* However old what the report, the confirmation and the agent saw: the guest is touched
\* for a restore that was confirmed and not withdrawn, stopped only where force_stop was
\* asked, and destroyed only where overwriting was, never a guest of the other type or
\* one that runs; and where a digest was recorded, the agent looked at the archive while it
\* was intact, unless it trusted a digest cached beside an archive rewritten since.
TouchesAsConfirmed ==
    [][\A r \in RestoreIds :
        /\ New(r) \subseteq {"verified"} \/ verdict[r] \in {"running", "interrupted"}
        /\ "stopped" \in New(r) => (want[r].overwrite /\ want[r].stop)
        /\ "destroyed" \in New(r) =>
            /\ want[r].overwrite /\ guest.type = Type /\ ~guest.up
            /\ digest => ("verified" \in done[r] \/ misfiled)]_targetVars
=============================================================================
