------------------------------ MODULE Retention ------------------------------
(***************************************************************************)
(* Retention: the worker that decides which archives have been kept long   *)
(* enough (workers/retention_worker.py), the classification it applies     *)
(* (services/retention_service.py), and the committed changes it reacts    *)
(* to, or fails to react to.                                               *)
(*                                                                         *)
(* Everything that changes what retention ranks by takes the retention     *)
(* guard up to its commit; the inside of those transactions is the matter  *)
(* of BackupRunner, RestoreFlow and SyncQueue, and one step here.  A pass  *)
(* holds the guard from the choice of its trigger to its last deletion.    *)
(***************************************************************************)
EXTENDS Naturals, FiniteSets

CONSTANTS
    Backups,      \* ids of backup_history rows that succeed, in order of started_at
    Guests,
    Guest,        \* Guest[b]: the guest b is a backup of
    Run,          \* Run[b]: what the run that made b says of its policy, None for no run
    Policies,     \* the settings an operator may choose
    MaxRetries,   \* the length of retry_delays
    None,
    Budgets       \* scenarios: how many events of each kind a behaviour may have

Places == {"host", "drive"}

ASSUME BackupsAssumption ==
    Backups \subseteq Nat /\ None \notin Backups \cup (Backups \X Places)

ASSUME RetriesAssumption == MaxRetries \in Nat

ASSUME GuestAssumption == Guest \in [Backups -> Guests]

Pair == [local : Nat, remote : Nat]

\* source: the retention_source of its options; frozen: the counts in them; job: the
\* counts of the job it is still linked to.  Only old runs lack a source.
PolicyContext ==
    [source : {"global", "job", "other", "absent"}, frozen : Pair \cup {None},
     linked : BOOLEAN, job : Pair \cup {None}]

ASSUME RunAssumption == Run \in [Backups -> PolicyContext \cup {None}]

\* RetentionSettings keeps at least one local copy.  deletes: Drive is enabled and
\* delete_remote_on_retention set.
ASSUME PoliciesAssumption ==
    Policies \subseteq [local : Nat \ {0}, remote : Nat, deletes : BOOLEAN, dry : BOOLEAN]

\* crash: of the process; error: an exception outside a deletion; outage: a deletion
\* fails, or its answer is lost.  The others are what the rest of the system does.
Events == {"crash", "error", "outage", "doubt", "retry", "pin", "restore", "configure",
           "delete"}

ASSUME BudgetsAssumption == Budgets \subseteq [Events -> Nat]

VARIABLES
    \* the database
    upload,         \* backup_history.upload_status, "none" before the row succeeds
    linked,         \* the backups whose remote_path is set
    gone,           \* <<b, place>>: copies recorded as deleted
    ended,          \* the backups whose status is `deleted`
    pinned, restoring, settings,
    files,          \* <<b, place>>: the archives that exist
    \* the memory of the worker
    pc, booting,
    pending, sweep, \* what the doorbell stands for
    attempts, timers,                           \* per trigger, or None for the sweep
    sweeping, work, processed,                  \* the queue in hand
    trigger, cand, hand, failed,                \* the pass in hand
    \* history
    lapsed,         \* guests that changed since their last pass and nobody announced it:
                    \* a restore moved on, an upload was reopened, a retry of a pass was
                    \* dropped, a trigger was deleted
    left            \* what is left of the scenario's budget

factVars  == <<upload, linked, gone, ended, pinned, restoring, settings, files>>
bellVars  == <<pending, sweep, attempts, timers>>
queueVars == <<sweeping, work, processed>>
passVars  == <<trigger, cand, hand, failed>>
vars == <<factVars, pc, booting, bellVars, queueVars, passVars, lapsed, left>>

Spend(e) == left[e] > 0 /\ left' = [left EXCEPT ![e] = @ - 1]

Made == {b \in Backups : upload[b] # "none"}
Keys == Backups \cup {None}

Init ==
    /\ upload = [b \in Backups |-> "none"]
    /\ linked = {} /\ gone = {} /\ ended = {} /\ pinned = {} /\ restoring = {}
    /\ settings \in Policies
    /\ files = {}
    /\ pc = "down" /\ booting = FALSE
    /\ pending = {} /\ sweep = FALSE
    /\ attempts = [k \in Keys |-> 0] /\ timers = {}
    /\ sweeping = FALSE /\ work = {} /\ processed = {}
    /\ trigger = None /\ cand = {} /\ hand = None /\ failed = FALSE
    /\ lapsed = {} /\ left \in Budgets

(***************************************************************************)
(* What retention ranks, and what it may delete                            *)
(***************************************************************************)
\* The copy of b at this place, as the rows have it.
Recorded(b, place) ==
    /\ b \in Made /\ <<b, place>> \notin gone
    /\ IF place = "host" THEN b \notin ended ELSE upload[b] = "uploaded"

Exists(b) == \E place \in Places : Recorded(b, place)

Existing(g) == {b \in Made : Guest[b] = g /\ Exists(b)}

\* The newest existing copy: its run decides the policy of a pass.
Newest(g) == IF Existing(g) = {} THEN None
             ELSE CHOOSE b \in Existing(g) : \A a \in Existing(g) : a <= b

Rankable(g, place) == {b \in Made \ pinned : Guest[b] = g /\ Recorded(b, place)}

Rank(b, place) == Cardinality({a \in Rankable(Guest[b], place) : a > b})

Safe(b) == upload[b] \in {"not_required", "uploaded"}

\* Counts out of range count as none.
Counts(pair) == IF pair # None /\ pair.local \in 1..365 /\ pair.remote \in 0..365
                THEN pair ELSE None

RawCounts(run)    == Counts(run.frozen)
LinkedCounts(run) == IF run.linked THEN Counts(run.job) ELSE None

\* A policy that would have to be guessed: the pass deletes nothing.
Unresolved == None

ResolvePolicy(run, global) ==
    IF run = None \/ run.source = "global" THEN global
    ELSE IF run.source = "job" THEN RawCounts(run)
    ELSE IF run.source = "other" \/ ~run.linked THEN Unresolved
    ELSE IF RawCounts(run) # None THEN RawCounts(run) ELSE LinkedCounts(run)

\* The policy of a pass with this trigger: the settings as they are, the counts as the
\* run says.
Policy(c) ==
    LET pair == ResolvePolicy(Run[c], [local |-> settings.local, remote |-> settings.remote])
    IN  IF pair = Unresolved THEN Unresolved
        ELSE [settings EXCEPT !.local = pair.local, !.remote = pair.remote]

HasActiveRestore(b) == b \in restoring

Replaced(g, keep) ==
    \A a \in Rankable(g, "host") : Rank(a, "host") < keep => Safe(a)

LocalPlan(g, policy) ==
    {b \in Rankable(g, "host") :
        ~HasActiveRestore(b) /\ Rank(b, "host") >= policy.local /\ Safe(b) /\ Replaced(g, policy.local)}

RemotePlan(g, policy) ==
    {b \in Rankable(g, "drive") :
        ~HasActiveRestore(b) /\ Rank(b, "drive") >= policy.remote /\ policy.deletes}

\* What a pass with this trigger would delete now.
Plan(c) ==
    LET policy == IF c = None THEN Unresolved ELSE Policy(c)
    IN  IF policy = Unresolved \/ policy.dry THEN {}
        ELSE LocalPlan(Guest[c], policy) \X {"host"}
                 \cup RemotePlan(Guest[c], policy) \X {"drive"}

\* Local copies first, newest first.
Before(k, j) == IF k[2] = j[2] THEN k[1] > j[1] ELSE k[2] = "host"
First(keys)  == CHOOSE k \in keys : \A j \in keys \ {k} : Before(k, j)

(***************************************************************************)
(* The doorbell and the retries                                            *)
(***************************************************************************)
Notify(b) ==
    /\ pending' = IF sweep THEN pending ELSE pending \cup {b}
    /\ attempts' = [attempts EXCEPT ![b] = 0]
    /\ timers' = timers \ {b}
    /\ UNCHANGED sweep

NotifyAll ==
    /\ sweep' = TRUE /\ pending' = {}
    /\ attempts' = [k \in Keys |-> 0] /\ timers' = {}

Spent(k) == attempts[k] >= MaxRetries

ScheduleRetry(k) ==
    /\ IF k \in timers \/ Spent(k)
         THEN UNCHANGED <<attempts, timers>>
         ELSE /\ attempts' = [attempts EXCEPT ![k] = @ + 1]
              /\ timers' = timers \cup {k}
    /\ UNCHANGED <<pending, sweep>>

ClearRetry(k) ==
    /\ attempts' = [attempts EXCEPT ![k] = 0] /\ timers' = timers \ {k}
    /\ UNCHANGED <<pending, sweep>>

\* The retries of an older backup become those of the trigger.
Migrated(raw, c) ==
    IF raw = c THEN attempts
    ELSE [attempts EXCEPT ![raw] = 0,
                          ![c] = IF attempts[raw] > @ THEN attempts[raw] ELSE @]

TimerFires(k) ==
    /\ k \in timers /\ timers' = timers \ {k}
    /\ IF k = None THEN sweep' = TRUE /\ pending' = {}
       ELSE sweep' = sweep /\ pending' = IF sweep THEN pending ELSE pending \cup {k}
    /\ UNCHANGED <<factVars, pc, booting, attempts, queueVars, passVars, lapsed, left>>

(***************************************************************************)
(* The rest of the system, in transactions under the guard                 *)
(***************************************************************************)
Passing == pc \in {"pass", "delete", "mark"}
NoGuard == ~booting /\ pc # "down"   \* mutant: the changes do not take the guard
Free    == ~booting /\ pc # "down" /\ ~Passing

Change == Free /\ UNCHANGED <<pc, booting, queueVars, passVars>>

\* A run records a success.  What is to be uploaded is announced when it is.
Finish(b) ==
    /\ Change /\ upload[b] = "none" /\ \A a \in Backups : a < b => a \in Made
    /\ files' = files \cup {<<b, "host">>}
    /\ \/ upload' = [upload EXCEPT ![b] = "not_required"] /\ Notify(b)
       \/ upload' = [upload EXCEPT ![b] = "wanted"] /\ UNCHANGED bellVars
    /\ UNCHANGED <<linked, gone, ended, pinned, restoring, settings, lapsed, left>>

\* "wanted" is every other status of an upload; it may already be under way when
\* the local archive is deleted.
Uploaded(b) ==
    /\ Change /\ upload[b] = "wanted"
    /\ upload' = [upload EXCEPT ![b] = "uploaded"] /\ linked' = linked \cup {b}
    /\ files' = files \cup {<<b, "drive">>} /\ Notify(b)
    /\ UNCHANGED <<gone, ended, pinned, restoring, settings, lapsed, left>>

\* An upload by hand, or a verification that found a difference.
Doubt(b) ==
    /\ Change /\ b \in Made /\ upload[b] # "wanted" /\ Recorded(b, "host")
    /\ Spend("doubt")
    /\ upload' = [upload EXCEPT ![b] = "wanted"] /\ Notify(b)
    /\ UNCHANGED <<linked, gone, ended, pinned, restoring, settings, files, lapsed>>

\* A transfer of b is put back in the queue or cancelled by hand, or the worker takes
\* another transfer of b: what was uploaded is so no longer, be its local copy there or
\* not, and retention is not told.
Reopened(b) ==
    /\ Change /\ upload[b] = "uploaded" /\ Spend("retry")
    /\ upload' = [upload EXCEPT ![b] = "wanted"]
    /\ lapsed' = lapsed \cup {Guest[b]}
    /\ UNCHANGED <<linked, gone, ended, pinned, restoring, settings, files, bellVars>>

Pin(b) ==
    /\ Change /\ b \in Made /\ Spend("pin") /\ Notify(b)
    /\ pinned' = IF b \in pinned THEN pinned \ {b} ELSE pinned \cup {b}
    /\ UNCHANGED <<upload, linked, gone, ended, restoring, settings, files, lapsed>>

Configure ==
    /\ Change /\ Spend("configure") /\ NotifyAll
    /\ settings' \in Policies \ {settings}
    /\ UNCHANGED <<upload, linked, gone, ended, pinned, restoring, files, lapsed>>

RestoreBegins(b) ==
    /\ Change /\ b \in Made \ (restoring \cup ended) /\ Spend("restore")
    /\ <<b, "host">> \in files \/ Recorded(b, "drive")
    /\ restoring' = restoring \cup {b}
    /\ UNCHANGED <<upload, linked, gone, ended, pinned, settings, files, bellVars, lapsed>>

\* The archive of a remote source is on the host again; retention is not told.
Fetch(b) ==
    /\ Change /\ b \in restoring
    /\ <<b, "host">> \notin files /\ <<b, "drive">> \in files
    /\ files' = files \cup {<<b, "host">>} /\ gone' = gone \ {<<b, "host">>}
    /\ lapsed' = lapsed \cup {Guest[b]}
    /\ UNCHANGED <<upload, linked, ended, pinned, restoring, settings, bellVars, left>>

\* Retention is not told that the archive is free again.
RestoreEnds(b) ==
    /\ Change /\ b \in restoring /\ restoring' = restoring \ {b}
    /\ lapsed' = lapsed \cup {Guest[b]}
    /\ UNCHANGED <<upload, linked, gone, ended, pinned, settings, files, bellVars, left>>

OperatorDeletes(b) ==
    /\ Change /\ b \notin pinned \cup restoring /\ <<b, "host">> \in files
    /\ Spend("delete") /\ Notify(b)
    /\ files' = files \ {<<b, "host">>} /\ gone' = gone \cup {<<b, "host">>}
    /\ ended' = IF Recorded(b, "drive") THEN ended \ {b} ELSE ended \cup {b}
    /\ UNCHANGED <<upload, linked, pinned, restoring, settings, lapsed>>

(***************************************************************************)
(* The worker                                                              *)
(***************************************************************************)
NoPass == trigger' = None /\ cand' = {} /\ hand' = None /\ failed' = FALSE

\* start() awaits a sweep before anything else may change a row.
Boot ==
    /\ pc = "down" /\ pc' = "scan" /\ booting' = TRUE
    /\ UNCHANGED <<factVars, bellVars, queueVars, passVars, lapsed, left>>

\* An orderly shutdown leaves no more behind than a crash does.
Crash ==
    /\ pc # "down" /\ Spend("crash")
    /\ pc' = "down" /\ booting' = FALSE
    /\ pending' = {} /\ sweep' = FALSE
    /\ attempts' = [k \in Keys |-> 0] /\ timers' = {}
    /\ sweeping' = FALSE /\ work' = {} /\ processed' = {} /\ NoPass
    /\ UNCHANGED <<factVars, lapsed>>

Drain ==
    /\ pc = "idle" /\ (sweep \/ pending # {})
    /\ IF sweep THEN pc' = "scan" /\ UNCHANGED queueVars
       ELSE pc' = "next" /\ work' = pending /\ processed' = {} /\ sweeping' = FALSE
    /\ sweep' = FALSE /\ pending' = {}
    /\ UNCHANGED <<factVars, booting, attempts, timers, passVars, lapsed, left>>

NewestTriggers == {Newest(g) : g \in Guests} \ {None}

\* The newest backup of every guest; the retries of the others become theirs.
Scan ==
    /\ pc = "scan" /\ pc' = "next"
    /\ sweeping' = TRUE /\ processed' = {}
    /\ LET newest == NewestTriggers
           most(g) == CHOOSE n \in 0..MaxRetries :
                        /\ \E b \in Backups : Guest[b] = g /\ attempts[b] = n
                        /\ \A b \in Backups : Guest[b] = g => attempts[b] <= n
       IN  /\ work' = newest
           /\ attempts' = [k \in Keys |-> IF k \in newest THEN most(Guest[k]) ELSE 0]
           /\ timers' = timers \cap newest
    /\ UNCHANGED <<factVars, booting, pending, sweep, passVars, lapsed, left>>

ScanFails ==
    /\ pc = "scan" /\ Spend("error") /\ ScheduleRetry(None)
    /\ pc' = "idle" /\ booting' = FALSE
    /\ UNCHANGED <<factVars, queueVars, passVars, lapsed>>

Turn(raw) == raw \in work /\ (sweeping \/ \A other \in work : raw <= other)

\* The pass begins with the trigger c that raw stands for.
ApplyOne(raw, c) ==
    /\ pc = "next" /\ Turn(raw) /\ c # None
    /\ pc' = "pass" /\ work' = work \ {raw}
    /\ attempts' = Migrated(raw, c)
    /\ trigger' = c /\ cand' = Plan(c) /\ failed' = FALSE
    /\ lapsed' = lapsed \ {Guest[c]}
    /\ UNCHANGED <<factVars, booting, pending, sweep, sweeping, hand, left>>

RunQueued(raw) ==
    LET c == Newest(Guest[raw]) IN
    /\ ~sweeping /\ ApplyOne(raw, c) /\ c \notin processed
    /\ processed' = processed \cup {c} /\ timers' = timers \ {raw, c}

\* A sweep leaves the timer of the trigger alone.
Sweep(raw) ==
    LET c == Newest(Guest[raw]) IN
    /\ sweeping /\ ApplyOne(raw, c)
    /\ timers' = timers \ ({raw} \ {c}) /\ UNCHANGED processed

\* Nothing is left of the guest, or its pass is done: the retries of this trigger
\* are dropped, be it the very one whose pass has just failed.
PassOver(raw) ==
    LET c == Newest(Guest[raw]) IN
    /\ pc = "next" /\ Turn(raw) /\ (c = None \/ c \in processed)
    /\ work' = work \ {raw} /\ ClearRetry(raw)
    /\ lapsed' = IF raw \in timers \/ attempts[raw] > 0 THEN lapsed \cup {Guest[raw]}
                 ELSE lapsed
    /\ UNCHANGED <<factVars, pc, booting, sweeping, processed, passVars, left>>

TakeFails(raw) ==
    /\ pc = "next" /\ Turn(raw) /\ Spend("error")
    /\ work' = work \ {raw} /\ ScheduleRetry(raw)
    /\ UNCHANGED <<factVars, pc, booting, sweeping, processed, passVars, lapsed>>

\* Classified again right before the deletion.
StillPlanned(k) == k \in Plan(trigger)

Revalidate ==
    /\ pc = "pass" /\ cand # {}
    /\ LET k == First(cand) IN
       /\ cand' = cand \ {k}
       /\ IF StillPlanned(k) THEN pc' = "delete" /\ hand' = k
          ELSE UNCHANGED <<pc, hand>>
    /\ UNCHANGED <<factVars, booting, bellVars, queueVars, trigger, failed, lapsed, left>>

\* A copy that is not there (404) is deleted for all that matters.
AgentDeletes ==
    /\ pc = "delete" /\ pc' = "mark" /\ files' = files \ {hand}
    /\ UNCHANGED <<upload, linked, gone, ended, pinned, restoring, settings, booting,
                   bellVars, queueVars, passVars, lapsed, left>>

\* The copy may be gone all the same.
AgentFails ==
    /\ pc = "delete" /\ Spend("outage")
    /\ pc' = "pass" /\ hand' = None /\ failed' = TRUE
    /\ files' \in {files, files \ {hand}}
    /\ UNCHANGED <<upload, linked, gone, ended, pinned, restoring, settings, booting,
                   bellVars, queueVars, trigger, cand, lapsed>>

\* The status is `deleted` once no copy is left, whatever its upload status.
RefreshStatus(b) ==
    LET rest == {p \in Places : <<b, p>> \notin gone' /\ (p = "drive" => b \in linked)}
    IN  ended' = IF rest = {} THEN ended \cup {b} ELSE ended \ {b}

\* A pass may so end the backup whose policy it applies.
Mark ==
    /\ pc = "mark" /\ pc' = "pass" /\ hand' = None
    /\ gone' = gone \cup {hand} /\ RefreshStatus(hand[1])
    /\ lapsed' = IF \E p \in Places \ {hand[2]} : Recorded(trigger, p) \/ hand[1] # trigger
                   THEN lapsed ELSE lapsed \cup {Guest[trigger]}
    /\ UNCHANGED <<upload, linked, pinned, restoring, settings, files, booting, bellVars,
                   queueVars, trigger, cand, failed, left>>

ForgetFailure(c) == ClearRetry(c)     \* mutant: a failed pass counts as done
FinishAttempt(c) == IF failed THEN ScheduleRetry(c) ELSE ClearRetry(c)

EndPass ==
    /\ pc = "pass" /\ cand = {} /\ pc' = "next" /\ NoPass
    /\ FinishAttempt(trigger)
    /\ UNCHANGED <<factVars, booting, queueVars, lapsed, left>>

\* The database fails: what was deleted may stay unrecorded.
PassFails ==
    /\ Passing /\ Spend("error") /\ ScheduleRetry(trigger)
    /\ pc' = "next" /\ NoPass
    /\ UNCHANGED <<factVars, booting, queueVars, lapsed>>

WorkDone ==
    /\ pc = "next" /\ work = {} /\ pc' = "idle" /\ booting' = FALSE
    /\ processed' = {} /\ sweeping' = FALSE
    /\ UNCHANGED <<factVars, bellVars, work, passVars, lapsed, left>>

(***************************************************************************)
(* Specification                                                           *)
(***************************************************************************)
Changes ==
    \/ Configure
    \/ \E b \in Backups :
         \/ Finish(b) \/ Uploaded(b) \/ Doubt(b) \/ Reopened(b) \/ Pin(b)
         \/ OperatorDeletes(b) \/ RestoreBegins(b) \/ Fetch(b) \/ RestoreEnds(b)

Worker ==
    \/ Drain \/ Scan \/ (\E raw \in Backups : RunQueued(raw) \/ Sweep(raw) \/ PassOver(raw))
    \/ Revalidate \/ AgentDeletes \/ Mark \/ EndPass \/ WorkDone

Failure == Crash \/ ScanFails \/ AgentFails \/ PassFails
           \/ \E raw \in Backups : TakeFails(raw)

Next == Changes \/ Boot \/ Worker \/ Failure \/ \E k \in Keys : TimerFires(k)

Spec == Init /\ [][Next]_vars

(***************************************************************************)
(* Properties                                                              *)
(***************************************************************************)
\* Every variable has its type, and the pass in hand its registers.
TypeOK ==
    /\ upload \in [Backups -> {"none", "not_required", "wanted", "uploaded"}]
    /\ linked \subseteq Made /\ ended \subseteq Made /\ pinned \subseteq Made
    /\ restoring \subseteq Made
    /\ gone \subseteq Made \X Places /\ files \subseteq Made \X Places
    /\ settings \in Policies
    /\ pc \in {"down", "scan", "next", "pass", "delete", "mark", "idle"}
    /\ booting \in BOOLEAN /\ sweep \in BOOLEAN /\ sweeping \in BOOLEAN
    /\ failed \in BOOLEAN
    /\ pending \subseteq Made /\ work \subseteq Made /\ processed \subseteq Made
    /\ attempts \in [Keys -> 0..MaxRetries] /\ timers \subseteq Made \cup {None}
    /\ trigger \in Made \cup {None} /\ (trigger = None <=> ~Passing)
    /\ cand \subseteq Made \X Places
    /\ hand \in (Made \X Places) \cup {None} /\ (hand = None <=> pc \notin {"delete", "mark"})
    /\ lapsed \subseteq Guests /\ left \in [Events -> Nat]

Keep(place, policy) == IF place = "host" THEN policy.local ELSE policy.remote

Newer(k) == {a \in Made \ pinned : Guest[a] = Guest[k[1]] /\ a > k[1]}

\* At the moment the agent is asked to delete a copy, it is neither pinned nor the
\* source of a restore, and the policy in force is satisfied by newer copies of the
\* guest alone; a local copy goes only when it and they need no upload any more.
PolicyKept ==
    [][hand # None /\ hand \in files \ files' =>
         LET policy == Policy(trigger)
             kept == {a \in Newer(hand) : Recorded(a, hand[2])}
         IN  /\ hand[1] \notin pinned \cup restoring /\ ~policy.dry
             /\ \E enough \in SUBSET kept :
                  /\ Cardinality(enough) = Keep(hand[2], policy)
                  /\ hand[2] = "host" => \A a \in enough \cup {hand[1]} : Safe(a)]_files

GaveUp(g) == \E k \in Keys : Spent(k) /\ (k = None \/ Guest[k] = g)

\* The newest backup of g is still to be uploaded: retention is told when it is.
Uploading(g) == Newest(g) # None /\ upload[Newest(g)] = "wanted"

Clean(g) == Plan(Newest(g)) = {} \/ Uploading(g) \/ GaveUp(g)

Quiet == pc = "idle" /\ ~sweep /\ pending = {} /\ timers = {}

\* When the worker rests, nothing is left that retention would delete: no change has
\* been overlooked but those that nobody announces, and no failed pass forgotten.
QuietMeansClean ==
    Quiet => \A g \in Guests : Clean(g) \/ g \in lapsed

\* Rows succeed in order; an ended one has no local copy, and no restore.
RecordsAgree ==
    /\ IsFiniteSet(Made) /\ \A b \in Made : \A a \in Backups : a < b => a \in Made
    /\ \A b \in ended : <<b, "host">> \in gone /\ b \notin restoring

InHand == IF pc \in {"delete", "mark"} THEN {hand} ELSE {}

\* The copy in hand is one to delete, and a pass that has not failed has all of them
\* before it, unless the backup whose policy it applies is gone.
PassIsCurrent ==
    /\ InHand \subseteq Plan(trigger)
    /\ Passing /\ Guest[trigger] \notin lapsed =>
         trigger = Newest(Guest[trigger]) /\ (failed \/ Plan(trigger) \subseteq cand \cup InHand)
    /\ pc \in {"down", "scan", "idle"} => work = {}

\* A pass for g is in hand or will be.
Due(g) ==
    \/ \E b \in pending : Guest[b] = g
    \/ Newest(g) \notin processed /\ \E b \in work : Guest[b] = g
    \/ \E k \in timers : k = None \/ Guest[k] = g
    \/ Passing /\ Guest[trigger] = g

NothingOverlooked ==
    pc \notin {"down", "scan"} /\ ~sweep =>
        \A g \in Guests : Clean(g) \/ g \in lapsed \/ Due(g)

\* What the rows, the pass in hand and the doorbell say of one another, and of the
\* moments when the worker rests.
Consistent ==
    TypeOK /\ RecordsAgree /\ PassIsCurrent /\ NothingOverlooked /\ QuietMeansClean

=============================================================================
