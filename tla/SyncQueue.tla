------------------------------ MODULE SyncQueue ------------------------------
(***************************************************************************)
(* The upload queue of the dashboard: the rows of sync_tasks, the API      *)
(* handlers that queue, verify, cancel and retry a transfer                *)
(* (services/sync_service.py), the worker that runs them one at a time     *)
(* (workers/sync_worker.py), the deletions that rely on what it records,   *)
(* and the agent, which runs one rclone and may outlive the process that   *)
(* asked for it.                                                           *)
(*                                                                         *)
(* The retention guard is no variable: it is free when no handler and no   *)
(* deletion is between its reads and its commit.  Queueing what is pending *)
(* and claiming the next transfer do not take it.                          *)
(***************************************************************************)
EXTENDS Naturals, FiniteSets

CONSTANTS
    Backups,
    Tasks,        \* ids of sync_tasks rows, handed out in increasing order
    MaxAttempts,  \* sync_tasks.max_attempts: upload_retry + 1
    None,
    Budgets       \* scenarios: how many events of each kind a behaviour may have

ASSUME TasksAssumption == Tasks \subseteq Nat /\ None \notin Tasks \cup Backups

ASSUME AttemptsAssumption == MaxAttempts \in Nat \ {0}

\* crash, stop, error: of the process, as in RestoreFlow; outage: an answer is
\* lost, or a poll goes unanswered for longer than the grace period; restart: of
\* the agent; rclone: a transfer is refused or fails; loss: Drive loses a copy.
\* The others are what operators ask for.
Events == {"crash", "stop", "error", "outage", "restart", "rclone", "loss",
           "upload", "verify", "cancel", "retry", "delete", "retire"}

ASSUME BudgetsAssumption == Budgets \subseteq [Events -> Nat]

Places == {"host", "drive"}

VARIABLES
    \* the database
    status, attempt, of,    \* sync_tasks: status, attempt, backup_id
    waiting,                \* the queued rows whose next_retry_at is ahead
    upload,                 \* backup_history.upload_status
    linked,                 \* the backups whose remote_path is set
    gone,                   \* <<b, place>>: copies recorded as deleted
    \* the files
    copies,                 \* copies[p]: the backups whose archive is complete at p
    taken,                  \* history: <<b, place>>: copies retention deleted, and
                            \* copies Drive lost
    \* the agent: the one transfer it runs
    slot,                   \* None, or the task it serves and its handles
    \* the memory of the dashboard process
    pc, cur, result,        \* result: of the agent task the worker follows
    seen,                   \* what the transaction in hand has read
    stopping,
    api,                    \* the handler between its reads and its commit
    deletion,               \* the deletion between its checks and its commit
    left                    \* what is left of the scenario's budget

taskVars == <<status, attempt, of, waiting>>
copyVars == <<upload, linked, gone>>
fileVars == <<copies, taken>>
workVars == <<pc, cur, result, seen>>
vars == <<taskVars, copyVars, fileVars, slot, workVars, stopping, api, deletion, left>>

Ends   == {"success", "failed", "cancelled", "interrupted"}
Active == {"queued", "running"}

Spend(e) == left[e] > 0 /\ left' = [left EXCEPT ![e] = @ - 1]

Serving == pc # "down" /\ ~stopping
Free == api = None /\ deletion = None

Host  == copies["host"]
Drive == copies["drive"]

\* No transfer of b is queued or running.
Idle(b) == \A t \in Tasks : of[t] = b => status[t] \notin Active

Fresh(t) == status[t] = "none" /\ \A s \in Tasks : s < t => status[s] # "none"

Init ==
    /\ status = [t \in Tasks |-> "none"] /\ attempt = [t \in Tasks |-> 0]
    /\ of = [t \in Tasks |-> None] /\ waiting = {}
    /\ upload \in [Backups -> {"pending", "not_required"}]
    /\ linked = {} /\ gone = {}
    /\ copies = [p \in Places |-> IF p = "host" THEN Backups ELSE {}]
    /\ taken = {} /\ slot = None
    /\ pc = "down" /\ cur = None /\ result = "none" /\ seen = None
    /\ stopping = FALSE /\ api = None /\ deletion = None
    /\ left \in Budgets

Enqueue(t, b) ==
    /\ Fresh(t)
    /\ status' = [status EXCEPT ![t] = "queued"]
    /\ of' = [of EXCEPT ![t] = b]
    /\ UNCHANGED <<attempt, waiting>>

SetUpload(b, state) == upload' = [upload EXCEPT ![b] = state]

(***************************************************************************)
(* Requests, each a transaction under the guard                            *)
(***************************************************************************)
Handle(op, id, match) ==
    /\ Serving /\ Free
    /\ api' = [op |-> op, id |-> id, match |-> match]
    /\ UNCHANGED <<taskVars, copyVars, fileVars, workVars, stopping, deletion>>

\* An upload that is already recorded needs force, which the operator may pass.
UploadBegin(b) ==
    /\ <<b, "host">> \notin gone /\ Idle(b)
    /\ Spend("upload") /\ Handle("upload", b, FALSE) /\ UNCHANGED slot

\* The agent compares the two copies; without the local one it has an error.
VerifyBegin(b) ==
    /\ b \in Host
    /\ Spend("verify") /\ Handle("verify", b, b \in Drive) /\ UNCHANGED slot

\* The agent task of the row, if it is the one on the host, is cancelled too;
\* an agent that cannot be reached is ignored.
CancelBegin(t) ==
    /\ status[t] \in Active
    /\ Spend("cancel") /\ Handle("cancel", t, FALSE)
    /\ \/ UNCHANGED slot
       \/ /\ slot # None /\ slot.task = t /\ slot.stored
          /\ slot' = [slot EXCEPT !.killed = TRUE]

Commit(op) ==
    /\ api # None /\ api.op = op /\ api' = None
    /\ UNCHANGED <<slot, workVars, stopping, deletion, left>>

UploadCommit ==
    /\ Commit("upload")
    /\ \E t \in Tasks : Enqueue(t, api.id)
    /\ SetUpload(api.id, "pending")
    /\ UNCHANGED <<linked, gone, fileVars>>

Verification(b, match) ==
    IF match THEN "uploaded"
    ELSE IF upload[b] = "uploaded" THEN "failed" ELSE upload[b]

VerifyCommit ==
    /\ Commit("verify")
    /\ SetUpload(api.id, Verification(api.id, api.match))
    /\ UNCHANGED <<taskVars, linked, gone, fileVars>>

CancelCommit ==
    /\ Commit("cancel")
    /\ status' = [status EXCEPT ![api.id] = "cancelled"]
    /\ SetUpload(of[api.id], "failed")
    /\ UNCHANGED <<attempt, of, waiting, linked, gone, fileVars>>

\* Rolled back: nothing is written.
HandlerFails ==
    /\ api # None /\ api' = None
    /\ UNCHANGED <<taskVars, copyVars, fileVars, slot, workVars, stopping,
                   deletion, left>>

Known(t) == status[t] # "none"

\* Whatever the state of the row; the agent's id of the last attempt is cleared.
RetryTask(t) ==
    /\ Serving /\ Free /\ Known(t) /\ Spend("retry")
    /\ status' = [status EXCEPT ![t] = "queued"]
    /\ attempt' = [attempt EXCEPT ![t] = 1]
    /\ waiting' = waiting \ {t}
    /\ SetUpload(of[t], "pending")
    /\ slot' = IF slot # None /\ slot.task = t THEN [slot EXCEPT !.stored = FALSE]
               ELSE slot
    /\ UNCHANGED <<of, linked, gone, fileVars, workVars, stopping, api, deletion>>

(***************************************************************************)
(* Deletions: retention's of either copy, an operator's of the local one   *)
(***************************************************************************)
\* Retention looks at the row only; which copies are beyond the policy's
\* counts is left open.
DeletableOnUpload(b, place) ==       \* mutant: pending is good enough
    /\ upload[b] \in {"uploaded", "uploading"} /\ <<b, place>> \notin gone
Deletable(b, place) ==
    /\ upload[b] = "uploaded" /\ b \in linked /\ <<b, place>> \notin gone

BeginDeletion(b, place, by) ==
    /\ Serving /\ Free
    /\ deletion' = [backup |-> b, place |-> place, by |-> by, deleted |-> FALSE]
    /\ UNCHANGED <<taskVars, copyVars, fileVars, slot, workVars, stopping, api>>

RetireBegin(b, place) ==
    Deletable(b, place) /\ Spend("retire") /\ BeginDeletion(b, place, "retention")

DeleteBegin(b) == Spend("delete") /\ BeginDeletion(b, "host", "operator")

DeleteFile ==
    /\ deletion # None /\ ~deletion.deleted
    /\ deletion.by = "operator" => deletion.backup \in Host
    /\ copies' = [copies EXCEPT ![deletion.place] = @ \ {deletion.backup}]
    /\ taken' = IF deletion.by = "retention"
                  THEN taken \cup {<<deletion.backup, deletion.place>>} ELSE taken
    /\ deletion' = [deletion EXCEPT !.deleted = TRUE]
    /\ UNCHANGED <<taskVars, copyVars, slot, workVars, stopping, api, left>>

DeleteRecord ==
    /\ deletion # None /\ deletion.deleted
    /\ gone' = gone \cup {<<deletion.backup, deletion.place>>}
    /\ deletion' = None
    /\ UNCHANGED <<taskVars, upload, linked, fileVars, slot, workVars, stopping,
                   api, left>>

DeleteFails ==
    /\ deletion # None /\ deletion' = None
    /\ UNCHANGED <<taskVars, copyVars, fileVars, slot, workVars, stopping, api, left>>

(***************************************************************************)
(* The agent and Google Drive.  rclone goes on whatever happens to the     *)
(* dashboard; an existing remote object stays until the new one is whole.  *)
(***************************************************************************)
Answer(outcome) ==
    /\ slot' = None
    /\ result' = IF slot.followed THEN outcome ELSE result
    /\ UNCHANGED <<taskVars, copyVars, pc, cur, seen, stopping, api, deletion>>

TransferSucceeds ==
    /\ slot # None
    /\ copies' = [copies EXCEPT !["drive"] = @ \cup {of[slot.task]}]
    /\ taken' = taken \ {<<of[slot.task], "drive">>}
    /\ Answer("success") /\ UNCHANGED left

TransferFails ==
    /\ slot # None /\ Spend("rclone")
    /\ Answer("failed") /\ UNCHANGED fileVars

TransferCancelled ==
    /\ slot # None /\ slot.killed
    /\ Answer("cancelled") /\ UNCHANGED <<fileVars, left>>

\* The journal calls what was running interrupted.
AgentRestart ==
    /\ slot # None /\ Spend("restart")
    /\ Answer("interrupted") /\ UNCHANGED fileVars

DriveLoses(b) ==
    /\ b \in Drive /\ Spend("loss")
    /\ copies' = [copies EXCEPT !["drive"] = @ \ {b}]
    /\ taken' = taken \cup {<<b, "drive">>}
    /\ UNCHANGED <<taskVars, copyVars, slot, workVars, stopping, api, deletion>>

\* POST /sync/upload: rclone starts if the slot is free and the archive there.
CanStart(t) == slot = None /\ of[t] \in Host
Transfer(t, followed) ==
    [task |-> t, followed |-> followed, stored |-> FALSE, killed |-> FALSE]

(***************************************************************************)
(* Process lifecycle and recovery                                          *)
(***************************************************************************)
\* Nobody polls the transfer on the host any more.
Unfollow == slot' = IF slot = None THEN None ELSE [slot EXCEPT !.followed = FALSE]

Forget(where) ==
    /\ pc' = where /\ cur' = None /\ result' = "none" /\ seen' = None
    /\ stopping' = FALSE /\ api' = None /\ deletion' = None
    /\ UNCHANGED <<copyVars, fileVars>>

NoneRunning(t) == FALSE              \* mutant: what was running is forgotten
Caught(t) == status[t] = "running"

\* start() awaits recover(): a transfer caught running is queued again, and the
\* attempt it was charged for is given back.
Boot ==
    /\ pc = "down" /\ Forget("loop")
    /\ status' = [t \in Tasks |-> IF Caught(t) THEN "queued" ELSE status[t]]
    /\ attempt' = [t \in Tasks |-> IF Caught(t) /\ attempt[t] > 0 THEN attempt[t] - 1
                                   ELSE attempt[t]]
    /\ waiting' = {t \in waiting : ~Caught(t)}
    /\ UNCHANGED <<of, slot, left>>

Crash == pc # "down" /\ Forget("down") /\ Unfollow /\ Spend("crash") /\ UNCHANGED taskVars

Stop ==
    /\ Serving /\ api = None /\ Spend("stop")
    /\ stopping' = TRUE
    /\ UNCHANGED <<taskVars, copyVars, fileVars, slot, workVars, api, deletion>>

Exit == stopping /\ Forget("down") /\ Unfollow /\ UNCHANGED <<taskVars, left>>

(***************************************************************************)
(* The worker: queue what is pending, claim, send, follow, record          *)
(***************************************************************************)
WorkerStep == UNCHANGED <<stopping, api, deletion>>

Goto(where) == pc' = where /\ UNCHANGED <<cur, result, seen>>

Leave == pc' = "loop" /\ cur' = None /\ result' = "none" /\ seen' = None /\ Unfollow

Awaiting(b) == upload[b] = "pending" /\ <<b, "host">> \notin gone

\* One transaction queues every such backup; a step for each here.
EnqueueRead(b) ==
    /\ pc = "loop" /\ ~stopping /\ Awaiting(b) /\ Idle(b)
    /\ \E t \in Tasks : Fresh(t)
    /\ pc' = "enqueue" /\ seen' = b
    /\ UNCHANGED <<taskVars, copyVars, fileVars, slot, cur, result, left>> /\ WorkerStep

EnqueueWrite ==
    /\ pc = "enqueue"
    /\ \E t \in Tasks : Enqueue(t, seen)
    /\ pc' = "loop" /\ seen' = None
    /\ UNCHANGED <<copyVars, fileVars, slot, cur, result, left>> /\ WorkerStep

EnqueueNone ==
    /\ pc = "loop" /\ ~stopping
    /\ \A b \in Backups : ~(Awaiting(b) /\ Idle(b)) \/ \A t \in Tasks : ~Fresh(t)
    /\ Goto("claim")
    /\ UNCHANGED <<taskVars, copyVars, fileVars, slot, left>> /\ WorkerStep

Ready(t) == status[t] = "queued" /\ t \notin waiting

ClaimRead(t) ==
    /\ pc = "claim" /\ Ready(t) /\ \A s \in Tasks : Ready(s) => t <= s
    /\ pc' = "claiming" /\ cur' = t /\ seen' = attempt[t]
    /\ UNCHANGED <<taskVars, copyVars, fileVars, slot, result, left>> /\ WorkerStep

ClaimNone ==
    /\ pc = "claim" /\ \A t \in Tasks : ~Ready(t)
    /\ Goto("loop")
    /\ UNCHANGED <<taskVars, copyVars, fileVars, slot, left>> /\ WorkerStep

ClaimWrite ==
    /\ pc = "claiming"
    /\ status' = [status EXCEPT ![cur] = "running"]
    /\ attempt' = [attempt EXCEPT ![cur] = seen + 1]
    /\ waiting' = waiting \ {cur}
    /\ pc' = "claimed" /\ seen' = None
    /\ UNCHANGED <<of, copyVars, fileVars, slot, cur, result, left>> /\ WorkerStep

\* Leaving `uploaded` takes the guard, for retention's sake.
Load ==
    /\ pc = "claimed" /\ Free
    /\ SetUpload(of[cur], "uploading") /\ Goto("loaded")
    /\ UNCHANGED <<taskVars, linked, gone, fileVars, slot, left>> /\ WorkerStep

StartAccepted ==
    /\ pc = "loaded" /\ CanStart(cur)
    /\ slot' = Transfer(cur, TRUE)
    /\ pc' = "attaching" /\ result' = "running"
    /\ UNCHANGED <<taskVars, copyVars, fileVars, cur, seen, left>> /\ WorkerStep

\* 409 while another transfer has the slot, 404 without the archive.
StartRefused ==
    /\ pc = "loaded"
    /\ IF CanStart(cur) THEN Spend("rclone") ELSE UNCHANGED left
    /\ Goto("failing")
    /\ UNCHANGED <<taskVars, copyVars, fileVars, slot>> /\ WorkerStep

\* No answer; the transfer may have started.
StartUnreachable ==
    /\ pc = "loaded" /\ Spend("outage") /\ Goto("failing")
    /\ \/ UNCHANGED slot
       \/ CanStart(cur) /\ slot' = Transfer(cur, FALSE)
    /\ UNCHANGED <<taskVars, copyVars, fileVars>> /\ WorkerStep

AttachTask ==
    /\ pc = "attaching" /\ Goto("polling")
    /\ slot' = IF slot # None /\ slot.followed THEN [slot EXCEPT !.stored = TRUE]
               ELSE slot
    /\ UNCHANGED <<taskVars, copyVars, fileVars, left>> /\ WorkerStep

AnyOutcome == Ends                   \* mutant: a task that ended is a task that worked
Outcomes == {"success"}

PollDone ==
    /\ pc = "polling" /\ result \in Ends
    /\ Goto(IF result \in Outcomes THEN "succeeding" ELSE "failing")
    /\ UNCHANGED <<taskVars, copyVars, fileVars, slot, left>> /\ WorkerStep

PollGivesUp ==
    /\ pc = "polling" /\ Spend("outage") /\ Goto("failing")
    /\ UNCHANGED <<taskVars, copyVars, fileVars, slot>> /\ WorkerStep

\* A shutdown leaves the row running: recovery queues it again.
PollStopped ==
    /\ pc = "polling" /\ stopping /\ Leave
    /\ UNCHANGED <<taskVars, copyVars, fileVars, left>> /\ WorkerStep

RecordSuccess ==
    /\ pc = "succeeding" /\ Free
    /\ status' = [status EXCEPT ![cur] = "success"]
    /\ SetUpload(of[cur], "uploaded")
    /\ linked' = linked \cup {of[cur]}
    /\ Leave
    /\ UNCHANGED <<attempt, of, waiting, gone, fileVars, left>> /\ WorkerStep

ExhaustedLate(t) == attempt[t] > MaxAttempts      \* mutant
Exhausted(t) == attempt[t] >= MaxAttempts

UploadAfter(t) == IF Exhausted(t) THEN "failed" ELSE "pending"

\* Retried after a backoff, unless the attempts are spent; the row is not
\* looked at otherwise.
RecordFailure ==
    /\ pc \in {"failing", "erring"} /\ Free
    /\ IF Exhausted(cur)
         THEN /\ status' = [status EXCEPT ![cur] = "failed"]
              /\ waiting' = waiting \ {cur}
         ELSE /\ status' = [status EXCEPT ![cur] = "queued"]
              /\ waiting' = waiting \cup {cur}
    /\ SetUpload(of[cur], UploadAfter(cur))
    /\ Leave
    /\ UNCHANGED <<attempt, of, linked, gone, fileVars, left>> /\ WorkerStep

\* The backoff has elapsed.
Elapse(t) ==
    /\ t \in waiting /\ waiting' = waiting \ {t}
    /\ UNCHANGED <<status, attempt, of, copyVars, fileVars, slot, workVars,
                   stopping, api, deletion, left>>

Executing == {"claimed", "loaded", "attaching", "polling", "succeeding", "failing"}

QueueError ==
    /\ pc \in {"loop", "enqueue", "claim", "claiming"} /\ ~stopping
    /\ Spend("error") /\ Leave
    /\ UNCHANGED <<taskVars, copyVars, fileVars>> /\ WorkerStep

WorkError ==
    /\ pc \in Executing /\ Spend("error") /\ Goto("erring")
    /\ UNCHANGED <<taskVars, copyVars, fileVars, slot>> /\ WorkerStep

\* An exception inside the handler ends the worker until the next start.
WorkerDies ==
    /\ pc = "erring" /\ Spend("error")
    /\ pc' = "dead" /\ cur' = None /\ result' = "none" /\ seen' = None /\ Unfollow
    /\ UNCHANGED <<taskVars, copyVars, fileVars>> /\ WorkerStep

(***************************************************************************)
(* Specification                                                           *)
(***************************************************************************)
Begin == \/ \E b \in Backups : UploadBegin(b) \/ VerifyBegin(b)
         \/ \E t \in Tasks : CancelBegin(t) \/ RetryTask(t)

End == UploadCommit \/ VerifyCommit \/ CancelCommit \/ HandlerFails

Deletions ==
    \/ \E b \in Backups : DeleteBegin(b) \/ \E place \in Places : RetireBegin(b, place)
    \/ DeleteFile \/ DeleteRecord \/ DeleteFails

TransferEnds == TransferSucceeds \/ TransferFails

Outside == TransferEnds \/ TransferCancelled \/ AgentRestart
           \/ \E b \in Backups : DriveLoses(b)

Worker ==
    \/ (\E b \in Backups : EnqueueRead(b)) \/ EnqueueWrite \/ EnqueueNone
    \/ (\E t \in Tasks : ClaimRead(t)) \/ ClaimNone \/ ClaimWrite \/ Load
    \/ StartAccepted \/ StartRefused \/ StartUnreachable \/ AttachTask
    \/ PollDone \/ PollGivesUp \/ PollStopped \/ RecordSuccess \/ RecordFailure

Failure == Crash \/ Stop \/ QueueError \/ WorkError \/ WorkerDies

Next == \/ Begin \/ End \/ Deletions \/ Outside \/ Boot \/ Exit \/ Worker
        \/ (\E t \in Tasks : Elapse(t)) \/ Failure

Spec == Init /\ [][Next]_vars

\* systemd restarts the process; asyncio.Lock serves its waiters in turn; requests
\* and rclone end by their timeouts; a backoff elapses.
Fairness ==
    /\ WF_vars(Boot) /\ WF_vars(Exit) /\ SF_vars(Worker)
    /\ WF_vars(End) /\ WF_vars(DeleteFile \/ DeleteRecord \/ DeleteFails)
    /\ WF_vars(TransferEnds) /\ \A t \in Tasks : WF_vars(Elapse(t))

FairSpec == Spec /\ Fairness

(***************************************************************************)
(* Properties                                                              *)
(***************************************************************************)
Uploads == {"not_required", "pending", "uploading", "uploaded", "failed"}

\* Every variable has its type, and the worker's registers agree with pc.
TypeOK ==
    /\ status \in [Tasks -> {"none", "success", "failed", "cancelled"} \cup Active]
    /\ attempt \in [Tasks -> Nat]
    /\ of \in [Tasks -> Backups \cup {None}]
    /\ \A t \in Tasks : of[t] = None <=> status[t] = "none"
    /\ waiting \subseteq Tasks
    /\ upload \in [Backups -> Uploads] /\ linked \subseteq Backups
    /\ gone \subseteq Backups \X Places
    /\ copies \in [Places -> SUBSET Backups]
    /\ taken \subseteq Backups \X Places
    /\ slot \in {None} \cup [task : Tasks, followed : BOOLEAN, stored : BOOLEAN,
                              killed : BOOLEAN]
    /\ pc \in {"down", "loop", "enqueue", "claim", "claiming", "erring", "dead"}
             \cup Executing
    /\ cur \in Tasks \cup {None} /\ result \in {"none", "running"} \cup Ends
    /\ seen \in Backups \cup Nat \cup {None}
    /\ stopping \in BOOLEAN
    /\ api \in {None} \cup [op : {"upload", "verify", "cancel"},
                             id : Backups \cup Tasks, match : BOOLEAN]
    /\ deletion \in {None} \cup [backup : Backups, place : Places,
                                  by : {"retention", "operator"}, deleted : BOOLEAN]
    /\ left \in [Events -> Nat]
    /\ pc \in Executing \cup {"claiming", "erring"} => cur \in Tasks

\* A whole copy came to Drive, and is there unless it was deleted or lost since.
Arrived(b) == b \in Drive \/ <<b, "drive">> \in taken

\* A backup that says `uploaded` is whole on Drive, unless retention deleted that
\* copy or Drive lost it: success and verification are never recorded for anything less,
\* in whatever order transfers, verifications and deletions finish.
UploadedIsThere == \A b \in Backups : upload[b] = "uploaded" => Arrived(b)

\* A retry by hand starts the count at one and is claimed for a second attempt, also
\* where the row was given a single one.
Allowed == IF MaxAttempts < 2 THEN 2 ELSE MaxAttempts

\* The attempts a transfer is charged never exceed what it was given, or the second one of
\* a retry by hand, through refunds, retries by hand and rows that end twice.
AttemptsBounded == \A t \in Tasks : attempt[t] <= Allowed

\* Whoever may still claim a transfer finds an attempt left.
AttemptsLeft ==
    /\ \A t \in Tasks : status[t] \in {"none", "queued"} => attempt[t] < Allowed
    /\ pc = "claiming" => seen \in Nat /\ seen < Allowed

\* The registers of the worker agree with the row in hand and with the slot: what it
\* hears is of the transfer it asked for, which lives as long as the worker follows it.
Following == {"attaching", "polling", "failing", "erring"}

Registers ==
    /\ pc \in Executing \cup {"claiming", "erring"} => Known(cur)
    /\ pc = "enqueue" => seen \in Backups
    /\ pc = "claiming" => seen \in Nat
    /\ slot # None => /\ Known(slot.task)
                      /\ slot.followed => /\ slot.task = cur /\ pc \in Following
                                        /\ result = "running"
    /\ pc \notin Following \cup {"succeeding"} => result = "none"
    /\ pc = "succeeding" => result = "success"
    /\ result = "success" => Arrived(of[cur])

\* What a handler or a deletion has read still holds when it writes: there is one of
\* them at a time, and an upload_status is written under the guard only.
HandlerIsCurrent ==
    api # None =>
       /\ deletion = None
       /\ IF api.op = "cancel" THEN api.id \in Tasks /\ Known(api.id)
          ELSE api.id \in Backups /\ (api.op = "verify" /\ api.match => Arrived(api.id))

DeletionIsOfUploaded ==
    deletion # None => IF deletion.by = "retention" THEN upload[deletion.backup] = "uploaded"
                       ELSE deletion.place = "host"

\* An inductive invariant: whoever says `uploaded` knows of a copy that arrived.
IInv == /\ TypeOK /\ Registers /\ HandlerIsCurrent /\ DeletionIsOfUploaded
        /\ UploadedIsThere

\* What the worker, the rows, the slot and the handlers hold agrees, attempts included.
Consistent == IInv /\ AttemptsLeft /\ AttemptsBounded

\* Every upload that is wanted reaches a verdict, whatever is killed, lost or refused,
\* unless its local archive is deleted first, an operator cancelled a transfer of
\* it, or the worker has ended.
Abandoned(b) ==
    \/ <<b, "host">> \in gone \/ pc = "dead"
    \/ \E t \in Tasks : of[t] = b /\ status[t] = "cancelled"
EveryUploadSettles ==
    \A b \in Backups : (upload[b] \in {"pending", "uploading"})
                          ~> (upload[b] \in {"uploaded", "failed"} \/ Abandoned(b))

\* Seen from the rows and the files, the queue and the deletions keep CopyLedger.
Ledger == INSTANCE CopyLedger WITH
            local  <- {b \in Backups : <<b, "host">> \notin taken}, remote <- Drive,
            missed <- {b \in Backups : <<b, "drive">> \in taken},
            claim  <- {b \in Backups : upload[b] = "uploaded"}
KeepsLedger == Ledger!Spec

=============================================================================
