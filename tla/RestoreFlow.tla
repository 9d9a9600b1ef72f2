----------------------------- MODULE RestoreFlow -----------------------------
(***************************************************************************)
(* The two-phase restore of the dashboard: the API handlers that request,  *)
(* confirm and cancel a restore (services/restore_service.py), the worker  *)
(* that executes it (workers/restore_worker.py), the lane that deletes     *)
(* archives, the retention guard all of them share, and the agent behind a *)
(* network that loses requests and answers.                                *)
(*                                                                         *)
(* A transaction held under the guard is two actions where the code reads, *)
(* awaits and then writes, and one where it awaits nothing but its own     *)
(* commit.  The guard itself is no variable: it is free when nobody is     *)
(* between those two actions.                                              *)
(***************************************************************************)
EXTENDS Naturals, Sequences, FiniteSets

CONSTANTS
    Restores,   \* ids of restore_history rows, handed out in increasing order
    Backups,
    Source,     \* Source[r]: the backup restore r is about
    None,
    Budgets     \* scenarios: how often each kind of event may happen in a behaviour

ASSUME RestoresAssumption == Restores \subseteq Nat /\ None \notin Restores

ASSUME SourceAssumption == Source \in [Restores -> Backups]

\* request: a restore is proposed; crash: the process is killed; stop: an orderly
\* shutdown; error: an unexpected exception in the worker; outage: the agent out of
\* reach of a poll for longer than the grace period; restart: the agent restarts;
\* timeout: a deletion is given up before the agent has answered.
Events == {"request", "crash", "stop", "error", "outage", "restart", "timeout"}

ASSUME BudgetAssumption == Budgets \subseteq [Events -> Nat]

Places == {"host", "drive"}          \* RestoreSource: local, gdrive

VARIABLES
    \* the database
    row,            \* restore_history.status
    source,         \* restore_history.source
    ref,            \* the rows whose agent_task_id is set
    gone,           \* <<b, place>>: copies recorded as absent (*_deleted_at)
    late,           \* the rows whose confirmation window has elapsed
    \* the files, and the agent
    copies,         \* copies[b]: the places that hold the archive
    fetch,          \* the download of the archive for r, and its request
    job,            \* the qmrestore for r, and its request
    pruned,         \* restores whose tasks the agent answers 404 for
    kill,           \* POST /task/{id}/cancel on their way
    rebuilds,       \* history: qmrestores ever started for r
    strays,         \* strays[k]: calls that delete copy k and that nobody waits for
    struck,         \* history: copies such a call took, and that are still away
    \* the memory of the dashboard process
    pc, cur, resume, currentTask, stopping,
    api,            \* the handler between its checks and its commit
    deletion,       \* the deletion between its checks and its commit
    left            \* what is left of the budget of this behaviour

dbVars    == <<row, source, ref, gone, late>>
agentVars == <<copies, fetch, job, pruned, kill, rebuilds, strays, struck>>
workVars  == <<pc, cur, resume, currentTask>>
vars == <<dbVars, agentVars, workVars, stopping, api, deletion, left>>

InFlight == {"confirmed", "running"}
Active   == {"pending"} \cup InFlight
TaskEnds == {"success", "failed", "cancelled", "interrupted"}
Terminal == TaskEnds \cup {"expired"}

Spend(f) == left[f] > 0 /\ left' = [left EXCEPT ![f] = @ - 1]

Serving == pc \notin {"down", "recover"} /\ ~stopping

\* Nobody holds the guard.
Free == api = None /\ deletion = None /\ pc # "claiming"

Init ==
    /\ row = [r \in Restores |-> "none"] /\ source = [r \in Restores |-> "host"]
    /\ ref = {} /\ late = {}
    /\ copies \in [Backups -> SUBSET Places \ {{}}]
    /\ gone = {k \in Backups \X Places : k[2] \notin copies[k[1]]}
    /\ fetch = [r \in Restores |-> "none"] /\ job = [r \in Restores |-> "none"]
    /\ pruned = {} /\ kill = {} /\ rebuilds = [r \in Restores |-> 0]
    /\ strays = [k \in Backups \X Places |-> 0] /\ struck = {}
    /\ pc = "down" /\ cur = None /\ resume = <<>> /\ currentTask = None
    /\ stopping = FALSE /\ api = None /\ deletion = None
    /\ left \in Budgets

(***************************************************************************)
(* Requests: propose a restore, confirm it, cancel it                      *)
(***************************************************************************)
\* What the preflight finds: the host is asked for the archive, the rows for
\* the remote copy.  An agent that cannot be asked blocks, and so nothing changes.
Available(b) ==
    IF "host" \in copies[b] THEN {"host"}
    ELSE {"drive"} \ {p \in Places : <<b, p>> \in gone}

Preflight(r) ==
    IF \E q \in Restores : row[q] \in InFlight THEN {} ELSE Available(Source[r])

Handle(op, r, place) ==
    /\ Serving /\ Free /\ api = None
    /\ api' = [op |-> op, id |-> r, place |-> place]
    /\ UNCHANGED <<dbVars, agentVars, workVars, stopping, deletion>>

CreateBegin(r) ==
    /\ Spend("request")
    /\ row[r] = "none" /\ \A q \in Restores : q < r => row[q] # "none"
    /\ \E place \in Preflight(r) : Handle("create", r, place)

ConfirmBegin(r) ==
    /\ row[r] = "pending" /\ r \notin late /\ UNCHANGED left
    /\ \E place \in Preflight(r) : Handle("confirm", r, place)

Cancellable(r) == row[r] \in Active \ {"running"}

CancelBegin(r) == Cancellable(r) /\ Handle("cancel", r, "host") /\ UNCHANGED left

\* A running restore is the agent's to cancel, once its task is known; the row
\* is left to the outcome.
CancelRunning(r) ==
    /\ Serving /\ Free /\ row[r] = "running" /\ currentTask = r
    /\ kill' = kill \cup {r}
    /\ UNCHANGED <<dbVars, copies, fetch, job, pruned, rebuilds, strays, struck,
                   workVars, stopping, api, deletion, left>>

Commit ==
    /\ api # None /\ api' = None
    /\ UNCHANGED <<ref, gone, late, agentVars, workVars, stopping, deletion, left>>

CreateCommit ==
    /\ Commit /\ api.op = "create"
    /\ row' = [row EXCEPT ![api.id] = "pending"]
    /\ source' = [source EXCEPT ![api.id] = api.place]

\* The token is spent by the status: only a pending restore can be confirmed.
ConfirmCommit ==
    /\ Commit /\ api.op = "confirm"
    /\ row' = [row EXCEPT ![api.id] = "confirmed"]
    /\ source' = [source EXCEPT ![api.id] = api.place]

CancelCommit ==
    /\ Commit /\ api.op = "cancel"
    /\ row' = [row EXCEPT ![api.id] = "cancelled"]
    /\ UNCHANGED source

\* The confirmation window closes.
Elapse(r) ==
    /\ row[r] = "pending" /\ r \notin late
    /\ late' = late \cup {r}
    /\ UNCHANGED <<row, source, ref, gone, agentVars, workVars, stopping, api,
                   deletion, left>>

(***************************************************************************)
(* The deletion lane: an operator deletes a local archive, retention either*)
(* copy.  Retention's worker is up before recovery.                        *)
(***************************************************************************)
Unnamed(b) == \A r \in Restores : Source[r] = b => row[r] \notin Active

DeleteBeginUnguarded(b, place) ==    \* mutant
    /\ pc # "down" /\ deletion = None
    /\ Unnamed(b) /\ (place = "drive" => <<b, place>> \notin gone)
    /\ deletion' = [backup |-> b, place |-> place, deleted |-> FALSE]
    /\ UNCHANGED <<dbVars, agentVars, workVars, stopping, api, left>>

DeleteBegin(b, place) ==
    /\ pc # "down" /\ ~stopping /\ Free /\ deletion = None
    /\ Unnamed(b) /\ (place = "drive" => <<b, place>> \notin gone)
    /\ deletion' = [backup |-> b, place |-> place, deleted |-> FALSE]
    /\ UNCHANGED <<dbVars, agentVars, workVars, stopping, api, left>>

\* The agent deletes whatever it is asked to, in use or not.
DeleteFile ==
    /\ deletion # None /\ ~deletion.deleted
    /\ copies' = [copies EXCEPT ![deletion.backup] = @ \ {deletion.place}]
    /\ deletion' = [deletion EXCEPT !.deleted = TRUE]
    /\ UNCHANGED <<dbVars, fetch, job, pruned, kill, rebuilds, strays, struck,
                   workVars, stopping, api, left>>

DeleteRecord ==
    /\ deletion # None /\ deletion.deleted
    /\ gone' = gone \cup {<<deletion.backup, deletion.place>>}
    /\ deletion' = None
    /\ UNCHANGED <<row, source, ref, late, agentVars, workVars, stopping, api,
                   left>>

\* The agent refuses, or its answer is lost after it deleted.
DeleteFails ==
    /\ deletion # None /\ deletion' = None
    /\ UNCHANGED <<dbVars, agentVars, workVars, stopping, api, left>>

\* Whoever waited for the deletion has gone, and the guard with it; the agent, which
\* gives rclone twice the time that the dashboard gives the agent, has not.
Abandoned ==
    IF deletion = None THEN strays
    ELSE IF deletion.deleted THEN strays
    ELSE [strays EXCEPT ![<<deletion.backup, deletion.place>>] = @ + 1]

DeleteTimesOut ==
    /\ deletion # None /\ Spend("timeout")
    /\ strays' = Abandoned /\ deletion' = None
    /\ UNCHANGED <<dbVars, copies, fetch, job, pruned, kill, rebuilds, struck,
                   workVars, stopping, api>>

\* The agent comes to the end of such a call, one way or the other.
StrayEnds(k) ==
    /\ strays[k] > 0 /\ strays' = [strays EXCEPT ![k] = @ - 1]
    /\ UNCHANGED <<dbVars, fetch, job, pruned, kill, rebuilds, workVars, stopping,
                   api, deletion, left>>

StrayDeletes(k) ==
    /\ StrayEnds(k) /\ k[2] \in copies[k[1]]
    /\ copies' = [copies EXCEPT ![k[1]] = @ \ {k[2]}]
    /\ struck' = struck \cup {k}

StrayFails(k) == StrayEnds(k) /\ UNCHANGED <<copies, struck>>

(***************************************************************************)
(* The agent.  A request is refused for anything its validation or its one *)
(* slot says; a lost one stays `sent`.                                     *)
(***************************************************************************)
AgentStep == UNCHANGED <<dbVars, kill, strays, workVars, stopping, api, deletion, left>>

SetJob(r, state)   == job' = [job EXCEPT ![r] = state] /\ UNCHANGED fetch
SetFetch(r, state) == fetch' = [fetch EXCEPT ![r] = state] /\ UNCHANGED <<job, rebuilds>>

\* The slot is taken after the archive was found and its digest verified.
RestoreAccept(r) ==
    /\ job[r] = "sent" /\ "host" \in copies[Source[r]]
    /\ \A q \in Restores : job[q] # "running"
    /\ SetJob(r, "running")
    /\ rebuilds' = [rebuilds EXCEPT ![r] = @ + 1]
    /\ pruned' = pruned \ {r}
    /\ UNCHANGED <<copies, struck>> /\ AgentStep

RestoreRefuse(r) ==
    /\ job[r] = "sent" /\ SetJob(r, "refused")
    /\ UNCHANGED <<copies, struck, rebuilds, pruned>> /\ AgentStep

\* stop the guest, qmrestore or pct restore, start the guest
RestoreFinish(r, state) ==
    /\ job[r] = "running"
    /\ state = "cancelled" => r \in kill
    /\ SetJob(r, state) /\ UNCHANGED <<copies, struck, rebuilds, pruned>> /\ AgentStep

DownloadAccept(r) ==
    /\ fetch[r] = "sent" /\ "host" \notin copies[Source[r]]
    /\ \A q \in Restores : fetch[q] # "running"
    /\ SetFetch(r, "running") /\ UNCHANGED <<copies, struck, pruned>> /\ AgentStep

DownloadRefuse(r) ==
    /\ fetch[r] = "sent" /\ SetFetch(r, "refused")
    /\ UNCHANGED <<copies, struck, pruned>> /\ AgentStep

DownloadFinish(r, state) ==
    /\ fetch[r] = "running"
    /\ state = "success" => "drive" \in copies[Source[r]]
    /\ copies' = IF state = "success"
                   THEN [copies EXCEPT ![Source[r]] = @ \cup {"host"}] ELSE copies
    /\ struck' = IF state = "success" THEN struck \ {<<Source[r], "host">>} ELSE struck
    /\ SetFetch(r, state) /\ UNCHANGED pruned /\ AgentStep

\* systemd kills the cgroup, so whatever ran is interrupted; the journal of
\* some tasks may be unreadable.
AgentRestart(lost) ==
    LET after(state) == IF state = "running" THEN "interrupted" ELSE state
    IN  /\ Spend("restart")
        /\ \A r \in lost : job[r] # "none" \/ fetch[r] # "none"
        /\ job' = [r \in Restores |-> after(job[r])]
        /\ fetch' = [r \in Restores |-> after(fetch[r])]
        /\ pruned' = pruned \cup lost
        /\ UNCHANGED <<dbVars, copies, kill, rebuilds, strays, struck, workVars,
                       stopping, api, deletion>>

(***************************************************************************)
(* Process lifecycle and recovery                                          *)
(***************************************************************************)
Memory(where) ==
    /\ pc' = where /\ cur' = None /\ resume' = <<>> /\ currentTask' = None
    /\ stopping' = FALSE /\ api' = None /\ deletion' = None
    /\ strays' = Abandoned
    /\ UNCHANGED <<dbVars, copies, fetch, job, pruned, kill, rebuilds, struck>>

Boot  == pc = "down" /\ Memory("recover") /\ UNCHANGED left
Crash == pc # "down" /\ Memory("down") /\ Spend("crash")

\* uvicorn drains its requests, then lifespan shutdown stops the worker.
Stop ==
    /\ Serving /\ api = None /\ Spend("stop")
    /\ stopping' = TRUE
    /\ UNCHANGED <<dbVars, agentVars, workVars, api, deletion>>

\* stop() waits for the worker, but not for long.
Exit == stopping /\ Memory("down") /\ UNCHANGED left

Running == {r \in Restores : row[r] = "running"}
NoneAdopted == {}                    \* mutant
Adoptable == Running \cap ref
Orphans == Running \ ref

OrphanRetried == "confirmed"         \* mutant: asked again
OrphanVerdict == "interrupted"

Close(r, verdict) ==
    /\ row' = [row EXCEPT ![r] = verdict]
    /\ UNCHANGED <<source, ref, gone, late>>

\* The process died before the agent's answer was stored.
RecoverOrphan(r) ==
    /\ pc = "recover" /\ Free /\ r \in Orphans
    /\ Close(r, OrphanVerdict)
    /\ UNCHANGED <<agentVars, workVars, stopping, api, deletion, left>>

InOrder(S) == {s \in UNION {[1..n -> S] : n \in 0..Cardinality(S)} :
                 /\ {s[i] : i \in DOMAIN s} = S
                 /\ \A i, j \in DOMAIN s : i < j => s[i] < s[j]}

Recovered ==
    /\ pc = "recover" /\ Orphans = {}
    /\ resume' \in InOrder(Adoptable) /\ pc' = "loop"
    /\ UNCHANGED <<dbVars, agentVars, cur, currentTask, stopping, api, deletion,
                   left>>

(***************************************************************************)
(* The worker: expire, claim, download, start, follow, record              *)
(***************************************************************************)
WorkerStep == UNCHANGED <<stopping, api, deletion>>
Goto(where) == pc' = where /\ UNCHANGED <<cur, resume, currentTask>>

\* _loop forgets the restore in hand.
Leave == pc' = "loop" /\ cur' = None /\ currentTask' = None /\ UNCHANGED resume

Expired == {r \in late : row[r] = "pending"}

Expire ==
    /\ pc = "loop" /\ ~stopping /\ Free
    /\ row' = [r \in Restores |-> IF r \in Expired THEN "expired" ELSE row[r]]
    /\ Goto("claim")
    /\ UNCHANGED <<source, ref, gone, late, agentVars, left>> /\ WorkerStep

AdoptUntracked ==                    \* mutant: cancel cannot find the task
    /\ pc = "claim" /\ resume # <<>>
    /\ pc' = "polling" /\ cur' = Head(resume) /\ resume' = Tail(resume)
    /\ UNCHANGED <<dbVars, agentVars, currentTask, left>> /\ WorkerStep

\* A restore already on the host is followed before another is claimed.
Adopt ==
    /\ pc = "claim" /\ resume # <<>>
    /\ pc' = "polling" /\ cur' = Head(resume) /\ resume' = Tail(resume)
    /\ currentTask' = cur'
    /\ UNCHANGED <<dbVars, agentVars, left>> /\ WorkerStep

Oldest(r) ==
    row[r] = "confirmed" /\ \A q \in Restores : row[q] = "confirmed" => r <= q

ClaimRead(r) ==
    /\ pc = "claim" /\ resume = <<>> /\ Free /\ Oldest(r)
    /\ pc' = "claiming" /\ cur' = r
    /\ UNCHANGED <<dbVars, agentVars, resume, currentTask, left>> /\ WorkerStep

ClaimNone ==
    /\ pc = "claim" /\ resume = <<>> /\ Free
    /\ \A r \in Restores : row[r] # "confirmed"
    /\ Goto("loop") /\ UNCHANGED <<dbVars, agentVars, left>> /\ WorkerStep

ClaimWrite ==
    /\ pc = "claiming"
    /\ Close(cur, "running") /\ Goto("loaded")
    /\ UNCHANGED <<agentVars, left>> /\ WorkerStep

StartDownload ==
    /\ pc = "loaded" /\ source[cur] = "drive"
    /\ SetFetch(cur, "sent") /\ Goto("fetching")
    /\ UNCHANGED <<dbVars, copies, pruned, kill, strays, struck, left>> /\ WorkerStep

\* The worker gives the restore in hand its verdict.
CloseCur(verdict) ==
    /\ Free /\ Close(cur, verdict) /\ Leave /\ UNCHANGED agentVars /\ WorkerStep

\* Sync is disabled, the agent refuses, or its answer is lost: the host's
\* guests are untouched in any case.
DownloadNotStarted ==
    /\ pc = "fetching" \/ (pc = "loaded" /\ source[cur] = "drive")
    /\ CloseCur("failed") /\ UNCHANGED left

DownloadAccepted ==
    /\ pc = "fetching" /\ fetch[cur] \in {"running"} \cup TaskEnds
    /\ Goto("fetchpoll") /\ UNCHANGED <<dbVars, agentVars, left>> /\ WorkerStep

DownloadDone ==
    /\ pc = "fetchpoll" /\ fetch[cur] = "success" /\ cur \notin pruned
    /\ Goto("marking") /\ UNCHANGED <<dbVars, agentVars, left>> /\ WorkerStep

DownloadFailed ==
    /\ pc = "fetchpoll" /\ fetch[cur] \in TaskEnds \ {"success"} /\ cur \notin pruned
    /\ CloseCur("failed") /\ UNCHANGED left

NotMarked ==                         \* mutant
    /\ pc = "marking" /\ Goto("start")
    /\ UNCHANGED <<dbVars, agentVars, left>> /\ WorkerStep

MarkLocalCopyPresent ==
    /\ pc = "marking" /\ Free
    /\ gone' = gone \ {<<Source[cur], "host">>}
    /\ Goto("start")
    /\ UNCHANGED <<row, source, ref, late, agentVars, left>> /\ WorkerStep

StartRestore ==
    /\ pc = "start" \/ (pc = "loaded" /\ source[cur] = "host")
    /\ SetJob(cur, "sent") /\ Goto("starting")
    /\ UNCHANGED <<dbVars, copies, pruned, kill, rebuilds, strays, struck, left>> /\ WorkerStep

StartRefused ==
    /\ pc = "starting" /\ job[cur] = "refused"
    /\ CloseCur("failed") /\ UNCHANGED left

\* No answer: it may have arrived, may be restoring, may yet be accepted.
UnreachableVerdict == "interrupted"
StartUnreachable ==
    /\ pc = "starting"
    /\ CloseCur(UnreachableVerdict) /\ UNCHANGED left

StartAccepted ==
    /\ pc = "starting" /\ job[cur] \in {"running"} \cup TaskEnds
    /\ Goto("attaching") /\ UNCHANGED <<dbVars, agentVars, left>> /\ WorkerStep

AttachTask ==
    /\ pc = "attaching" /\ pc' = "polling"
    /\ ref' = ref \cup {cur} /\ currentTask' = cur
    /\ UNCHANGED <<row, source, gone, late, agentVars, cur, resume, left>> /\ WorkerStep

RecordOutcome ==
    /\ pc = "polling" /\ job[cur] \in TaskEnds /\ cur \notin pruned
    /\ CloseCur(job[cur]) /\ UNCHANGED left

\* 404, or no answer for longer than the grace period, of either task.
PollGivesUp ==
    /\ pc \in {"polling", "fetchpoll"}
    /\ IF cur \in pruned THEN UNCHANGED left ELSE Spend("outage")
    /\ CloseCur("interrupted")

\* A shutdown leaves the row running: the next process adopts it.
PollStopped ==
    /\ pc \in {"polling", "fetchpoll"} /\ stopping /\ Leave
    /\ UNCHANGED <<dbVars, agentVars, left>> /\ WorkerStep

ClaimError ==
    /\ pc \in {"loop", "claim", "claiming"} /\ ~stopping /\ Spend("error") /\ Leave
    /\ UNCHANGED <<dbVars, agentVars>> /\ WorkerStep

Executing == {"loaded", "fetching", "fetchpoll", "marking", "start",
              "starting", "attaching", "polling"}

WorkError ==
    /\ pc \in Executing /\ Spend("error") /\ Goto("erring")
    /\ UNCHANGED <<dbVars, agentVars>> /\ WorkerStep

CloseAfterError == pc = "erring" /\ CloseCur("interrupted") /\ UNCHANGED left

\* An exception inside the handler ends the worker until the next start.
WorkerDies ==
    /\ pc = "erring" /\ Spend("error")
    /\ pc' = "dead" /\ cur' = None /\ currentTask' = None
    /\ UNCHANGED <<dbVars, agentVars, resume>> /\ WorkerStep

(***************************************************************************)
(* Specification                                                           *)
(***************************************************************************)
Api == (\E r \in Restores : \/ CreateBegin(r) \/ ConfirmBegin(r) \/ CancelBegin(r)
                            \/ CancelRunning(r))
       \/ CreateCommit \/ ConfirmCommit \/ CancelCommit

Delete == (\E b \in Backups, place \in Places : DeleteBegin(b, place))
          \/ DeleteFile \/ DeleteRecord \/ DeleteFails \/ DeleteTimesOut

AgentEnds(r) == \/ RestoreFinish(r, "success") \/ RestoreFinish(r, "failed")
                \/ DownloadFinish(r, "success") \/ DownloadFinish(r, "failed")

Agent ==
    \/ \E r \in Restores : \/ RestoreAccept(r) \/ RestoreRefuse(r)
                           \/ RestoreFinish(r, "cancelled") \/ AgentEnds(r)
                           \/ DownloadAccept(r) \/ DownloadRefuse(r)
    \/ \E lost \in SUBSET Restores : AgentRestart(lost)
    \/ \E k \in Backups \X Places : StrayDeletes(k) \/ StrayFails(k)

Recover == (\E r \in Restores : RecoverOrphan(r)) \/ Recovered

Worker ==
    \/ Expire \/ Adopt \/ (\E r \in Restores : ClaimRead(r)) \/ ClaimNone
    \/ ClaimWrite \/ StartDownload \/ DownloadNotStarted \/ DownloadAccepted
    \/ DownloadDone \/ DownloadFailed \/ MarkLocalCopyPresent \/ StartRestore
    \/ StartRefused \/ StartUnreachable \/ StartAccepted \/ AttachTask
    \/ RecordOutcome \/ PollGivesUp \/ PollStopped \/ CloseAfterError

Failure == Crash \/ Stop \/ ClaimError \/ WorkError \/ WorkerDies

Next == \/ Api \/ Delete \/ (\E r \in Restores : Elapse(r)) \/ Agent
        \/ Boot \/ Exit \/ Recover \/ Worker \/ Failure

Spec == Init /\ [][Next]_vars

\* systemd restarts the process; asyncio.Lock serves its waiters in turn, so a
\* coroutine that waits for the guard gets it however often others take it
\* (strong fairness); requests end, windows close, and the agent's timeouts end
\* every restore and download.
Fairness ==
    /\ WF_vars(Boot) /\ WF_vars(Exit)
    /\ SF_vars(Recover) /\ SF_vars(Worker)
    /\ WF_vars(CreateCommit \/ ConfirmCommit \/ CancelCommit)
    /\ WF_vars(DeleteFile \/ DeleteRecord \/ DeleteFails)
    /\ \A r \in Restores : WF_vars(Elapse(r)) /\ WF_vars(AgentEnds(r))

FairSpec == Spec /\ Fairness

(***************************************************************************)
(* Properties                                                              *)
(***************************************************************************)
Statuses == {"none", "pending", "confirmed", "running"} \cup Terminal
Requests == {"none", "sent", "refused", "running"} \cup TaskEnds

\* Every variable has its type, and the worker's registers agree with pc.
TypeOK ==
    /\ row \in [Restores -> Statuses] /\ source \in [Restores -> Places]
    /\ ref \subseteq Restores /\ late \subseteq Restores
    /\ gone \subseteq Backups \X Places
    /\ copies \in [Backups -> SUBSET Places]
    /\ fetch \in [Restores -> Requests] /\ job \in [Restores -> Requests]
    /\ pruned \subseteq Restores /\ kill \subseteq Restores
    /\ rebuilds \in [Restores -> Nat]
    /\ strays \in [Backups \X Places -> Nat] /\ struck \subseteq Backups \X Places
    /\ pc \in {"down", "recover", "loop", "claim", "claiming", "erring", "dead"}
             \cup Executing
    /\ cur \in Restores \cup {None} /\ resume \in Seq(Restores)
    /\ currentTask \in Restores \cup {None} /\ stopping \in BOOLEAN
    /\ api \in {None} \cup [op : {"create", "confirm", "cancel"},
                             id : Restores, place : Places]
    /\ deletion \in {None} \cup [backup : Backups, place : Places,
                                  deleted : BOOLEAN]
    /\ left \in [Events -> Nat]
    /\ pc \in Executing \cup {"claiming", "erring"} => cur \in Restores
    /\ pc = "polling" => currentTask = cur

\* qmrestore overwrites a guest: whatever is lost, killed or restarted, a
\* restore reaches the host at most once.
RestoredOnce == \A r \in Restores : rebuilds[r] <= 1

\* Restores are serialised: at most one is authorised at a time, although the
\* check and the write that rely on it are separated by calls to the agent.
OneAuthorised == Cardinality({r \in Restores : row[r] \in InFlight}) <= 1

\* While the worker executes a restore nobody else decides how it ended.
RowInHand == pc \in Executing \cup {"erring"} => row[cur] = "running"

\* An archive a restore will be read from is on the host, from the preflight
\* to the end, across the deletions that other lanes make, unless one that nobody
\* waited for any more has taken it.
OnHost(b) == "host" \in copies[b] \/ <<b, "host">> \in struck

LocalSourceThere ==
    \A r \in Restores : row[r] \in {"pending", "confirmed", "running"} /\ source[r] = "host"
                           => OnHost(Source[r])

\* Once a download has made the archive local and the host is asked to restore
\* it, its row no longer says the local copy is gone.  (Not so if the process dies
\* between the two, or the answer is lost: the file then stays unrecorded.)
FetchedIsTracked ==
    \A r \in Restores : row[r] = "running" /\ source[r] = "drive" /\ job[r] # "none"
                           => <<Source[r], "host">> \notin gone

\* A restore recorded `failed` did not half-rebuild a guest unseen: the host
\* refused it, was never asked, or reported the failure itself.
FailedIsKnown ==
    \A r \in Restores : row[r] = "failed" => job[r] \in {"none", "refused", "failed"}

\* No deletion takes a copy of an archive while a restore names it, with one exception:
\* a call that deletes it was abandoned, by a timeout or with the process that made it,
\* and is still under way at the agent.  The guard is free again then.
NamedArchiveKept ==
    [][\A r \in Restores : row[r] \in {"pending", "confirmed", "running"} =>
          \A place \in copies[Source[r]] :
             place \in copies'[Source[r]] \/ strays[<<Source[r], place>>] > 0]_copies

\* A recorded outcome is never revised.
OutcomesAreFinal ==
    [][\A r \in Restores : row[r] \in Terminal => row'[r] = row[r]]_row

\* Every restore that was requested reaches a terminal state: confirmed ones by
\* being executed or adopted, abandoned ones by their window; unless the worker's
\* task has died, which nothing restarts but the next process.
EveryRestoreSettles ==
    \A r \in Restores : row[r] \in Active ~> row[r] \in Terminal \/ pc = "dead"

\* What makes the above inductive.  The host rebuilds a guest exactly when it accepts
\* a request, and holds a request only for a restore that was begun and given no
\* other verdict than `interrupted`.
RequestsAccounted ==
    \A r \in Restores :
       /\ rebuilds[r] = IF job[r] \in {"none", "sent", "refused"} THEN 0 ELSE 1
       /\ row[r] \in {"none", "pending", "confirmed", "expired"} => job[r] = "none"
       /\ job[r] = "sent" => row[r] \in {"running", "interrupted"}

\* What a handler has read still holds when it writes: only it may change a row.
HandlerIsCurrent ==
    api # None =>
       /\ pc # "claiming" /\ deletion = None
       /\ CASE api.op = "create"  -> row[api.id] = "none"
            [] api.op = "confirm" -> /\ row[api.id] = "pending"
                                     /\ \A r \in Restores : row[r] \notin InFlight
            [] api.op = "cancel"  -> row[api.id] \in {"pending", "confirmed"}
       /\ api.op # "cancel" /\ api.place = "host" => OnHost(Source[api.id])

\* A deletion under way is of an archive that no restore names.
DeletionIsOfUnnamed ==
    deletion # None => pc # "claiming" /\ api = None /\ Unnamed(deletion.backup)

OneInFlight ==
    \A q, r \in Restores : row[q] \in InFlight /\ row[r] \in InFlight => q = r

\* The registers of the worker agree with the row of the restore in hand.
RestoreInHand ==
    /\ pc = "claiming" => row[cur] = "confirmed"
    /\ pc \in {"loaded", "fetching", "fetchpoll", "marking", "start"} => job[cur] = "none"
    /\ pc = "attaching" => job[cur] \notin {"none", "sent", "refused"}

\* Recovery hands over at most one restore, which nobody else closes.
ResumeIsRunning ==
    /\ Len(resume) <= 1
    /\ \A i \in DOMAIN resume : row[resume[i]] = "running" /\ resume[i] \in ref
    /\ resume # <<>> => pc \in {"loop", "claim"}
    /\ \A r \in ref : job[r] \notin {"none", "sent", "refused"}

\* An inductive invariant: a row is decided by whoever has it in hand, the host is
\* asked once, and nothing is deleted under a restore.
IInv == /\ TypeOK /\ RequestsAccounted /\ HandlerIsCurrent /\ DeletionIsOfUnnamed
        /\ OneInFlight /\ RestoreInHand /\ RowInHand /\ ResumeIsRunning
        /\ LocalSourceThere /\ FailedIsKnown

\* Seen from the rows and the host, the flow keeps RestorePromise.
HostView == [r \in Restores |-> IF job[r] \in {"sent", "refused"} THEN "none"
                                                                ELSE job[r]]
Promise == INSTANCE RestorePromise WITH verdict <- row, host <- HostView
KeepsPromise == Promise!Spec

=============================================================================
