---------------------------- MODULE BackupRunner ----------------------------
(***************************************************************************)
(* The run executor of the dashboard (backend/app/workers/backup_runner.py)*)
(* with the three things it shares state with: the database rows, the API  *)
(* handlers that create and cancel runs, and the backup agent on the       *)
(* Proxmox host, reached through a network that loses requests and answers.*)
(*                                                                         *)
(* One history row per guest of a run: a row, an agent task and a vzdump   *)
(* are all named by the pair <<run, guest>>.  A second row for a pair would*)
(* show as a second vzdump, which `vzdumps` counts.                        *)
(***************************************************************************)
EXTENDS Naturals, Sequences, FiniteSets

CONSTANTS
    Runs,       \* ids of backup_runs rows, handed out in increasing order
    Guests,
    Targets,    \* Targets[r]: the guests of run r, in execution order
    None,       \* no run, no task
    Budgets     \* scenarios: how often each kind of event may happen in a behaviour

ASSUME RunsAssumption == Runs \subseteq Nat

\* assert_distinct_vmids and the job_id/vmid uniqueness constraint
ASSUME TargetsAssumption ==
    /\ Targets \in [Runs -> Seq(Guests)]
    /\ \A r \in Runs : \A i, j \in DOMAIN Targets[r] :
          Targets[r][i] = Targets[r][j] => i = j

Keys == Runs \X Guests

ASSUME NoneAssumption == None \notin Runs /\ None \notin Keys

\* request: a run is created; cancel: a request to cancel one; crash: the process
\* is killed; stop: an orderly shutdown; error: an unexpected exception in the
\* executor; outage: the agent out of reach of one recovery step, or of a poll for
\* the whole grace period; restart: the agent restarts; delete: an archive of a
\* closed row is deleted, by an operator or by retention.
Events == {"request", "cancel", "crash", "stop", "error", "outage", "restart", "delete"}

ASSUME BudgetAssumption == Budgets \subseteq [Events -> Nat]

VARIABLES
    \* the database
    run,            \* backup_runs.status
    ok, bad,        \* backup_runs.guest_succeeded, guest_failed
    row,            \* backup_history.status
    ref,            \* the rows whose backup_history.agent_task_id is set
    \* the agent and the network
    call,           \* POST /backup/start for the pair
    task,           \* what became of the vzdump of the pair
    pruned,         \* tasks the agent answers 404 for
    kill,           \* POST /task/{id}/cancel on their way
    vzdumps,        \* history: vzdumps ever started for the pair
    \* the memory of the dashboard process
    pc, cur, pos, done, adopt, cancelled, currentRun, currentTask, stopping,
    ending,         \* the status decided for the run, until it is committed
    scan,           \* rows recovery has still to look at
    api,            \* the cancel handler between its read and its write
    acked,          \* history: cancels the API acknowledged; "heard" if the
                    \* executor of this process had the run at the time, "late"
                    \* if it had read for the last time whether there was one
    left            \* what is left of the budget of this behaviour

dbVars     == <<run, ok, bad, row, ref>>
agentVars  == <<call, task, pruned, kill, vzdumps>>
planVars   == <<cur, pos, done, adopt, ending>>
sharedVars == <<cancelled, currentRun, currentTask>>
vars == <<dbVars, agentVars, pc, planVars, sharedVars, stopping, scan, api,
          acked, left>>

RunActive   == {"queued", "running"}
RunTerminal == {"success", "partial", "failed", "cancelled"}
Terminal    == {"success", "failed", "cancelled", "interrupted"}
Won         == {"success", "deleted"}      \* an archive was made; it may be gone
Closed      == Terminal \cup {"deleted"}   \* of a row: not `running` any more

Spend(f) == left[f] > 0 /\ left' = [left EXCEPT ![f] = @ - 1]

Key  == <<cur, Targets[cur][pos]>>
More == pos <= Len(Targets[cur])

\* The process answers requests: lifespan startup has ended, shutdown not begun.
Serving == pc \notin {"down", "recover"} /\ ~stopping

Init ==
    /\ run = [r \in Runs |-> "none"]
    /\ ok = [r \in Runs |-> 0] /\ bad = [r \in Runs |-> 0]
    /\ row = [k \in Keys |-> "none"] /\ ref = {}
    /\ call = [k \in Keys |-> "none"] /\ task = [k \in Keys |-> "none"]
    /\ pruned = {} /\ kill = {} /\ vzdumps = [k \in Keys |-> 0]
    /\ pc = "down" /\ cur = None /\ pos = 1 /\ done = {} /\ adopt = {}
    /\ ending = None
    /\ cancelled = {} /\ currentRun = None /\ currentTask = None
    /\ stopping = FALSE /\ scan = {} /\ api = None
    /\ acked = [r \in Runs |-> "no"]
    /\ left \in Budgets

(***************************************************************************)
(* Rows: the transactions that close one, with the run's counters          *)
(***************************************************************************)
BumpFailedOnly(r, status) ==              \* mutant: `interrupted` not counted
    IF status = "success"
      THEN ok' = [ok EXCEPT ![r] = @ + 1] /\ UNCHANGED bad
      ELSE IF status = "interrupted" THEN UNCHANGED <<ok, bad>>
      ELSE bad' = [bad EXCEPT ![r] = @ + 1] /\ UNCHANGED ok

BumpCounters(r, status) ==
    IF status = "success"
      THEN ok' = [ok EXCEPT ![r] = @ + 1] /\ UNCHANGED bad
      ELSE bad' = [bad EXCEPT ![r] = @ + 1] /\ UNCHANGED ok

CloseRow(k, status) ==
    /\ row' = [row EXCEPT ![k] = status]
    /\ BumpCounters(k[1], status)
    /\ UNCHANGED <<run, ref>>

RowsOf(r, S) == {g \in Guests : row[<<r, g>>] \in S}

\* The terminal status of a run, from its artifacts.
Summary(r) ==
    LET won     == Cardinality(RowsOf(r, {"success"}))
        stopped == RowsOf(r, {"cancelled"}) # {}
    IN  IF RowsOf(r, Closed \cup {"running"}) = {} THEN "failed"
        ELSE IF stopped /\ won = 0 THEN "cancelled"
        ELSE IF won = Len(Targets[r]) THEN "success"
        ELSE IF won = 0 THEN "failed" ELSE "partial"

(***************************************************************************)
(* Requests: create a run, cancel a run                                    *)
(***************************************************************************)
RequestRun(r) ==
    /\ Serving
    /\ run[r] = "none" /\ \A q \in Runs : q < r => run[q] # "none"
    /\ Spend("request")
    /\ run' = [run EXCEPT ![r] = "queued"]
    /\ UNCHANGED <<ok, bad, row, ref, agentVars, pc, planVars, sharedVars,
                   stopping, scan, api, acked>>

Cancellable(r) == run[r] \in RunActive

\* The handler reads the status in one await and writes in a later one.
CancelRead(r) ==
    /\ Serving /\ api = None /\ Cancellable(r)
    /\ Spend("cancel")
    /\ api' = [run |-> r, seen |-> run[r]]
    /\ UNCHANGED <<dbVars, agentVars, pc, planVars, sharedVars, stopping, scan,
                   acked>>

CancelQueued ==
    /\ api # None /\ api.seen = "queued"
    /\ run' = [run EXCEPT ![api.run] = "cancelled"]
    /\ api' = None
    /\ UNCHANGED <<ok, bad, row, ref, agentVars, pc, planVars, sharedVars,
                   stopping, scan, acked, left>>

CancelRunning ==
    /\ api # None /\ api.seen = "running"
    /\ cancelled' = cancelled \cup {api.run}
    /\ acked' = [acked EXCEPT ![api.run] =
                    IF api.run # currentRun THEN "early"
                    ELSE IF pc = "recording" \/ pc = "failing"
                           THEN IF @ = "heard" THEN "heard" ELSE "late"
                    ELSE "heard"]
    /\ kill' = IF api.run = currentRun /\ currentTask # None
                 THEN kill \cup {currentTask} ELSE kill
    /\ api' = None
    /\ UNCHANGED <<dbVars, call, task, pruned, vzdumps, pc, planVars,
                   currentRun, currentTask, stopping, scan, left>>

\* A local copy deleted by an operator, a copy deleted by retention: the row of a
\* success says from then on whether a copy is left anywhere.  The run's counters
\* stay, and so does a status decided before.
DeleteArchive(k) ==
    /\ pc # "down" /\ row[k] \in Won
    /\ Spend("delete")
    /\ \E status \in Won : row' = [row EXCEPT ![k] = status]
    /\ UNCHANGED <<run, ok, bad, ref, agentVars, pc, planVars, sharedVars, stopping,
                   scan, api, acked>>

(***************************************************************************)
(* The agent                                                               *)
(***************************************************************************)
SlotFree == \A k \in Keys : task[k] # "running"

AgentAccept(k) ==
    /\ call[k] = "sent" /\ SlotFree
    /\ call' = [call EXCEPT ![k] = "accepted"]
    /\ task' = [task EXCEPT ![k] = "running"]
    /\ vzdumps' = [vzdumps EXCEPT ![k] = @ + 1]
    /\ UNCHANGED <<dbVars, pruned, kill, pc, planVars, sharedVars, stopping,
                   scan, api, acked, left>>

\* 409 when the slot is taken, 4xx when the request fails validation.
AgentRefuse(k) ==
    /\ call[k] = "sent"
    /\ call' = [call EXCEPT ![k] = "refused"]
    /\ UNCHANGED <<dbVars, task, pruned, kill, vzdumps, pc, planVars,
                   sharedVars, stopping, scan, api, acked, left>>

AgentFinish(k, state) ==
    /\ task[k] = "running"
    /\ state = "cancelled" => k \in kill
    /\ task' = [task EXCEPT ![k] = state]
    /\ UNCHANGED <<dbVars, call, pruned, kill, vzdumps, pc, planVars,
                   sharedVars, stopping, scan, api, acked, left>>

\* systemd kills the whole cgroup; load() reconciles the journal it can read
\* (a failed journal write loses a task) and prune() drops the expired tasks.
AgentRestart(lost) ==
    /\ Spend("restart")
    /\ \A k \in lost : task[k] # "none"
    /\ task' = [k \in Keys |-> IF task[k] = "running" THEN "interrupted"
                                                      ELSE task[k]]
    /\ pruned' = pruned \cup lost
    /\ UNCHANGED <<dbVars, call, kill, vzdumps, pc, planVars, sharedVars,
                   stopping, scan, api, acked>>

(***************************************************************************)
(* Process lifecycle and recovery                                          *)
(***************************************************************************)
Memory(where) ==
    /\ pc' = where /\ cur' = None /\ pos' = 1 /\ done' = {} /\ adopt' = {}
    /\ ending' = None
    /\ cancelled' = {} /\ currentRun' = None /\ currentTask' = None
    /\ stopping' = FALSE /\ api' = None
    /\ acked' = [r \in Runs |-> IF acked[r] = "heard" THEN "early" ELSE acked[r]]

OrphanedOrInterrupted == {k \in Keys : row[k] \in {"running", "interrupted"}}
                                                              \* mutant
Orphaned == {k \in Keys : row[k] = "running"}

Boot ==
    /\ pc = "down" /\ Memory("recover")
    /\ scan' = Orphaned
    /\ UNCHANGED <<dbVars, agentVars, left>>

\* The process is killed, or stop() gives up waiting for the executor.
Crash ==
    /\ pc # "down" /\ Spend("crash") /\ Memory("down")
    /\ scan' = {} /\ UNCHANGED <<dbVars, agentVars>>

\* uvicorn drains its requests, then lifespan shutdown calls stop().
Stop ==
    /\ Serving /\ api = None /\ Spend("stop")
    /\ stopping' = TRUE
    /\ UNCHANGED <<dbVars, agentVars, pc, planVars, sharedVars, scan, api,
                   acked>>

Exit ==
    /\ pc \in {"idle", "dead"} /\ stopping /\ Memory("down")
    /\ UNCHANGED <<dbVars, agentVars, scan, left>>

NextScan(k) ==
    /\ scan' = scan \ {k}
    /\ UNCHANGED <<agentVars, pc, planVars, sharedVars, stopping, api, acked>>

AllConfirmed == {}       \* mutant: recovery asks the agent about every row
Unconfirmed == scan \ ref

\* The process died before the agent's answer was stored.
RecoverUnconfirmed(k) ==
    /\ pc = "recover" /\ k \in Unconfirmed
    /\ CloseRow(k, "interrupted") /\ NextScan(k) /\ UNCHANGED left

\* The agent answers: adopt the outcome, leave a running task alone, and close
\* a row whose task the agent has forgotten.
RecoverTask(k) ==
    /\ pc = "recover" /\ Unconfirmed = {} /\ k \in scan
    /\ NextScan(k) /\ UNCHANGED left
    /\ IF k \in pruned THEN CloseRow(k, "interrupted")
       ELSE IF task[k] \in Terminal THEN CloseRow(k, task[k])
       ELSE UNCHANGED dbVars

\* The agent is unreachable or errs: left for the executor to re-adopt.
RecoverDeferred(k) ==
    /\ pc = "recover" /\ Unconfirmed = {} /\ k \in scan
    /\ Spend("outage") /\ NextScan(k) /\ UNCHANGED dbVars

OrFailed == {r \in Runs : run[r] \in {"running", "failed"}}   \* mutant
NotEven  == {}                                               \* mutant
ToRequeue == {r \in Runs : run[r] = "running"}

RequeueRuns ==
    /\ pc = "recover" /\ scan = {}
    /\ run' = [r \in Runs |-> IF r \in ToRequeue THEN "queued" ELSE run[r]]
    /\ pc' = "idle"
    /\ UNCHANGED <<ok, bad, row, ref, agentVars, planVars, sharedVars,
                   stopping, scan, api, acked, left>>

(***************************************************************************)
(* The executor: claim the oldest queued run, load its plan, back its      *)
(* guests up one by one, record the run's outcome                          *)
(***************************************************************************)
Newest(r) ==             \* mutant: a stack instead of a queue
    run[r] = "queued" /\ \A q \in Runs : run[q] = "queued" => q <= r

Oldest(r) == run[r] = "queued" /\ \A q \in Runs : run[q] = "queued" => r <= q

\* SELECT and UPDATE of one transaction: other requests run between the two.
ClaimRead(r) ==
    /\ pc = "idle" /\ ~stopping /\ Oldest(r)
    /\ pc' = "claiming" /\ cur' = r
    /\ UNCHANGED <<dbVars, agentVars, pos, done, adopt, ending, sharedVars,
                   stopping, scan, api, acked, left>>

ClaimWrite ==
    /\ pc = "claiming" /\ pc' = "loading"
    /\ run' = [run EXCEPT ![cur] = "running"]
    /\ UNCHANGED <<ok, bad, row, ref, agentVars, planVars, sharedVars,
                   stopping, scan, api, acked, left>>

Completed(r) == RowsOf(r, Closed)

LoadPlan ==
    /\ pc = "loading" /\ pc' = "loop"
    /\ pos' = 1
    /\ done' = Completed(cur) /\ adopt' = RowsOf(cur, {"running"})
    /\ currentRun' = cur /\ cancelled' = cancelled \ {cur}
    /\ UNCHANGED <<dbVars, agentVars, cur, ending, currentTask, stopping, scan,
                   api, acked, left>>

\* _loop clears its bookkeeping when _execute_run returns.
Leave ==
    /\ pc' = "idle" /\ cur' = None /\ pos' = 1 /\ done' = {} /\ adopt' = {}
    /\ ending' = None /\ currentRun' = None /\ currentTask' = None

\* A shutdown between two guests leaves the run `running`.
StopBetweenGuests ==
    /\ pc = "loop" /\ More /\ stopping /\ Leave
    /\ UNCHANGED <<dbVars, agentVars, cancelled, stopping, scan, api, acked,
                   left>>

LoopTo(where, next) ==
    /\ pc' = where /\ pos' = next
    /\ UNCHANGED <<dbVars, agentVars, cur, done, adopt, ending, sharedVars,
                   stopping, scan, api, acked, left>>

CancelBetweenGuests ==
    /\ pc = "loop" /\ More /\ ~stopping /\ cur \in cancelled
    /\ LoopTo("finalising", pos)

Proceeds == pc = "loop" /\ More /\ ~stopping /\ cur \notin cancelled

SkipGuest  == Proceeds /\ Key[2] \in done /\ LoopTo("loop", pos + 1)
NextGuest  == Proceeds /\ Key[2] \notin done /\ LoopTo("opening", pos)
EndOfLoop  == pc = "loop" /\ ~More /\ LoopTo("finalising", pos)

AdoptRow ==
    /\ pc = "opening" /\ Key[2] \in adopt
    /\ IF Key \in ref THEN pc' = "polling" /\ currentTask' = Key
                   ELSE pc' = "starting" /\ UNCHANGED currentTask
    /\ UNCHANGED <<dbVars, agentVars, planVars, cancelled, currentRun,
                   stopping, scan, api, acked, left>>

OpenRow ==
    /\ pc = "opening" /\ Key[2] \notin adopt
    /\ row' = [row EXCEPT ![Key] = "running"]
    /\ ref' = ref \ {Key}
    /\ pc' = "starting"
    /\ UNCHANGED <<run, ok, bad, agentVars, planVars, sharedVars, stopping,
                   scan, api, acked, left>>

SendStart ==
    /\ pc = "starting" /\ pc' = "calling"
    /\ call' = [call EXCEPT ![Key] = "sent"]
    /\ UNCHANGED <<dbVars, task, pruned, kill, vzdumps, planVars, sharedVars,
                   stopping, scan, api, acked, left>>

\* The guest is over: its row closed or left, the loop moves on.
NextPos ==
    /\ pc' = "loop" /\ pos' = pos + 1 /\ currentTask' = None
    /\ UNCHANGED <<agentVars, cur, done, adopt, ending, cancelled, currentRun,
                   stopping, scan, api, acked>>

\* Refused by the agent, or no usable answer: the circuit breaker is open, the
\* request did not arrive, or the answer did not come back in time.
StartFails ==
    /\ pc \in {"starting", "calling"}
    /\ CloseRow(Key, "failed") /\ NextPos /\ UNCHANGED left

StartAccepted ==
    /\ pc = "calling" /\ call[Key] = "accepted"
    /\ pc' = "saving"
    /\ UNCHANGED <<dbVars, agentVars, planVars, sharedVars, stopping, scan,
                   api, acked, left>>

SaveTaskId ==
    /\ pc = "saving" /\ pc' = "polling"
    /\ ref' = ref \cup {Key}
    /\ currentTask' = Key
    /\ UNCHANGED <<run, ok, bad, row, agentVars, planVars, cancelled,
                   currentRun, stopping, scan, api, acked, left>>

PollTerminal ==
    /\ pc = "polling" /\ task[Key] \in Terminal /\ Key \notin pruned
    /\ CloseRow(Key, task[Key]) /\ NextPos /\ UNCHANGED left

\* 404, or no answer, for longer than the grace period.
PollGivesUp ==
    /\ pc = "polling"
    /\ IF Key \in pruned THEN UNCHANGED left ELSE Spend("outage")
    /\ CloseRow(Key, "interrupted") /\ NextPos

PollStopped ==
    /\ pc = "polling" /\ stopping
    /\ NextPos /\ UNCHANGED <<dbVars, left>>

UncancelledStatus(status) == status              \* mutant
FinalStatus(status) == IF cur \in cancelled THEN "cancelled" ELSE status

\* The transaction that ends a run reads its rows and the cancellations, and commits
\* some awaits later: the status it has decided on is what it will write.
Decide(status, where) ==
    /\ pc' = where /\ ending' = FinalStatus(status)
    /\ UNCHANGED <<dbVars, agentVars, cur, pos, done, adopt, sharedVars, stopping,
                   scan, api, acked, left>>

FinaliseRun   == pc = "finalising" /\ Decide(Summary(cur), "recording")
FinaliseError == pc = "erring" /\ Decide("failed", "failing")

\* A cancellation that came in between goes with those that were seen.
FinaliseCommit ==
    /\ pc \in {"recording", "failing"}
    /\ run' = [run EXCEPT ![cur] = ending]
    /\ cancelled' = cancelled \ {cur}
    /\ Leave
    /\ UNCHANGED <<ok, bad, row, ref, agentVars, stopping, scan, api, acked,
                   left>>

\* Any await of the executor may raise: a locked database, an answer that does
\* not parse.  The transaction under way is rolled back.
ClaimError ==
    /\ pc = "claiming" /\ Spend("error") /\ pc' = "idle" /\ cur' = None
    /\ UNCHANGED <<dbVars, agentVars, pos, done, adopt, ending, sharedVars,
                   stopping, scan, api, acked>>

RunError ==
    /\ pc \in {"loading", "opening", "starting", "calling", "saving",
               "polling", "finalising", "recording"}
    /\ Spend("error") /\ pc' = "erring"
    /\ UNCHANGED <<dbVars, agentVars, planVars, sharedVars, stopping, scan,
                   api, acked>>

\* An exception while the failure of a run is recorded escapes the loop: the
\* worker is gone until the process restarts.
WorkerDies ==
    /\ pc \in {"erring", "failing"} /\ Spend("error") /\ pc' = "dead"
    /\ UNCHANGED <<dbVars, agentVars, planVars, cancelled, stopping, scan, api,
                   acked>>
    /\ currentRun' = None /\ currentTask' = None

(***************************************************************************)
(* Specification                                                           *)
(***************************************************************************)
Api == (\E r \in Runs : RequestRun(r) \/ CancelRead(r))
       \/ CancelQueued \/ CancelRunning

Deletions == \E k \in Keys : DeleteArchive(k)

Agent ==
    \/ \E k \in Keys : AgentAccept(k) \/ AgentRefuse(k)
    \/ \E k \in Keys, state \in {"success", "failed", "cancelled"} :
          AgentFinish(k, state)
    \/ \E lost \in SUBSET Keys : AgentRestart(lost)

Recover ==
    \/ \E k \in Keys : \/ RecoverUnconfirmed(k) \/ RecoverTask(k)
                       \/ RecoverDeferred(k)
    \/ RequeueRuns

Executor ==
    \/ (\E r \in Runs : ClaimRead(r)) \/ ClaimWrite \/ LoadPlan
    \/ StopBetweenGuests \/ CancelBetweenGuests
    \/ SkipGuest \/ NextGuest \/ EndOfLoop \/ AdoptRow \/ OpenRow
    \/ SendStart \/ StartFails \/ StartAccepted \/ SaveTaskId
    \/ PollTerminal \/ PollGivesUp \/ PollStopped
    \/ FinaliseRun \/ FinaliseError \/ FinaliseCommit

Failure == Crash \/ Stop \/ ClaimError \/ RunError \/ WorkerDies

Next == Api \/ Deletions \/ Agent \/ Boot \/ Recover \/ Executor \/ Exit \/ Failure

Spec == Init /\ [][Next]_vars

\* systemd restarts the process, a coroutine that can run does run, requests
\* are answered or time out, and backup_timeout_seconds ends every vzdump.
Fairness ==
    /\ WF_vars(Boot) /\ WF_vars(Exit) /\ WF_vars(Recover)
    /\ WF_vars(Executor)
    /\ WF_vars(CancelQueued \/ CancelRunning)
    /\ \A k \in Keys : WF_vars(AgentFinish(k, "success")
                               \/ AgentFinish(k, "failed"))

FairSpec == Spec /\ Fairness

(***************************************************************************)
(* Properties                                                              *)
(***************************************************************************)
Pcs == {"down", "recover", "idle", "claiming", "loading", "loop", "opening",
        "starting", "calling", "saving", "polling", "finalising", "recording",
        "erring", "failing", "dead"}

\* Executing: between the load of a plan and the end of the run.
Busy == pc \in {"loop", "opening", "starting", "calling", "saving", "polling",
                "finalising", "recording"}

\* Every variable has its type, and the executor's registers agree with pc.
TypeOK ==
    /\ run \in [Runs -> {"none"} \cup RunActive \cup RunTerminal]
    /\ ok \in [Runs -> Nat] /\ bad \in [Runs -> Nat]
    /\ row \in [Keys -> {"none", "running"} \cup Closed]
    /\ ref \subseteq Keys
    /\ call \in [Keys -> {"none", "sent", "accepted", "refused"}]
    /\ task \in [Keys -> {"none", "running"} \cup Terminal]
    /\ pruned \subseteq Keys /\ kill \subseteq Keys
    /\ vzdumps \in [Keys -> Nat]
    /\ pc \in Pcs
    /\ cur \in Runs \cup {None} /\ pos \in Nat \ {0}
    /\ done \subseteq Guests /\ adopt \subseteq Guests
    /\ cancelled \subseteq Runs /\ acked \in [Runs -> {"no", "early", "late", "heard"}]
    /\ currentRun \in Runs \cup {None} /\ currentTask \in Keys \cup {None}
    /\ stopping \in BOOLEAN /\ scan \subseteq Keys
    /\ api \in {None} \cup [run : Runs, seen : RunActive]
    /\ left \in [Events -> Nat]
    /\ ending \in RunTerminal \cup {None}
    /\ Busy \/ pc \in {"claiming", "loading", "erring", "failing"} => cur \in Runs
    /\ pc \in {"recording", "failing"} => ending \in RunTerminal
    /\ pc \in {"opening", "starting", "calling", "saving", "polling"} => More

\* vzdump is not idempotent: whatever is lost, killed or restarted, no guest
\* of a run is ever dumped twice.
AtMostOneVzdump == \A k \in Keys : vzdumps[k] <= 1

\* The row is committed before the agent is asked, so a vzdump the dashboard
\* has no record of cannot exist.
RowBeforeVzdump ==
    \A k \in Keys : call[k] # "none" \/ vzdumps[k] > 0 => row[k] # "none"

\* A row says `success` or `cancelled` only if that is what happened on the
\* host, whoever learned it: the poll, or recovery in a later process; and what
\* is `deleted` was made.
VerdictIsHonest ==
    \A k \in Keys : /\ row[k] \in Won => task[k] = "success"
                    /\ row[k] = "cancelled" => task[k] = "cancelled"

\* A run is `success` only if each of its guests was backed up.
SuccessIsComplete ==
    \A r \in Runs : run[r] = "success" =>
       \A i \in DOMAIN Targets[r] : task[<<r, Targets[r][i]>>] = "success"

\* Each row is counted once, in the transaction that closes it, also when the
\* process dies between any two steps and recovery closes it later.  The counters
\* tell what the run made, so that a row which has become `deleted` still counts as
\* a success, though the status of a run that is decided later does not count it.
CountersMatchRows ==
    \A r \in Runs :
       /\ ok[r] = Cardinality(RowsOf(r, Won))
       /\ bad[r] = Cardinality(RowsOf(r, Closed \ Won))

\* What a run says of itself agrees with its rows and with the host.
RunAddsUp == SuccessIsComplete /\ CountersMatchRows

\* "One worker, one run, one guest at a time", across restarts too: of the runs
\* that are still to be worked on, at most one row is running.
Serialised ==
    Cardinality({k \in Keys : row[k] = "running" /\ run[k[1]] \in RunActive}) <= 1

\* A row left `running` belongs to a run the queue will pick up again, so that
\* its task is re-adopted.
RunningRowHasActiveRun ==
    \A k \in Keys : row[k] = "running" => run[k[1]] \in RunActive

\* A cancellation that reached the executor while it had the run, and before it
\* read for the last time whether there was one, decides how the run ends.  One that
\* comes "late" is acknowledged all the same, and lost.
HeardCancelWins ==
    \A r \in Runs :
       acked[r] = "heard" /\ run[r] \in RunTerminal => run[r] = "cancelled"

\* A verdict, once committed, is never revised: a row that is closed stays as it is,
\* but that of a success tells from its first deletion on whether a copy is left.
VerdictsAreFinal ==
    [][\A k \in Keys : row[k] \in Closed =>
          row'[k] = row[k] \/ {row[k], row'[k]} \subseteq Won]_row

\* A run that has ended is never queued or executed again, by a request, by recovery
\* or by the executor, with one exception: a run that was cancelled after the
\* executor had read it as queued, and before it wrote its claim.
NotReopened ==
    [][\A r \in Runs : run[r] \in RunTerminal /\ run'[r] \in RunActive =>
          run[r] = "cancelled" /\ pc = "claiming" /\ cur = r]_run

\* Every run that was queued reaches a terminal state, across crashes and shutdowns,
\* unless the executor's task has died: nothing restarts that but the next process.
EveryRunSettles ==
    \A r \in Runs : run[r] = "queued" ~> run[r] \in RunTerminal \/ pc = "dead"

\* What makes the above inductive.  A request is sent for a row that is there,
\* and the host has dumped a guest exactly when it accepted its request.
RequestsAccounted ==
    \A k \in Keys :
       /\ row[k] = "none" => call[k] = "none"
       /\ IF call[k] = "accepted" THEN vzdumps[k] = 1 /\ task[k] # "none"
                                  ELSE vzdumps[k] = 0 /\ task[k] = "none"

\* The guests the loop has yet to reach have no row, or one the plan knows.
Ahead(i) == i > pos \/ (i = pos /\ pc \in {"loop", "opening"})

Known(k) ==
    \/ k[2] \in done
    \/ k[2] \notin adopt /\ row[k] = "none"
    \/ k[2] \in adopt /\ row[k] = "running" /\ k \in ref

PlanIsCurrent ==
    Busy => \A i \in DOMAIN Targets[cur] : Ahead(i) => Known(<<cur, Targets[cur][i]>>)

\* The registers of the executor agree with the row of the guest it is at.
GuestInHand ==
    /\ pc = "opening" => Key[2] \notin done
    /\ pc \in {"starting", "calling", "saving", "polling"} => row[Key] = "running"
    /\ pc = "starting" => call[Key] = "none"
    /\ pc = "polling" => Key \in ref

\* Where a row can be that is running without a stored task: nobody resumes it.
NobodyResumes ==
    \A k \in Keys : row[k] = "running" /\ k \notin ref =>
       \/ pc = "down"
       \/ pc = "recover" /\ k \in scan
       \/ pc \in {"starting", "calling", "saving"} /\ k = Key
       \/ pc \in {"erring", "failing", "dead"} /\ k[1] = cur
       \/ pc \notin {"down", "recover"} /\ k[1] # cur /\ run[k[1]] \in RunTerminal

ScanIsRunning == pc = "recover" => \A k \in scan : row[k] = "running"

\* An inductive invariant: a row is opened once, the agent is asked once for
\* it, after its commit, and its verdict is what the agent reported.
IInv == /\ TypeOK /\ RequestsAccounted /\ PlanIsCurrent /\ GuestInHand
        /\ NobodyResumes /\ ScanIsRunning /\ VerdictIsHonest

\* A run the executor has a hold of: from its claim to its verdict.
InHand == Busy \/ pc \in {"claiming", "loading", "erring", "failing"}

\* Runs are made in the order of their ids, and there are no rows but of the guests
\* of runs that were made.
RunsAndRows ==
    /\ \A p, q \in Runs : p < q /\ run[q] # "none" => run[p] # "none"
    /\ api # None => run[api.run] # "none"
    /\ \A k \in Keys : row[k] # "none" =>
          run[k[1]] # "none" /\ \E i \in DOMAIN Targets[k[1]] : Targets[k[1]][i] = k[2]

\* The run in hand is the oldest there is, and the only one that is `running`
\* as long as the process goes on claiming.
RunInHand ==
    /\ pc = "claiming" => run[cur] \in {"queued", "cancelled"}
    /\ Busy \/ pc \in {"loading", "erring", "failing"} => run[cur] \in {"running", "cancelled"}
    /\ IF Busy THEN currentRun = cur
       ELSE currentRun = None \/ (pc \in {"erring", "failing"} /\ currentRun = cur)
    /\ InHand => \A q \in Runs : run[q] \in RunActive => cur <= q
    /\ \A r \in Runs : run[r] = "running" =>
          \/ pc \in {"down", "recover", "dead"}
          \/ pc = "idle" /\ stopping
          \/ r = cur /\ InHand

\* Rows are opened in the order of the plan, each when those before it are closed,
\* unless a shutdown has made the loop pass over a running one.
RowsInOrder ==
    /\ \A r \in Runs : \A i, j \in DOMAIN Targets[r] :
          i < j /\ row[<<r, Targets[r][j]>>] # "none" => row[<<r, Targets[r][i]>>] \in Closed
    /\ Busy => \A g \in done : row[<<cur, g>>] \in Closed
    /\ \/ pc \in {"opening", "starting", "calling", "saving", "polling"}
       \/ pc = "loop" /\ ~stopping
       => \A i \in DOMAIN Targets[cur] : i < pos => row[<<cur, Targets[cur][i]>>] \in Closed

\* A row that is running for a run that goes on is of the oldest such run.
RunningRowsFirst ==
    \A k \in Keys : row[k] = "running" /\ run[k[1]] \in RunActive =>
       /\ \A q \in Runs : run[q] \in RunActive => k[1] <= q
       /\ InHand => k[1] = cur

\* A cancellation heard is remembered until the status of the run is decided, which
\* it decides, or the process will not give it one.
HeardIsKept ==
    /\ \A r \in Runs : acked[r] = "heard" =>
          /\ pc \notin {"down", "recover"}
          /\ IF r = currentRun THEN r \in cancelled
             ELSE run[r] = "cancelled" \/ (run[r] = "running" /\ (stopping \/ pc = "dead"))
    /\ InHand /\ currentRun = None => acked[cur] # "heard"
    /\ pc \in {"recording", "failing"} /\ acked[cur] = "heard" => ending = "cancelled"

\* A second inductive invariant, of the runs and their order, on top of IInv.
QueueInv == /\ RunsAndRows /\ RunInHand /\ RowsInOrder /\ RunningRowsFirst
            /\ HeardIsKept

\* What the runs, the rows, the registers of the executor and the host say of one another.
Consistent == IInv /\ QueueInv

\* Seen from the rows and the host, the executor keeps BackupPromise; what became of
\* an archive afterwards is not part of it.
Verdict == [k \in Keys |-> IF row[k] = "deleted" THEN "success" ELSE row[k]]

Promise == INSTANCE BackupPromise WITH verdict <- Verdict, dump <- task
KeepsPromise == Promise!Spec

=============================================================================
