# ProxSync: a verification development

ProxSync backs up the guests of a Proxmox host on a schedule, sends the archives to Google
Drive, deletes the old ones and restores guests from them. This directory models that system in
TLA+, model-checks it with TLC on small instances and proves its most important safety results
with TLAPS for every instance. Paths below are relative to `src/`; `backend/app/` is the
dashboard, `agent/app/` the agent.

1. [Inventory](#1-inventory)
2. [Plan](#2-plan)
3. [The modules](#3-the-modules)
4. [The runs](#4-the-runs)
5. [The proofs](#5-the-proofs)
6. [Where code and documentation part](#6-where-code-and-documentation-part)
7. [Known deviations](#7-known-deviations-that-no-run-states)
8. [What is not modelled](#8-what-is-not-modelled)

To repeat the work: `tlc -config X.cfg M` for each run of `PROJECT.json`, and `tlapm M` for each of
the modules named `...Proofs.tla`.

## 1. Inventory

### The shape of the system

Two processes, one database:

* The **dashboard** (FastAPI, one process, one event loop) serves the API and the web pages and
  runs eight background workers as asyncio tasks. `main.py` starts them in the order log writer,
  notifications, retention, storage sampler, restore, run executor, sync, scheduler, and stops
  them in the order scheduler, sync, run executor, restore, retention, sampler, notifications, log
  writer. Every worker has the same form: `start()` recovers what the last process left behind
  and only then starts the loop; the loop sleeps on a doorbell (an `asyncio.Event`) and a
  timeout; `stop()` sets a stop event and waits a bounded time.
* The **agent** (FastAPI, on the Proxmox host) is the only part that runs `vzdump`, `qmrestore`
  and `rclone`. It has one slot for each kind of work, gives each task an id and keeps a journal of
  tasks, so that a dashboard that comes back can ask what became of one.
* The **database** is the queue of every worker. A row moves through states in short transactions;
  between two of them lie awaits, in which any other handler or worker may run.

So there is no shared memory between threads; what makes the system hard is that

* **every await is a place where everything else may happen**: handlers and workers read a row,
  await the agent or the database, and write on the strength of what they read. Some of those
  sections are serialised by a lock, the *retention guard* (`core/retention_guard.py`), and some
  are not;
* **the work outlives the process that asked for it**: a `vzdump` goes on while the dashboard is
  killed and restarted, and the answer to a request may be lost after the request was obeyed.
  Neither `vzdump` nor `qmrestore` may be repeated on a guess;
* **the agent forgets**: it can be restarted (its tasks are then `interrupted`), prune a task,
  or be out of reach for longer than the grace period.

### Components

| Component | State | Operations | Talks to | What is hard | What makes it correct |
|---|---|---|---|---|---|
| **Run executor** `workers/backup_runner.py`, `services/backup_service.py` | `backup_runs.status` and counters, `backup_history.status`, `agent_task_id`; in memory the current run, task and cancelled runs | request a run, claim, load the plan, open a row, start, poll, close, finalise, cancel, recover | agent (`/backup/start`, `/task/{id}`), retention and upload doorbells, notifications | lost answers, death between any two steps, cancels at any await, shutdown in mid-poll | a guest is dumped at most once; verdicts are honest, final, counted once; every run ends |
| **Agent backup service** `agent: services/backup_service.py`, `core/concurrency.py`, `tasks/registry.py` | the slot, the task journal | start, cancel, report, reconcile on restart | `vzdump` | restart in mid-task; a journal write that fails | one vzdump at a time; the journal never says more than happened |
| **Restore** `services/restore_service.py`, `workers/restore_worker.py` | `restore_history` row, its source, its task id, its confirmation window | propose, confirm, cancel, expire, claim, download, restore, poll, recover | agent, retention guard, the rows of the backups | two confirmations at once; deletion of the source; death after the host was asked | a host is overwritten at most once per restore and only when confirmed; one restore at a time; the archive a restore names is not deleted |
| **Upload queue** `services/sync_service.py`, `workers/sync_worker.py` | `sync_tasks` rows, `upload_status`, `remote_path` | queue, claim, start, poll, retry with backoff, verify, cancel, recover | agent (`/sync/*`), retention guard | verification racing a transfer; an rclone that outlives its process | `uploaded` is said only of a whole copy; attempts are bounded; every upload gets a verdict |
| **Retention** `workers/retention_worker.py`, `services/retention_service.py` | doorbell, pending triggers, retry timers and counts, pass in hand | notify, sweep, pass (classify, revalidate, delete, mark), retry | everything that commits a change of a copy; the agent's delete | many triggers for one guest; a change during a pass; failed deletions | nothing is deleted that the policy, a pin or a restore protects; at rest nothing is left to delete |
| **Agent artifact service** `agent: services/artifact_service.py` | the archives on the host | list, delete | the file system | 404 for a file already gone | deletion is idempotent |
| **Notification outbox** `workers/notification_worker.py`, `services/notification_service.py` | `notifications` rows with attempts | enqueue, claim (charges an attempt), send, record, resend | Telegram | death between the answer and its record | sent at least once, at most `max_attempts` times |
| **Scheduler** `workers/scheduler.py`, `core/cron.py` | APScheduler jobs, `next_run_at` | resync, fire, catch up | run executor | downtime over a firing; a job edited while it fires | each firing makes one run; a missed window is made up for as configured |
| **Authentication** `services/auth_service.py`, `api/deps.py` | refresh-token families, password hash, lockout counters | sign in, refresh, sign out, revoke, change the password | web interface | transactions of one user that overlap; answers that are lost | a family has one live token; what was ended stays ended; an undisturbed browser keeps its session |
| **Log pipeline** `core/log_sink.py`, `workers/log_writer.py`, `repositories/log_repository.py` | bounded deque, batch in hand, table | capture, drain, put a failed batch back, prune, export, flush at the end | database | overflow while a batch is put back; a commit that is reported as a failure; an export among writes | each line is stored, or lost in a way that has a name; the table keeps the order; an export is exact |
| **Agent client, circuit breaker** `clients/*` | failures, opened at, probe in flight | call, retry a read, trip, probe | agent | stragglers that end while a probe is out; a probe that is broken off; lost answers | a change is asked for once; a healthy agent is reached again |
| **Event bus** `core/events.py`, `frontend hooks/use-event-stream.ts` | a bounded queue for each subscriber | publish, subscribe, drop oldest | web interface | slow subscribers | a subscriber that lost events reloads |
| **Storage sampler** `workers/storage_sampler.py`, `services/storage_service.py` | snapshots | sample, alert, forecast | agent, outbox | a sample older than the transaction that compares it | an alarm is raised once and not missed; the forecast is the least-squares one |
| **Process lifecycle** `main.py` | worker tasks | start, stop | all workers | order of stopping | recovery precedes service |
| **Agent task registry, executors** `agent: tasks/registry.py`, `executors/base.py` | tasks, journal files, child processes, slots | create, run, time out, cancel, finish, load, prune | agent services | a cancel racing the verdict; a journal write that fails; death | slots are exact; no ended task has a process; a verdict stands; every task ends |
| **Inventory** `services/inventory_service.py` | cached rows of the guests | refresh, list | Proxmox | the cache lags and never forgets | a decision on a stale row harms nobody |
| Agent security, settings, dashboard and health pages, event bus, schema, web pages, deployment | configuration, caches, pages | | | | see [section 8](#8-what-is-not-modelled) |

`PROJECT.json` lists the same components with their files and their status, and, under
`hazards`, each place where this code can go wrong in a way a test would hardly reach.

### How they interact

```
 API handlers ──rows──▶ run executor ──HTTP──▶ agent: vzdump
      │                    │ success: row, doorbell
      │                    ▼
      ├──rows──▶ upload queue ──HTTP──▶ agent: rclone ──▶ Drive
      │                    │ uploaded: doorbell
      │                    ▼
      ├─doorbell─▶ retention ──HTTP──▶ agent: delete (host, Drive)
      │                    ▲ guard, restore_in_progress
      └──rows──▶ restore ──HTTP──▶ agent: rclone, qmrestore
```

The retention guard is taken by every transaction that changes what retention ranks by, by restore
admission and claim, and by a retention pass for its whole length. It is *not* taken by the claim of
a run, by the claim of a transfer, or by `enqueue_pending`.

## 2. Plan

Order: what cannot be undone comes first (dumping, overwriting, deleting), then what carries it.

| # | Module | Abstract specification | Runs | Theorems | State |
|---|---|---|---|---|---|
| 1 | `BackupRunner`; `RunTargets` for the choice of guests | `BackupPromise` | `backup`, one finding | types, both invariants, at most one vzdump, honesty, the order of the queue, counters, cancels, finality, refinement | proved |
| 2 | `RestoreFlow` | `RestorePromise` | `restore` | types, invariant, one restore, one at a time, source kept, fetched is tracked, honesty, finality, refinement | proved |
| 3 | `SyncQueue`; `Reports` for the comparison | `CopyLedger` | `sync` | `UploadedIsThere`, attempts, refinement | proved |
| 4 | `Retention` | | `retention_policy` | `PolicyKept` and `QuietMeansClean` for any number of guests and backups | proved; then liveness (an excess copy goes) |
| 5 | `Outbox` with the storage alerts; `Reports` for the figures | | `outbox` | `DeliveriesAccounted`, `ToldOnce`, `AlarmWasRaised`, attempts | proved |
| 6 | `Scheduler`; `CronDays` for the weekdays | | `schedule` | types, timers, `OneRunPerWindow`, `NothingForgotten` | proved |
| 7 | `AgentTasks` | | `agent_tasks` | types, slots, honesty, cancels, `VerdictStands` | proved |
| 8 | `RestoreTarget` | | `restore_target` | types, verdicts, `RefusalIsNews`, `TouchesAsConfirmed` | proved |
| 9 | `AgentLink` | | `agent_link` | types, `ProbeIsOut`, `ToldTheTruth` | proved |
| 10 | `Sessions` | | `sessions` | types, one live token, `EndedStaysEnded`, `SessionLasts` | proved |
| 11 | `LogPipeline` | | `logs` | types, `Conserved`, `DropsCounted`, `OrderKept`, `ExportIsExact` | proved |
| 12 | `Copies`: the rows of `BackupRunner`, `SyncQueue`, `Retention` and `RestoreFlow` in one composition, each reduced to its abstract specification | | | no module deletes what another relies on | planned |

The modules share their conventions:

* one action for each stretch of code between two awaits at which something else could matter;
* `pc` is the place of the worker in its loop, `"down"` is a process that does not run, and `Memory`
  or its like is what a crash loses;
* faults are actions that spend a **budget**, a constant function from kinds of events to numbers,
  so that a behaviour has a bounded number of crashes, lost answers and so on. `Budgets` is
  a set of such functions (scenarios) of which the initial state picks one;
* the guard is not a variable: it is free when no handler and no pass is between its first read and
  its commit;
* a definition whose comment says *mutant* is a mutated form of the next one. It is not used
  by the specification; substituted for it, it makes the property named in `PROJECT.json` fail.
* what an algorithm works out from its input, with no state, is a module of operators (`RunTargets`,
  `CronDays`, `Reports`). The MC module of the component that uses it instantiates it and states, as
  assumptions that TLC evaluates over all inputs of a bounded kind, how it agrees with a reference.

No module declares a `RECURSIVE` operator, so that all can be proved about.

## 3. The modules

### `BackupRunner`: runs, rows and vzdumps

Models `workers/backup_runner.py` with the rows it writes, the two requests that touch its runs,
and the agent.

| Variable | In the code |
|---|---|
| `run`, `ok`, `bad` | `backup_runs.status`, `guest_succeeded`, `guest_failed` |
| `row`, `ref` | `backup_history.status`; whether `agent_task_id` is set |
| `call` | `POST /backup/start` for the pair: sent, accepted, refused |
| `task`, `pruned`, `kill`, `vzdumps` | the agent's task and what it has forgotten; cancel requests on their way; how often vzdump was started (history) |
| `pc`, `cur`, `pos`, `done`, `adopt` | the executor's place in `_loop`, `_execute_run` and `_backup_guest`, its run, its guest, and the `RunPlan` |
| `ending` | the status `_finalise_run` has decided on, until it commits |
| `cancelled`, `currentRun`, `currentTask`, `stopping` | the fields of `BackupRunner` of those names |
| `scan` | what `recover` still has to look at (`_orphaned_backups`) |
| `api`, `acked` | the cancel handler between its read and its write; what it answered (history) |

A row, a task and a vzdump are named by the pair of run and guest. That loses nothing: the code
opens a second row for a pair only if the plan forgets the first, and that second row would start a
second vzdump, which `vzdumps` counts and `AtMostOneVzdump` forbids.

| Action | Code |
|---|---|
| `RequestRun`; `CancelRead`, `CancelQueued`, `CancelRunning` | `request_job_run`, `request_manual_run`; the cancel route with `cancel_queued_run` and `BackupRunner.cancel`: it reads in one await and writes in another |
| `Boot`, `RecoverUnconfirmed`, `RecoverTask`, `RecoverDeferred`, `RequeueRuns` | `start`, `recover`, `_recover_task`, `_requeue_runs` |
| `ClaimRead`, `ClaimWrite`, `LoadPlan` | `_claim_next_run`, `_load_plan` |
| `StopBetweenGuests`, `CancelBetweenGuests`, `SkipGuest`, `NextGuest`, `EndOfLoop` | the guest loop of `_execute_run` |
| `AdoptRow`, `OpenRow`, `SendStart`, `StartAccepted`, `SaveTaskId`, `StartFails` | `_backup_guest`, `_open_backup`, `_start_agent_backup` |
| `PollTerminal`, `PollGivesUp`, `PollStopped` | `_poll_to_terminal`, `_record_outcome`, `_interrupt_backup` |
| `FinaliseRun`, `FinaliseError`, then `FinaliseCommit` | `_finalise_run`, called by the loop or from its `except`: the rows and the cancellations are read awaits before the commit |
| `DeleteArchive` | `delete_backup` and `_refresh_status` of the retention: the row of a success becomes `deleted` when no copy is left |
| `ClaimError`, `RunError`, `WorkerDies` | an exception at any await; another while the first is recorded |
| `AgentAccept`, `AgentRefuse`, `AgentFinish`, `AgentRestart` | the agent's backup service and registry |
| `Crash`, `Stop`, `Exit` | death of the process, `stop()` |

`BackupPromise` is what is left of this when only rows and vzdumps are looked at: a row is opened
before its vzdump starts, the vzdump starts once, the verdict is given once and `success` and
`cancelled` are only said of what happened. `BackupRunner!KeepsPromise` instantiates it with
`dump <- task` and `verdict <- Verdict`, which is `row` with `deleted` read as the `success` it was.

### `RestoreFlow`: propose, confirm, restore

Models `services/restore_service.py` and `workers/restore_worker.py`, the two lanes that delete
archives (operator and retention) and the agent. `row`, `source`, `ref` and `gone` are columns;
`late` is the set of rows whose confirmation window has passed; `copies` are the files; `fetch` and
`job` are the download and the qmrestore of a restore with their requests; `rebuilds` counts the
qmrestores. `api` and `deletion` are a handler and a deletion between their checks and their
commit; `strays` counts the calls to delete a copy that the dashboard gave up waiting for (`DeleteTimesOut`, or a death of the process) and that the agent
may still carry out (`StrayDeletes`, `StrayFails`), `struck` (history) the copies that were lost to them. `CreateBegin`/`CreateCommit` and their like are the two halves of a handler that awaits the
agent's preflight under the guard; `ClaimRead`/`ClaimWrite` those of the claim. `Expire`, `Adopt`,
`StartDownload`..., `StartRestore`..., `RecordOutcome`, `PollGivesUp`, `PollStopped` are the steps of
`_loop`, `_execute`, `_download`, `_follow` and `_poll`; `RecoverOrphan` and `Recovered` are
`recover`.

`RestorePromise`: the host is touched at most once for a restore, only after someone confirmed it,
never after it was refused, cancelled or expired; outcomes are final and do not claim what did
not happen. A request whose answer was lost may still reach the host after its row was closed as
`interrupted`: that is the only case in which the host acts after a verdict, and the reason why
`interrupted` is a verdict of its own.

### `SyncQueue`: transfers and what they claim

Models `services/sync_service.py`, `workers/sync_worker.py`, the deletions that rely on
`upload_status`, and the agent's rclone. `status`, `attempt`, `of` are columns of `sync_tasks`,
`waiting` the rows whose `next_retry_at` is ahead; `upload`, `linked`, `gone` are columns of
`backup_history`; `copies` are the files. `slot` is the agent's one transfer; it survives the
dashboard. `EnqueueRead`/`EnqueueWrite` (`enqueue_pending`) and `ClaimRead`/`ClaimWrite` do not
take the guard, `UploadBegin`/`UploadCommit`, `VerifyBegin`/`VerifyCommit`, `CancelBegin`/`CancelCommit`
and the deletions do. `Load` marks the backup `uploading`; `PollDone`, `PollGivesUp`, `PollStopped`,
`RecordSuccess`, `RecordFailure` end a transfer.

`CopyLedger` sees four sets (archives left on the host, whole copies on Drive, copies that were
deleted or lost, claims) and five steps: a copy arrives, a copy vanishes, a claim is made of a
copy that did arrive, a claim is withdrawn, and the local archive is given up by retention on the
strength of a claim.

### `Retention`: what may go, and what must

Models `workers/retention_worker.py` and the classification of `services/retention_service.py`. The
rest of the system is there as committed changes (`Finish`, `Uploaded`, `Doubt`, `Reopened`, `Pin`, `Configure`,
`RestoreBegins`, `Fetch`, `RestoreEnds`, `OperatorDeletes`), each one step because it holds the guard
to its commit, each with the doorbell it rings or fails to ring. `Doubt` is an upload by hand or a verification,
which ring; `Reopened` is a retry or a cancellation of a transfer by hand, or the worker's start of
another transfer of the backup, which take back `uploaded` without a word to retention, whether the local
copy is still there or not.

`Plan(c)` is the classification with trigger `c`: rank the copies of a guest by age at each
place, leave out pinned ones and the sources of restores, keep the newest `policy.local` and
`policy.remote`, and let a local copy go only when it and all kept ones are safe (`Safe`: uploaded, or
no upload required). The policy is that of the trigger's run or the settings (`ResolvePolicy`): a run says
where its counts come from; an old one that does not is believed only as far as its frozen counts or
the job that still exists say so, and otherwise its guest keeps everything (`Unresolved`).
The doorbell is `pending`, `sweep`, `attempts` and `timers` (`notify`, `notify_all`, `_schedule_retry`,
`_clear_retry`); a drained batch is `work`, `processed`, `sweeping` (`_run_queued`, `run_startup_sweep`); a pass
is `trigger`, `cand`, `hand`, `failed`: classify (`RunQueued`, `Sweep`), classify again just before each deletion
(`Revalidate`), delete (`AgentDeletes`, `AgentFails`), record (`Mark`), schedule or clear the retry
(`EndPass`).

### `Outbox`: what the operator is told

Models `workers/notification_worker.py` with `services/notification_service.py`, the Telegram client as
its answers, and the part of `workers/storage_sampler.py` that raises alerts.

| Variable | In the code |
|---|---|
| `status`, `key`, `attempts`, `by`, `waiting` | the columns of `notifications`; `by` is `payload.suppressed_by`, `waiting` the rows whose `next_attempt_at` is ahead |
| `recent` | the rows younger than the suppress window |
| `config` | whether notifications are off, on, or on without a token |
| `pc`, `cur`, `charged` | the worker's place in `_deliver` and its claim |
| `latest`, `lines` | the fill in the latest stored snapshot, `storage_warning_percent` and `storage_critical_percent` |
| `asked`, `overtaken` | requests to send a message again that have read its row and not committed; those of them that another one has preceded |
| `sampled`, `disk` | what a sampler's pass has read, lines and fill, and not stored yet; the disk itself |
| `delivered`, `unknown`, `resent`, `muted`, `crashes` | history: how often Telegram delivered a message since it was last queued, how often nobody recorded that, and so on |
| `level`, `silent`, `doubled` | history: what the latest snapshot was judged to be when it was stored, whether moved lines have kept that from being told, how many overtaken requests were committed |

| Action | Code |
|---|---|
| `Report` | `NotificationGateway.emit` in the transaction of what is reported, with the key lookup of `enqueue` |
| `SampleRead`, `SampleStore` | `sample_once`: the agent is asked with no transaction open; comparing, storing and the alert are one transaction, in which `_previous_severity` judges the snapshot before by the lines of today |
| `ResendAsked`, `Resend`, `ResendLate` | `resend` tests the row, and the transaction of the request commits later (`get_session`) with no guard: the first request of a settled row, and one that another has overtaken |
| `MoveLines` | the thresholds of the retention settings are edited |
| `Configure`, `SendTest` | the routes of the outbox and of its settings |
| `ClaimNext`, `Deliver` | `_claim_next`, which charges the attempt and schedules its retry before anything is sent; `_deliver` |
| `TelegramDelivers`, `TelegramDeclines` | `send_message` and what `_parse` makes of the answer |
| `RecordSent`, `RecordFailure`, `DeliveryError`, `WorkerDies` | `_record_sent`, `_record_failure`, the `except` of `_loop`, an exception in that |
| `Crash` | death of the process, and `stop()`, which cancels the worker after ten seconds |

`ClaimError` would be a step that changes nothing, since a claim is one transaction. The doorbell is left out:
the loop polls when nobody rings. A message that is neither claimed nor written in the same
transaction as another needs no lock, and none is taken: `ClaimIsCurrent` says that this is enough.

### `Scheduler`: what starts by itself

Models `workers/scheduler.py`, the writes of `services/schedule_service.py`, and `request_job_run` as far as it
decides whether a run starts. A time is the window between two instants, a cron expression the set of its
instants, and `now = t` says that the instant `t` has just passed.

| Variable | In the code |
|---|---|
| `enabled`, `cron`, `next` | the columns of `backup_jobs`; `next` is `next_run_at` |
| `active` | how many runs of the job are queued or running (`active_for_job`) |
| `stage` | how far `start` has come: `collect`, `syncing`, `catch`, `up` |
| `timer` | APScheduler's job: the expression of its trigger and its next time |
| `resync`, `sync`, `plan` | the date job `scheduler-resync`; `sync_jobs` before and after its reads; what it read and will write |
| `missed` | the list that `_collect_missed_schedules` returned, as far as it is not worked off |
| `calls` | the executions of `_fire`, by a timer or by the start, before and after they checked |
| `pressed` | handlers of "run now" between check and insert |
| `open`, `started`, `behind`, `crossed` | history: firings that are due and undecided, runs started for each, whether a resync was missed, instants that a rebuild ran into |

| Action | Code |
|---|---|
| `Edit`; `PressBegin`, `PressCommit` | `update_job`, `set_enabled`, `delete_job` with `sync_after_commit`; `run_now` |
| `Launch`, `Collect`, `CatchUp`, `Started` | `start`, `_collect_missed_schedules`, `_fire_missed_schedules` |
| `Resync`, `SyncRead`, `SyncCommit`, `SyncFails` | APScheduler taking up the resync; `sync_jobs` up to its reads, and from its commit |
| `TimerFires` | APScheduler, as `add_job` sets it: `coalesce`, `max_instances=1`, `misfire_grace_time` |
| `FireRefused`, `FireCheck`, `FireCommit`, `FireFails` | `_fire` with `request_job_run` |
| `Tick`, `ProcessDies`, `RunEnds` | the clock, the death of the process or `stop()`, the run executor |

`sync_jobs` registers the timers after its commit without another await, so `SyncCommit` is one step. The
session writes a column only if its value differs from the one it loaded, so `plan.write` holds only those.

### `AgentTasks`: what the agent runs

Models `tasks/registry.py` and its journal, `core/concurrency.py`, the process runner of
`executors/base.py`, and the way the three services of the agent drive them.

| Variable | In the code |
|---|---|
| `task`, `journal`, `old` | `_tasks`, the files under `state_dir/tasks`, those whose end is past the retention window |
| `inUse` | the slots of `SlotManager` |
| `pc`, `proc`, `code`, `cause`, `handle` | where `_execute` of each task is; its child process, how it ended, why it is being terminated; the `ProcessHandle` |
| `ending`, `heard` | the cancel requests between `handle.cancel()` and their answer; those answered with success (history) |
| `complete`, `matched`, `work` | history: whose command ended well, whose verification agreed, what was asked |

`StartBackup`, `StartRestore`, `StartTransfer` are the accepting handlers; `Begin`, `Spawn`, `Reap`,
`TimesOut`, `LogBreaks`, `SpawnFails` the steps of `run_logged`; `BackupReturned`, `RestoreReturned`,
`TransferReturned`, `Collected`, `Verified` what the services make of the result; `RunCrashes`, `Crashes` the
`except` of `_execute`; `CancelBegin`, `CancelEnds` the cancel route; `Dies`, `Load`, `Age` the death of the
process, `load` with its reconciliation, and the passing of the retention window. A start may take a journal
write that fails with it: `Persist` decides in each action that writes.

### `RestoreTarget`: what a restore does to the guest that is there

`RestoreFlow` knows nothing of guests. Here one VMID is followed: `guest` is what Proxmox has,
`inventory` the row the dashboard has cached, `archive`, `sidecar`, `digest` the archive, the digest cached
beside it, and whether one was recorded with the backup, `storage` the target storage. `verdict` and `want` are the restore's row as far
as its verdict goes; `phase` is where its request is in the handler of the agent and then in its task; `seen`
what the handler saw of the guest some awaits earlier, `hashed` what hashing the archive found. `done` records what was done to the
guest, and under "verified" that the archive was intact when the agent looked at it; `misfiled` that a digest was written beside
an archive which had been rewritten since it was hashed.

`TargetPreflight` is the report of `services/restore_service.py`, check by check (`ArchivePresent`,
`ChecksumMatches`, `TargetFree`, `TargetTypeMatches`, `TargetStopped`, `NodeSupported`, `StorageFree`,
`NoneInFlight`). `Look`, `AssertStoppable`, `Accept`, `Reject` are `_restore` of the agent, an await apart, with
`HashArchive` and `WriteCache`, the two threads of `compute_digest`, before the comparison where no digest is cached;
`StopGuest`, `Spawn`, `Rebuilt`, `Broken`, `StartGuest`, `TaskFails` its `_execute`. `GiveUp` is any way in
which the dashboard loses touch. `Operate`, `ArchiveChanges`, `StorageChanges` are the operator at work in
Proxmox and the disk. What `qmrestore` and `pct restore` themselves refuse (`Restorable`: an existing VMID
without `--force`, a running guest, one of the other type) is external and assumed.

### `AgentLink`: the breaker and its callers

Models `clients/circuit_breaker.py` (`failures`, `opened`, `elapsed`, `probing`) and `_request` of
`clients/agent_client.py` for every caller at once (`call`): `Ask` or `Paused`, `Serve` by the agent, then
`Receive`, `NotReached` or `AnswerLost`, and for a read `SendAgain`. At any of these points a call may be broken off (`Breaks`): it is
cancelled, or an exception passes it that is no `httpx.HTTPError`, and the breaker is told nothing. `strayed` records that a call let
through earlier ended while a probe was out, `abandoned` that the flag is up for a probe that was broken off. Every operation of the client is in `Reads` or `Changes`.

### `Sessions`: tokens, transactions and tabs

Models `services/auth_service.py` and the repository of refresh tokens under the transactions of
`api/deps.py`, and the browsers. `token` and `hash` are the tables; `req[t]` is the request of a tab: what it
presented, what its handler has decided to write (`plan`), whether its transaction is open, committed or failed, and
whether it was answered, in either order, since it depends on FastAPI's version whether a dependency with `yield` ends
before the answer or after it, and `pyproject.toml` (`fastapi>=0.115`) allows both. `ReadLogin`, `ReadRefresh`, `ReadLogout`, `ReadRevoke`,
`ReadPassword` are the handlers up to their first write, `Commit` and `CommitFails` the end of the
session dependency. A cookie is shared by the tabs of a browser; the single-flight refresh
of `frontend/src/lib/api/client.ts` is per tab, so two tabs may present one cookie at once (`Presents`). `disturbed` remembers the
sessions to which that happened (`FamiliesOf` the cookie, even while its row is being committed) or whose answer or transaction was lost.

### `LogPipeline`: from a log call to a row

Models `core/log_sink.py`, `workers/log_writer.py` and the export of `repositories/log_repository.py`. `queue` and
`dropped` are the sink, `pc`, `batch`, `final` the writer, `rows` and `aged` the table and what was pruned
from it, `export` an export under way. `Log`, `LogDangling` are log calls; `Flush`, `Inserted`, `Unlink`,
`UnlinkedInserted`, `InsertFails`, `UnlinkFails` are `flush_once` with its second attempt without links; a failure
may be one in which the commit took place (`unsure`). `Stop`, `LoopEnds`, `StopGivesUp`, `FinalFlush` are the shutdown.

### `RunTargets`, `CronDays`, `Reports`: algorithms

`RunTargets` has the choice of guests (`ResolveJobTargets`, `ResolveExplicitTargets`) and options
(`ManualOptions`) of a run; `CronDays` the translation of a day-of-week field from crontab's numbering to
APScheduler's with its refusal of two restricted day fields, against what crontab selects; `Reports` the comparison of host and remote, the percentages
of the storage page and the forecast, against the definition of a least-squares line. Checked over all
inputs of a small kind by assumptions in `MCBackupRunner`, `MCScheduler`, `MCSyncQueue` and `MCOutbox`;
`MCRetention` does the same for `ResolvePolicy`.

## 4. The runs

Every run is in `PROJECT.json` with its properties; each property of a passing run has a mutant
there, a change of one modelled definition that makes the property fail in that run.
`CHECK_DEADLOCK FALSE` is in most configurations because the requests and faults of a behaviour are
finite: when all runs, restores or transfers have ended and nothing is left to ask for, the system
rests. `Outbox`, `RestoreTarget` and `AgentLink` never rest (the sampler samples, the inventory is refreshed,
somebody calls), and are checked for deadlock. In `Outbox` the number of rows is bounded: with no row left, nothing
more is reported.

| Run | Question | Answer |
|---|---|---|
| `backup` | Do the rows stay right whatever happens to a run, and does every run end, one after the other? | One run of two guests with a cancel, whose executor fails twice, is killed and cut off from the agent, or is shut down while the agent restarts; two runs with a crash, an agent restart and an outage; or a run with a cancel and a crash whose archive is deleted. `Consistent` holds: no guest is dumped twice, a row exists before its vzdump, a verdict is honest (`IInv`), runs are served in their order and their rows opened in the order of the plan (`QueueInv`); `success` means every archive is there and the counters match the rows (`RunAddsUp`); a cancel the executor heard before it decided on the end of the run decides it; at most one row is running; `BackupPromise` is kept; an ended run is not reopened, unless it was cancelled while being claimed; every queued run ends. |
| `restore` | Is the host overwritten only as confirmed, do two operators and two deletion lanes get in each other's way, and does every restore end? | One restore from the host or through a download under the same faults, or two restores of one backup, or one with a crash and deletions that time out, each with deletions of either copy at any time. `IInv` (at most one qmrestore, one restore authorised at a time, `failed` never said of a rebuild that may be running) holds; a downloaded archive is on record before it is restored from; a deletion never takes what a restore names, unless its call had been abandoned; `RestorePromise` is kept; every restore ends. |
| `sync` | Can `uploaded` be said of something that is not there, and does every upload reach a verdict? | One backup, uploaded twice, in three scenarios: every request with both copies deleted; the faults of the process and the agent (crash, shutdown, error, restart, failing transfers); a retry by hand with an operator's deletion. It cannot, `CopyLedger` is kept, attempts stay bounded, and every upload is decided, apart from those an operator made hopeless (`Abandoned`). |
| `retention_policy` | Is exactly the right copy deleted? | Three backups of one guest in four scenarios (pins and restores; faults; uploads and retries by hand; edits of the settings and deletions) under four settings. Nothing protected is deleted, and when the worker rests nothing is left to delete, apart from the cases of [section 7](#7-known-deviations-that-no-run-states). |
| `outbox` | Is every message told, and told only as often as it must, and do alerts neither flood nor go missing? | Three rows in seven scenarios: a report under every fault; two requests to send it again; the same for a test message; alerts while Telegram refuses and the process dies, or while notifications are switched and a message is resent; a report made again after a crash, of a disk that is full; and lines that move twice. A row is `sent` only if its message was delivered, and it is delivered again only if nobody could record the first time; the message in hand is disturbed by nobody but a resend that another one overtook; attempts are bounded. What happens once has one row; of an alert at most one message is queued or sent within the window; and no snapshot is judged worse than some message says, apart from lowered lines ([section 7](#7-known-deviations-that-no-run-states)). Every queued message gets a verdict. |
| `schedule` | Does each firing make one run, through edits, restarts and rebuilds? | Two schedules over three instants in two scenarios: an edit, an error and a crash; a press of "run now", an error and a crash. No firing makes two runs, none is forgotten by a restart or a rebuild, and the timers are those of the table, apart from the races of [section 7](#7-known-deviations-that-no-run-states). |
| `agent_tasks` | Is what the agent tells of its tasks true, and does each end? | Two tasks of any kind with one slot each in three scenarios: two cancels with an exception; two deaths with a failing journal write, a cancel and the retention window; a death with an unreadable journal and a failing write. Slots are taken exactly by what runs; no ended task has a process; a success is of a command that ended well, of a copy that matched; a cancel answered with success is not followed by one; a verdict stands through restarts unless its last write failed; every task ends although no child need end by itself. |
| `restore_target` | Can a stale report cost a guest its life? | One restore that loses touch with the agent while the operator changes the guest, or the storage fills up, goes or comes back, twice; two restores, one after the other or overlapping, with any flags and one change of the guest, a lost answer, or an archive damaged or removed at any moment, while it is hashed too. The guest is stopped only where that was asked and destroyed only where overwriting was, never of another type or running; where a digest was recorded, only after the agent looked at an intact archive or trusted a misfiled digest; a verdict tells what happened to it; and the agent refuses only what has changed since the report. |
| `agent_link` | Does a shared breaker ever wait for a probe that is over, and is a change asked for twice? | Three callers with one read and one change, and three lost answers, one with an agent that goes away, or two with two calls that are broken off. It waits only for a probe that was broken off ([section 7](#7-known-deviations-that-no-run-states)), and no change is asked for twice; but for that the circuit closes for good once the agent stays. |
| `sessions` | Do overlapping requests of one user fork, revive or lose a session? | Three tabs in one browser and one in another in three scenarios: three refreshes with a lost answer, a failing transaction and expiry; two sign-ins with a logout, a revocation and a refresh; three sign-ins with a password change and a refresh. One live token for each family unless its cookie was used twice at once or an answer was lost; what was ended stays ended unless a token was being issued; an undisturbed browser keeps its session. |
| `logs` | Where can a log line go? | A sink of two lines and batches of two in four scenarios: failing and doubtful transactions; a shutdown; a crash; an export among writes and prunes. Each line is in one place, drops are counted, the table keeps the order of the calls, the export is exact, every line is stored or lost in the end. |
| `backup_stop` | Does a shutdown leave a run to recovery, as a comment says? | [Section 6](#6-where-code-and-documentation-part) |

### Bounds

* *Runs and guests*: the executor is one loop with one run in hand, so two runs show queueing,
  overlap and a queued run waiting behind a re-queued one; two guests show a first, a last and an
  in-between guest of a plan, and a resumed run with one guest closed and one open. The safety
  part of every module that describes a component is proved without any of these bounds ([section 5](#5-the-proofs)).
* *Restores*: the second is requested, confirmed or cancelled anywhere in the life of the first; a third
  would meet the same two states of the others (one in flight, the rest pending). Two restores meet no fault of a process in the run; that
  a crash, an outage or an abandoned deletion does their safety no harm is proved, for any number of restores; that they end then is checked for one.
* *Transfers*: `MaxAttempts = 2` is the least number for which a failure is retried, a refund gives
  an attempt back, and the last attempt is spent; that a limit of one, the least the settings allow, does no harm either is left to the
  theorem `Consistency`, which holds for every limit; two tasks of one backup are one after the
  other, or the two that `enqueue_pending` can queue at once.
* *Backups under retention*: three, with `keep_local` of 1 or 2 and `keep_remote` of 0, 1 or 2, give a
  kept one, an excess one and one on the boundary at each place; the second was made by a job with
  counts of its own, so that the policy changes with the newest. `MaxRetries = 1`: a retry, and
  retries that are spent.
* *Messages*: three rows are one being delivered, one that is withheld on its account and one more alert, or
  a report and two alerts. `MaxAttempts = 2` as for transfers. The severities and their order are those
  of the code. Percentages are three, with two pairs of lines: a fill is below both, between them in either way, or above.
* *Schedules*: one job fires at every instant and one at every other, and an edit turns one
  into the other, so that both are alike. Three instants give a firing before, during and after a downtime, two firings missed at
  once, and, with a grace of one window, one missed inside it and one beyond it.
* *Tasks of the agent*: two are one that has the slot and one that is refused or follows; the works that may be asked for are a
  backup with its checksum, a restore with and without stopping and starting its guest, and a transfer that is verified. `Capacity = 1` is
  the default.
* *Guests*: two restores, because the second's report and the first's task may overlap; two changes
  of the guest, because one that was removed and made again is not the one that was seen.
  The VMID is free, or held by a guest of either type, at the start of the scenarios that change the guest or the storage, and held by one of the right type where only
  an answer is lost or the archive changes.
* *Callers*: three are a probe, a straggler and one that is refused. `Threshold = 2` lets one
  failure count without opening the circuit; one read and one change stand for the others, which differ in nothing `_request` looks at.
* *Sessions*: four tokens are a family with two rotations and a second family, or three families. Three tabs of a browser share a
  cookie and not the single flight, so while one waits for its sign-in's commit, two others may use the cookie it was answered with; the second browser shares neither.
  The three tabs are interchangeable, and no property tells them apart (symmetry).
* *Log lines*: three lines overflow a sink of two; a batch of two that is put back behind one new line
  overflows it too. Chunks of one row put a write or a prune between any two rows of an export.
* *Algorithms*: job selectors over every list of three guests and every inventory; day fields of one and two
  tokens; listings of three names; two and three samples.
* *Faults*: one of each kind (two errors, so that the second hits the handler of the first). A second
  crash meets a state that the first one also meets, since a crash loses all memory and leaves only rows
  and the agent.

### Fairness

Liveness is checked under `FairSpec`, whose conjuncts say what the code's scheduling gives:

* `WF(Boot)`, `WF(Exit)`: systemd restarts a process that died (`Restart=on-failure`), whoever stopped one starts it
  again, and `stop()` bounds its wait;
* `WF(Executor)`, `WF(Recover)`: the event loop runs a coroutine that can go on, and each request of the
  agent client has a timeout;
* `SF(Worker)`, `SF(Recover)` in `RestoreFlow` and `SyncQueue`: there the step needs the guard, which
  is not continuously free; `asyncio.Lock` serves its waiters first come, first served;
* `WF` of the second half of a handler: it waits only for requests with a timeout;
* `WF` of the end of a task, for each task: the agent runs each tool under a timeout;
* `WF` of each execution in `AgentTasks`, of the exit of a child that was terminated (SIGKILL follows SIGTERM) and of
  `Load`: systemd starts the agent again. A child left alone may run for ever; it is the timeout that ends it;
* `WF(Elapses)`, `WF` of each call in `AgentLink` (each attempt has a timeout) and of `Ask` by somebody: the storage
  sampler calls as long as the process runs;
* `WF(Writer)`, `WF(Boot)`, `WF(Exit)` in `LogPipeline`, as above;
* `WF(Worker)` in `Outbox`: its steps need no lock, and its loop polls;
* `WF(Elapse)`: time passes, so a confirmation window closes and a backoff elapses.

`RestoreTarget`, `Sessions`, `Retention` and `Scheduler` are checked for safety only. Not assumed: that a request
arrives, that an answer arrives, that a transfer ever succeeds, that
Telegram ever delivers, that an operator does anything, that a task is cancelled when asked.

## 5. The proofs

Eight modules hold the theorems about the eleven components that have a model of their own: `BackupRunnerProofs`, `SyncQueueProofs`,
`RetentionProofs`, `SessionsProofs`, `LogProofs`; `RestoreProofs` for `RestoreFlow` and `RestoreTarget`; `AgentProofs` for `AgentTasks` and `AgentLink`;
`ServiceProofs` for `Outbox` and `Scheduler`, which share the facts about the least and the greatest of a set of numbers. Two specifications that one
module extends have different names for their parts, hence `ScheduleSpec`, `TargetSpec`, `LinkSpec` and the like. Each theorem is about every value of the
constants: every number of runs, guests, restores, backups, tasks, rows and callers, every budget of requests and
faults. All proofs have one form: an inductive invariant that names what the code relies on between two
steps, `Init => I`, one step for each action (or for each kind of effect an action can have on a
part of the state), and the properties from `I`. TLC checks those invariants in the run
of their module too; only that of the export (`Shown`, in `LogProofs`) is proved and not run.

What the constants must satisfy is named beside their declaration, as an `ASSUME` that TLC evaluates for
each instance: ids are numbers, since rows are taken in the order of their ids (`RunsAssumption`, `RestoresAssumption`,
`RestoreIdsAssumption`, `TasksAssumption`, `BackupsAssumption`, `JobsAssumption`); `None` (`Nothing`, `NoCall`, `Unset`) is none of the values it stands beside
(`NoneAssumption`, `NothingAssumption`, `NoCallAssumption`, `UnsetAssumption`, `KeysAssumption`); a plan names no guest twice
(`TargetsAssumption`, which `assert_distinct_vmids` and a uniqueness constraint ensure); each restore names a backup and each backup
a guest (`SourceAssumption`, `GuestAssumption`); numbers of attempts, retries, rows and slots are natural
numbers, positive where the settings demand it (`AttemptsAssumption`, `RetriesAssumption`, `SizesAssumption`, `CapacityAssumption`,
`BreakerAssumption`, `TimesAssumption`); a cron expression recurs (`CronsAssumption`) and every job has one (`TablesAssumption`); an event of `Outbox` that happens
once is no alert (`KeysAssumption`); a restore alone
stops its guest first (`AskedAssumption`); policies keep at least one local copy (`PoliciesAssumption`, as
`RetentionSettings` demands), and a run that says where its counts come from says so in a known way (`RunAssumption`).
No theorem assumes more.

### `BackupRunner`

| Theorem | States |
|---|---|
| `TypeCorrect` | `Spec => []TypeOK` |
| `Invariance` | `Spec => []IInv` |
| `OneVzdump` | `Spec => []AtMostOneVzdump` |
| `NoUnrecordedVzdump` | `Spec => []RowBeforeVzdump` |
| `Honesty` | `Spec => []VerdictIsHonest` |
| `QueueInvariance`, `Consistency` | `Spec => []QueueInv`, `Spec => []Consistent`, which is both |
| `OneAtATime` | `Spec => []Serialised` |
| `CancelWins` | `Spec => []HeardCancelWins` |
| `AddsUp` | `Spec => []RunAddsUp` |
| `StaysEnded` | `Spec => NotReopened` |
| `Finality` | `Spec => VerdictsAreFinal` |
| `Implements` | `Spec => KeepsPromise`, the refinement of `BackupPromise` |

*At most one vzdump.* `AtMostOneVzdump` is not inductive: a second vzdump needs a second request for the same
pair, and what excludes it is spread over the plan, the row and the registers of the executor.
`IInv` says where:

* `RequestsAccounted`: a request was sent only for a row that is there, and the host has dumped a
  guest exactly once if it accepted the request and never otherwise;
* `PlanIsCurrent`: of the guests the loop has yet to reach, those the plan calls done are skipped,
  those it would adopt are running *with a stored task*, and the others have no row yet;
* `GuestInHand`: at each place of the code, the row of the guest in hand is what that place relies on
  (before the request is sent, no request was sent; while polling, the task is stored);
* `NobodyResumes`: a row that is running without a stored task, the one state in which nobody can tell
  whether vzdump was started, is in the executor's hand, about to be closed by recovery, or in a
  run that has ended: no plan will ever list it;
* `ScanIsRunning`: recovery closes only rows that are still running;
* `VerdictIsHonest`, which is inductive with the above: `deleted` is only said of what was a success;
* `TypeOK`, with the registers that go with each `pc`.

The lemma on recovery is where `NobodyResumes` is needed: when `RequeueRuns` ends recovery, `scan` is empty,
so every running row of a run that is queued again has a stored task. Finality and refinement then follow step by step from `IInv`.
The resumption of a crashed run, which is where a second dump would come from, is in no way
bounded here, whereas TLC sees one crash.

*The queue.* Which run is served, and what is said of it, needs a second invariant over the first, `QueueInv`:

* `RunsAndRows`: runs are made in the order of their ids, and rows are of guests of runs that were made;
* `RunInHand`: the run in hand is the oldest active one, and the only one that is `running` as long as the process goes on
  claiming (a shutdown, a death, or a worker that has ended may leave one behind for recovery);
* `RowsInOrder`: the rows of a run are opened in the order of its plan, each when those before it are closed, unless a shutdown makes the loop pass over one;
* `RunningRowsFirst`: a running row of an active run belongs to the oldest active one, which is why two runs never have one each;
* `HeardIsKept`: a cancel that reached the executor is in `cancelled` until the end of its run is decided, and decides it, or the process will not give it
  one. A cancel that arrives between the decision and its commit (`acked` is then `"late"`) is dropped with the commit; nothing is claimed of it.

`Serialised` says that one row is running among the active runs; a vzdump that outlives its row (closed as `interrupted`) is not counted, so two dumps may overlap on the host. `RunAddsUp` compares the counters of a run with the cardinality
of the set of its rows; a row that turned from `success` to `deleted` is still counted as a success, as the code never takes it out of `guest_succeeded`. Its proof carries finiteness along (a plan has finitely many guests), shows that finalising decides
from the rows as they are (`EndingIsEarned` carries the decision to its commit), and, for `success`, that a set of winners as large as the plan is the whole plan.

### `RestoreFlow`

| Theorem | States |
|---|---|
| `TypeCorrect`, `Invariance` | `Spec => []TypeOK`, `Spec => []IInv` |
| `OneRebuild` | `Spec => []RestoredOnce` |
| `Serialised` | `Spec => []OneAuthorised` |
| `SourceStays` | `Spec => []LocalSourceThere` |
| `FetchTracked` | `Spec => []FetchedIsTracked` |
| `FailureIsKnown` | `Spec => []FailedIsKnown` |
| `NothingTaken` | `Spec => NamedArchiveKept` |
| `Finality` | `Spec => OutcomesAreFinal` |
| `Implements` | `Spec => KeepsPromise`, the refinement of `RestorePromise` |

The argument has two halves. *What a handler read is still so when it commits*: a confirmation, a
cancellation and a deletion each look, await the agent and write. `HandlerIsCurrent` (the row a handler is about
to write is still as it read it; for a confirmation, no restore is in flight either) and `DeletionIsOfUnnamed` (no open
restore names the copy that a deletion is about to take) survive because every action that could
falsify them needs `Free`, which is false while a handler or a deletion is under way. From them follow
`OneInFlight`, `LocalSourceThere` and `NamedArchiveKept`, which both except the deletions in `strays`: the guard is free while those go on, and nothing
protects an archive from them. *The worker, its row and the host agree*:
`RequestsAccounted` (no request was sent before the claim, and qmrestore was started
exactly once if its request was accepted, never otherwise), `RestoreInHand` (at each place of the worker, its row is what that place
relies on), `RowInHand` (nobody else decides it), and `ResumeIsRunning` (recovery hands over running rows
with a stored task, and, since only one restore is in flight, at most one). `FailedIsKnown` is inductive
with these. The halves meet in recovery: that it hands over at most one row follows from `OneInFlight`.
`FetchedIsTracked` joins both: the archive that a download brought is named by the restore in hand, so no deletion
lane takes it before the worker has recorded it.

### `AgentTasks`

| Theorem | States |
|---|---|
| `Invariance` | `Spec => []IInv`: `SlotsExact`, `OpenMeansRunning`, `SuccessIsReal`, `CancelHeard` |
| `VerdictsStand` | `Spec => VerdictStands` |

`SlotsExact` equates a counter with the number of executions of a kind, so the proof first shows that the executions of any moment
are finitely many (as many as the counters say) and then that a start adds one to the set and to the counter alike, an end takes one
from each, and nothing else moves either; a death empties both. `Stages` says what is known of the command at each place of an
execution: past the main command it has ended well, which is the whole of `SuccessIsReal`. `CancelReachesMain` is what makes `CancelHeard` true:
a handle exists only while the main command runs, so a cancel answered with success has hit it there,
and the end of such a command is never read as a success. The proof sorts the steps of the executions under three heads
(`Executes`): one begins, one goes on with its next command, one ends with a state. `VerdictsStand` then needs only
to look at what a death loses and what `Load` reads back.

### `AgentLink`

`LinkInvariance` (`LinkSpec => []LinkInv`) has every call under four kinds of effect: it is let through or refused, goes
on, is retried, ends and tells the breaker, or is broken off and tells it nothing. `ProbeIsOut` is not inductive: that the
half-open flag is up only while a probe is out, or for one that was broken off (`abandoned`), needs the probe to be *the* call the flag was raised for, which is `ProbeIsKnown`, and
is false as soon as a straggler has lowered the flag (`strayed`). `ToldTheTruth` needs `SentOnce`: a change is not retried, so what was
executed of it is what its one attempt shows.

### `SyncQueue`

| Theorem | States |
|---|---|
| `Invariance` | `Spec => []IInv` |
| `UploadsAreThere` | `Spec => []UploadedIsThere` |
| `Consistency` | `Spec => []Consistent`: `AttemptsBounded` |
| `Implements` | `Spec => KeepsLedger`, the refinement of `CopyLedger` |

`uploaded` is written in two places, by the worker after a transfer and by a verification, each some awaits after the
agent was asked. Between, the copy may be deleted; `Arrived` (it is there, or was and has been taken) never
becomes false again, so it is enough to carry it from the answer to the write: in `Registers` for the worker
(`result = "success"`), in `HandlerIsCurrent` for a verification that found a match. `DeletionIsOfUploaded` holds because
retention reads and deletes under the guard and `upload_status` is written under it. The steps are sorted by what they do to rows, files,
slot, lanes and registers, so that each part of the invariant is proved against a handful of effects. `AttemptsBounded` needs
`AttemptsLeft`: whoever may still claim finds an attempt left. The bound is `MaxAttempts`, but two where
that is one: `upload_retry` may be 0 (`settings.py:70`), and a retry by hand, which starts the count at one, is claimed for a second attempt of one.

### `Outbox`

| Theorem | States |
|---|---|
| `Invariance` | `Spec => []Consistent`: `ClaimIsCurrent`, `AttemptsBounded` |
| `Deliveries` | `Spec => []DeliveriesAccounted` |
| `MessagesOnce` | `Spec => []ToldOnce` |
| `Alarms` | `Spec => []AlarmWasRaised` |

No lock is taken here, and `ClaimIsCurrent` survives because a row with a claim is `pending`, which `resend` refuses to touch. It may have read the row before,
though, and be committed after another request has queued it (`ResendLate`): such a request cannot disturb the claim, but may take back the attempt it was
charged. The second conjunct, that requests which nobody has overtaken are of settled rows, is what tells the two apart. `AttemptsLeft`
is what bounds the attempts: a row that may be claimed has one left, of the budget, for a death of the process or for an overtaken request; each crash raises the bound
by one and excuses one row, the one in hand; an overtaken request raises it for the row it queues again. `RowsInOrder` gives the next free row: new rows are the least numbers not yet
used (`LeastOf`: a finite set of numbers has a least element, from the well-foundedness of strict inclusion, as
induction is not available). `OneRowPerOccurrence` and `NoStorm` follow from the look-up being in the transaction of the insert.
`AlarmWasRaised` compares what the latest snapshot was judged to be with the ranks of messages: a sample is stored with its alert, and a rising
level that raises no message of its own finds one of its rank within the window. The next pass judges that snapshot anew; where it comes out
worse than before, no alert is raised and no message need exist (`silent`), and where it does not, the message that spoke for it speaks for the new one.

### `Retention`

| Theorem | States |
|---|---|
| `Invariance` | `Spec => []Consistent`: `QuietMeansClean` |
| `KeepsPolicy` | `Spec => PolicyKept` |

`PolicyKept` is about the moment of a deletion, `QuietMeansClean` about its absence. The first needs that the copy in hand is still one
the classification would delete (`PassIsCurrent`): what happens between `Revalidate` and the deletion is the work of
actions that need the guard, which the pass has. What the classification promises is a counting
argument (`EnoughKept`): of the ranked copies those outside the plan include the `keep` newest, a set of exactly that size
exists in a finite set with as many (`TopOf`), and all of it is newer than the copy in hand. The second needs
`NothingOverlooked`: unless the process is down or a sweep is due, a guest that is not clean has a pass
in hand or coming (`Due`): a trigger that is pending or in the batch and not yet processed, or a timer. Each change of a copy is shown to ring, to leave the
plan empty, or to be one of the changes that nobody announces (`lapsed`); a pass that ends is shown to have had every copy of the plan before it,
or to have set a timer, or to have spent its retries (`GaveUp`). `RecordsAgree` gives the order of the backups, by which the newest is found.

### `RestoreTarget`

| Theorem | States |
|---|---|
| `TargetInvariance` | `TargetSpec => []Consistent`: `VerdictIsTrue` |
| `NoIdleRefusal` | `TargetSpec => []RefusalIsNews` |
| `TouchedAsConfirmed` | `TargetSpec => TouchesAsConfirmed` |

The report of the dashboard may be as old as it likes; what protects the guest is what the agent itself relies on. `DoneByPhase` says, for each
stage of a request and its task, what has been done by then: nothing to the guest before the task, the archive looked at before anything is
touched (or a misfiled digest trusted), nobody stopped who was not seen and asked for. `PhaseIsRows` ties the stages to the rows (the agent works on what was claimed, one
restore is in flight), so whatever is touched is touched for a row that is `running` or `interrupted`. `SidecarIsRight` is how far a cached digest can be trusted:
it vouches for a damaged archive only if it is `misfiled`, written after the archive had been rewritten under the hand that hashed it
(and see [section 6](#6-where-code-and-documentation-part), 3); of an intact archive no other digest is ever found, so that it is not refused. `StillAccepted` is the other direction: while nothing has changed since the
confirmation, the guest passes each of the agent's checks, and the slot is free, since nobody else is claimed.

### `Scheduler`

| Theorem | States |
|---|---|
| `ScheduleInvariance` | `ScheduleSpec => []ScheduleInv` |
| `TimersAgree` | `ScheduleSpec => []TimersMatchTable` |
| `RunsOnce` | `ScheduleSpec => []OneRunPerWindow` |
| `Remembered` | `ScheduleSpec => []NothingForgotten` |

A firing lives in four places, and only one of them at a time may decide on it: a timer, a call of `_fire`, the list of missed schedules, and
`next_run_at`. `Windows` orders them: a timer, and `next_run_at` too where the window was not crossed, is *past* each window that a
run was started for; a timer is past each window that a call or the list has in hand, the list is behind the calls, and no two calls have one window. So a second
run needs a second owner, and there is none. The difficulty is `sync_jobs`, which reads `next_run_at`, awaits, and writes what it read: `Windows` therefore
speaks of the plan as it speaks of the column, and a window that passes between the two is `crossed`, the exception that both properties name.
`Decided` is the other direction: whoever lets go of an open window (a firing that returns, a list worked off, a timer replaced, a process that dies) has decided on it
or leaves it to the next owner; `Owned` lists who that can be. A death leaves to the next start what `next_run_at` still says. `Follows`
says of the timers what `TimersMatchTable` does, also while a resync has read the table and not yet registered. `Phases` bounds what is there at each stage of `start`.

### `LogPipeline`

| Theorem | States |
|---|---|
| `LogInvariance` | `Spec => []IInv`: `Conserved`, `DropsCounted`, `OrderKept`, `OwnLines` |
| `ExportExact` | `Spec => []ExportIsExact` |

The proof moves lines between sequences: the sink, the batch and the table. A line is captured at the end of the sink,
leaves it at the front or for the batch, comes back in
front, or goes from the batch to the table; lemmas on each of these movements say what becomes of the set of elements
and of the order, and `LogInvariance` is a choice among them
for each action. `OwnLines` is what the other parts were missing. A dead process leaves an empty sink, and what is held
was captured by the process that holds it (`born`): without
it `DropsCounted` would count the drops of a predecessor. And of a batch whose commit was taken for a failure, all of it
is held still or everything held is newer: without it
`OrderKept` would not survive the writing of what came after. `ExportExact` needs `Shown`: of the rows that were there when the export began and were not pruned,
each has been shown or is still to come (`ToCome`, the rows below the last one shown): a chunk takes the newest of those, so what it leaves is below all it took,
and what is appended meanwhile is above the cursor.

### `Sessions`

| Theorem | States |
|---|---|
| `Invariance` | `Spec => []IInv`: `OneLive` and what it rests on |
| `NoRevival` | `Spec => []EndedStaysEnded` |
| `SessionIsKept` | `Spec => []SessionLasts` |

A request is decided in one step, written in another and answered in a third, in either order of the last two, so the invariant says
of each request under way what its decision still rests on. `PlansFit`: what was read of a row is still so, for a row's family never
changes. `NumbersAreFresh`: the token being issued is nobody's, so a commit makes a row where there was none; `OneHolder`: nobody else's
browser has seen it. `RotatesTheLiveOne` is the step that makes `OneLive` hold: of a family that was not disturbed at most
one rotation is under way, and it presents the one live token, for a second request with that token is seen when it is sent
(`UsedOnce`). `LateIsKnown` is what `EndedStaysEnded` needs: a token issued after its session ended is one whose request was overtaken
(`stale`), or descends from one; the two are proved by one induction, since a rotation hands on the password of
its predecessor. `CookieIsGood` follows a cookie through every order of commit and answer: its row is still to be written by a request that has
answered, was rolled back, holds, or was rotated by a request that has yet to answer; when the browser's requests are over, only the
cases remain that `SessionLasts` allows.

### Only model-checked

Liveness under fairness (`EveryRunSettles`, `EveryRestoreSettles`, `EveryUploadSettles`, `EveryMessageEnds`, `EveryTaskEnds`, `EveryLineSettles`,
`CircuitCloses`) and `ENABLED` are beyond the prover. So is induction over data: the algorithms (`RunTargets`, `CronDays`,
`Reports`, `ResolvePolicy` against its reference) are evaluated over bounded inputs. Every other
property of a passing run is stated by a theorem.

## 6. Where code and documentation part

`backup_stop` states what a comment of the repository says, and TLC shows a behaviour of the code that
contradicts it. The cases after it were met while modelling; the models have them, as behaviours or as named
exemptions in a property, and no run is spent on them.

1. `backup_stop`. `backup_runner.py:240-241`: "Leave the run `running`: recovery re-queues it and
   picks up where we left off." When the shutdown interrupts the poll of the *last* guest, the loop has
   no further iteration, falls through to `_finalise_run` and gives the run a verdict while the row is
   running. The next start adopts the row's outcome if the task has ended by then; otherwise the row
   stays running, since its run is not queued again.
2. A cancel during the claim. `backup_runner.py:674-675` says of a cancel: "guests not yet started are simply never started." A run is
   `running`, and a cancel of it acknowledged, from its claim on; when `_load_plan` returns, `_execute_run` clears the flag (227), and
   all guests are started. `BackupRunner` tells such a cancel ("early") from one that is heard.
3. Digests. `docs/API.md:549-550` says of `expected_sha256`: "when present the agent verifies the artifact's digest and
   refuses the restore on a mismatch, before any process is spawned", and so does `services/restore_service.py:416-417`.
   `compute_digest` hashes the archive and writes the `.sha256` beside it in two awaits (`agent: executors/checksum.py:91-92`). An archive rewritten in
   between gets a newer sidecar of the bytes it had, and the next restore trusts that (`read_cached`) without looking.
   Damage that leaves the modification time alone goes unseen as well; no run shows that, as `ArchiveChanges` damages an archive by rewriting it.
4. A lost answer. `backup_runner.py:12-14`: "Where the outcome is unknown - the agent was
   restarted, or stopped answering - the row is recorded as `interrupted` and left for a human". A lost
   answer to `POST /backup/start` is recorded as `failed`, and the archive appears on the host unlisted.
5. A copy sent again. `services/backup_service.py:317-319`: "Keeping an uploaded remote copy visible is
   essential: restore and remote retention must still be able to find it". `_record_success`
   (`sync_worker.py:343`) does not clear `remote_deleted_at`, so a copy that was deleted by retention and sent again stays
   recorded as deleted.
6. Catch-up. `workers/scheduler.py:11-13`: "A schedule missed inside the grace window runs
   immediately; one missed beyond it is skipped", and `:250-251`: "only this one firing is forgone".
   `next_run_at` is the first firing that was missed, and only its age is compared with the grace. After
   a downtime over two firings, the second is skipped with the first although it was missed a moment ago:
   with the default grace of an hour, an hourly schedule loses the 02:00 firing in a downtime from 00:30 to 02:45.
7. The sink. `core/log_sink.py:10-14` and `workers/log_writer.py:8-12` say that a full sink drops its oldest line
   and counts it. A batch that `restore()` puts in front of a full one pushes out the *newest* lines, uncounted
   ("pushed out" in `LogPipeline`).
8. The probe. `clients/circuit_breaker.py:46` and `tests/test_core_security.py:315` speak of one probe at a time. A call let through before
   the circuit opened that ends while a probe is out clears the flag, and a second probe follows
   (`strayed` in `AgentLink`).
9. Reuse. `services/auth_service.py:10-11` and `:214` take a revoked token for a sign of theft. It may be one that
   a second tab presented at once, or a retry after a lost answer: both burn the family (`disturbed` in
   `Sessions`).
10. Starting a restored guest. `agent: services/restore_service.py` calls a failure to start it "reported, not fatal". An
   exception there (a log that cannot be written, a spawn that fails) makes the task `failed` although the guest was
   rebuilt (`StartGuest`, `TaskFails` in `RestoreTarget`).

## 7. Known deviations that no run states

The models have these behaviours, or name them as exemptions in a property, unless the text says that they are left
out. No line of the repository promises otherwise clearly enough to quote.

* *Runs.* A cancel acknowledged after `_finalise_run` has looked for one and before its commit is dropped, and the run ends as it was decided
  (`acked` is then `"late"`; `HeardCancelWins` speaks of `"heard"` only). A
  cancel of a queued run and its claim overwrite each other (`CancelQueued`, `ClaimWrite`): a run that was recorded as cancelled is then
  executed, the exception in `NotReopened`; a cancel that read the run as queued may also overwrite the verdict of a run that has been executed meanwhile. A row that became `deleted` before the end of its run was decided is not a success
  for `summarise_run`, though `guest_succeeded` counts it. A second
  exception while the first is recorded ends the worker until the process restarts (`WorkerDies`, in
  all three workers); no error is in the budget of the liveness run of restores or of runs for
  that reason.
* *Restores.* A deletion may outlive its call: the dashboard waits 30 seconds for the agent (`core/config.py:109`), the agent 60 for rclone
  (`agent: services/sync_service.py:397`), and a killed dashboard for nothing at all. The guard is free then, a restore of the archive is accepted, and its source goes
  (`StrayDeletes`); what becomes of the restore depends on whether the agent has opened the archive by then. A download whose answer is lost, or a crash between its end and `_mark_local_copy_present`,
  leaves an archive on the host that no row records (`FetchedIsTracked` speaks of the row that is being
  restored). After a restore was closed as `interrupted` its archive may be deleted, although the host
  may still be reading it.
* *Uploads.* A transfer that is cancelled while in progress comes back to the worker as one that did not
  succeed, and `_record_failure` queues it again while attempts are left. `enqueue_pending` reads and inserts without the guard, so a backup can be queued twice; the
  second transfer finds the copy there. A row can be left `uploading` after a cancel followed by a crash
  (`Abandoned` in `EveryUploadSettles`). A verification that finds a difference while a transfer runs is
  overwritten by it. A pending upload whose local archive an operator deletes never gets a verdict. After
  a dashboard crash the agent's rclone keeps its slot; the transfer that recovery queues again is
  refused, and charged an attempt, until it ends.
* *Retention* is not told when a restore ends or a download brings a local copy back, nor when a transfer is
  retried or cancelled by hand or a second one starts (`routes/sync.py:176-212`, `sync_worker.py:252`; an upload by hand and a verification do
  tell it): what has become excess waits for the next event (`lapsed` in `QuietMeansClean`). A retry by hand takes
  `uploaded` from a row of which Drive holds the only copy: until it ends, and for good if it fails for want of a
  local archive, retention and restore do not count that copy. A pass that deletes the last copy of its
  own trigger leaves the policy of the then newest backup unevaluated (also `lapsed`). A newest backup
  whose upload is outstanding keeps the pass from being announced until then (`Uploading`). Retries that
  are spent end in a recorded error (`GaveUp`). With two triggers of a guest in one batch, the second is found
  to be processed and `_clear_retry` drops the retry that the failed pass of the first has just scheduled
  (`retention_worker.py:267-269`; `docs/API.md:192` speaks of "a bounded delayed retry"); the model counts
  that as `lapsed`. A deletion whose answer is lost leaves a row that still
  counts as a copy; newer copies can be deleted on its account, so `PolicyKept` is a statement about
  rows. With `keep_remote = 0` the last remote copy is deleted also if the operator has deleted the
  local one.
* *Notifications.* `resend` tests the status of a row and its request commits later. Of two such requests the second may therefore queue a
  message that the first has queued and the worker has sent, or is sending (`ResendLate`): it is sent twice, as it was asked for twice, and a claim
  may find its attempt taken back (`doubled`). The sampler judges the snapshot before by the lines of today
  (`storage_sampler.py:165`): when `storage_warning_percent` is lowered under the fill of the disk, no alarm is raised until the disk crosses
  another line (`silent` in `AlarmWasRaised`; `docs/API.md:394` speaks of "an upward transition", which leaves open whose). A message withheld on account of a pending one stays withheld when that one fails
  (`docs/API.md:404` says that a predecessor that failed does not suppress, which is so only if it
  failed first). `failed` can be recorded of a message that was delivered, if the answer to the last
  attempt was lost. Each death of the process with a message in hand grants one attempt more
  than `max_attempts`. An upload that is retried by hand and given up again is not announced again: the
  key of the first announcement is taken.
* *Schedules.* A crash between the rebuild at the start and the catch-up loses the firings that were to be
  made up for, since `next_run_at` has moved on; so does a failing catch-up, which ends the start.
  A resync that comes while another is at work is dropped (APScheduler's `max_instances`), and one that fails
  is not repeated: the timers stay those of the older table until the next edit (`behind` in `TimersMatchTable`).
  A firing whose instant comes while the timers are being rebuilt can be lost, or be made twice if a crash
  follows, because the rebuild writes a `next_run_at` it computed before (`crossed`). A firing
  writes `next_run_at` from the expression it read, also if an edit was committed meanwhile; a refused one
  leaves it in the past, so that a restart within the grace tries it again. "Run now" and a firing, or two
  presses, can both find no active run and start two.
  In the day-of-week field `0-7` selects Sunday alone, and in crontab the whole week: 7 is folded into 0
  before the range is read (`CronDays`).
* *Guests.* A confirmation given while the VMID was free, with overwriting allowed, destroys a guest that was
  created later and that no report has shown (`TouchesAsConfirmed` asks for the flag, not for the sight). The
  inventory never deletes a row, so a guest that was removed still blocks a restore without overwriting, which is the safe
  direction. Hashing a large archive may outlast the client's timeout: the restore is then `interrupted` and goes on
  (`GiveUp`). The agent's allow-lists of VMIDs and storages are unknown to the preflight; `RestoreTarget` has none configured, and
  lets the agent see the storages as they are, though it caches the list for 30 seconds.
* *The link.* A probe that ends in an exception other than `httpx.HTTPError`, or is cancelled, leaves `_half_open_in_flight` up (`agent_client.py:169-207`). An
  `X-Correlation-ID` that a header cannot hold is copied into the request at 142-144 and is one. Every call is then refused as paused, for
  zero seconds, until a call let through before the circuit opened ends, or the dashboard restarts (`abandoned` in `ProbeIsOut` and `CircuitCloses`).
* *Agent.* An orderly stop terminates the children before the process, so a task may be `failed` instead of
  `interrupted`; `AgentTasks` has the death, which is what its journal must survive.
* *Sessions.* A logout, a revocation or a password change that races a refresh leaves the token that the refresh
  issues (`late`). A sign-in that renews a weak hash writes it over a password change committed
  since it read the user (`undone`). `revoked_reason` is written and never read. Nothing calls `purge_expired`.
* *Storage.* `StorageSampler._sync_disk_artifacts` never runs: it looks for `list_artifacts` on the agent client, which has none.

## 8. What is not modelled

* *Not yet*: the composition `Copies` (see the [plan](#2-plan)); the lockout after failed sign-ins and the rate
  limits, which are counters in memory and in a row.
* *Event bus*: hints for the pages. A subscriber's queue drops its oldest event when it is full, and a page
  that missed one is stale until it next asks; no worker depends on an event.
* *Stateless checks* (agent security, path and remote allow-lists, HMAC): decisions about one request.
* *Parsing* (progress of vzdump and rclone, listings of pvesm): what an execution can
  answer is nondeterministic in the modules that use it.
* *Settings, schema, dashboard and health pages*: stored or derived data without a protocol; the
  settings that matter are constants (`MaxAttempts`, `Policies`).
* *Deployment scripts, web pages*: no state of their own, apart from the single-flight token refresh
  in `Sessions`.
* Within the modelled parts: logging, progress events, the wording of errors and notifications, rate
  limits, previews, and timeouts as durations (a timeout may happen whenever it can).
