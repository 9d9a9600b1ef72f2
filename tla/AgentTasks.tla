----------------------------- MODULE AgentTasks -----------------------------
(***************************************************************************)
(* The agent's side of every long operation: the registry of tasks and its *)
(* journal (tasks/registry.py), the slots (core/concurrency.py), the child *)
(* processes, their timeouts and their cancellation (executors/base.py),   *)
(* and the three services that run a backup, a restore or a transfer in    *)
(* the background (services/backup_service.py, restore_service.py,         *)
(* sync_service.py).                                                       *)
(*                                                                         *)
(* The process dies as systemd makes it die: its children go with it       *)
(* (KillMode=control-group), and the next one starts from the journal.     *)
(***************************************************************************)
EXTENDS Naturals, FiniteSets

CONSTANTS
    Tasks,      \* the tasks, numbered as create() makes them
    Asked,      \* what may be asked for
    Capacity,   \* max_concurrent_backups, _restores and _syncs
    None,
    Budgets     \* scenarios: how often each kind of event may happen in a behaviour

Kinds == {"backup", "restore", "sync"}

\* What a task was asked to do.  `before`: the target guest is stopped first; `after`:
\* there is work after the command: a checksum, a guest to start, a copy to verify.
Works == [kind : Kinds, before : BOOLEAN, after : BOOLEAN]

ASSUME TasksAssumption == Tasks \subseteq Nat

ASSUME AskedAssumption == Asked \subseteq {w \in Works : w.before => w.kind = "restore"}

ASSUME CapacityAssumption == Capacity \in [Kinds -> Nat \ {0}]

\* journal: a write of the journal fails; unreadable: a file of it cannot be read at a
\* start; fault: an exception in a run (a log that cannot be written, a spawn that
\* fails); death: of the agent's process; cancel: a request; age: the retention window
\* passes.
Events == {"journal", "unreadable", "fault", "death", "cancel", "age"}

ASSUME BudgetAssumption == Budgets \subseteq [Events -> Nat]

Open    == {"queued", "running"}
Final   == {"success", "failed", "cancelled", "interrupted"}

ASSUME NoneAssumption == None \notin Open \cup Final \cup Works

VARIABLES
    up,         \* the process runs
    task,       \* _tasks: the state of each, None for an id it does not know
    journal,    \* state_dir/tasks/<id>.json: the state in it, None without a file
    old,        \* the tasks whose file says they ended before the retention window
    work,       \* history: what each task was asked to do, None if never accepted
    inUse,      \* the slots taken, by kind
    pc,         \* where the execution of each task is
    proc,       \* its child: none, alive, dead, or reaped (returncode is set)
    code,       \* how the child ended: ok or bad
    cause,      \* why the child is being terminated: a timeout, or an exception
    handle,     \* the ProcessHandle: none, made, attached, cancelled
    ending,     \* the tasks a cancel request is waiting for
    heard,      \* history: the tasks whose cancel was answered with success
    complete,   \* history: the tasks whose own command ended well
    matched,    \* history: the transfers whose verification agreed
    left        \* what is left of the scenario's budget

registryVars == <<task, journal, old>>
childVars    == <<proc, code, cause>>
histVars     == <<work, heard, complete, matched>>
vars == <<up, registryVars, inUse, pc, childVars, handle, ending, histVars, left>>

\* What a step costs of the budget.
Pay(es) ==
    /\ \A e \in es : left[e] > 0
    /\ left' = [e \in Events |-> IF e \in es THEN left[e] - 1 ELSE left[e]]

Init ==
    /\ up = TRUE
    /\ task = [t \in Tasks |-> None] /\ journal = [t \in Tasks |-> None] /\ old = {}
    /\ work = [t \in Tasks |-> None] /\ inUse = [k \in Kinds |-> 0]
    /\ pc = [t \in Tasks |-> "none"] /\ proc = [t \in Tasks |-> "none"]
    /\ code = [t \in Tasks |-> "ok"] /\ cause = [t \in Tasks |-> "none"]
    /\ handle = [t \in Tasks |-> "none"] /\ ending = {}
    /\ heard = {} /\ complete = {} /\ matched = {}
    /\ left \in Budgets

\* _persist: the state reaches the journal whole, or, if the write fails, not at all.
Persist(t, s, es) ==
    \/ journal' = [journal EXCEPT ![t] = s] /\ Pay(es)
    \/ UNCHANGED journal /\ Pay(es \cup {"journal"})

-----------------------------------------------------------------------------
(***************************************************************************)
(* A request is validated and takes a slot or is refused; the execution    *)
(* runs in the background.                                                 *)
(***************************************************************************)
\* try_acquire and create, in one step of the event loop.
Accept(t, w) ==
    /\ up /\ work[t] = None /\ \A s \in Tasks : s < t => work[s] # None
    /\ inUse[w.kind] < Capacity[w.kind]
    /\ inUse' = [inUse EXCEPT ![w.kind] = @ + 1]
    /\ work' = [work EXCEPT ![t] = w]
    /\ task' = [task EXCEPT ![t] = "queued"] /\ Persist(t, "queued", {})
    /\ pc' = [pc EXCEPT ![t] = "scheduled"]
    /\ UNCHANGED <<up, old, childVars, handle, ending, heard, complete, matched>>

StartBackup(t)   == \E w \in Asked : w.kind = "backup" /\ Accept(t, w)
StartRestore(t)  == \E w \in Asked : w.kind = "restore" /\ Accept(t, w)
StartTransfer(t) == \E w \in Asked : w.kind = "sync" /\ Accept(t, w)

\* attach_handle and mark_running, up to the first process to be spawned.
Begin(t) ==
    /\ pc[t] = "scheduled"
    /\ handle' = [handle EXCEPT ![t] = "made"]
    /\ task' = [task EXCEPT ![t] = "running"] /\ Persist(t, "running", {})
    /\ pc' = [pc EXCEPT ![t] = IF work[t].before THEN "stopper" ELSE "main"]
    /\ UNCHANGED <<up, old, inUse, childVars, ending, histVars>>

\* finish(), and the slot given back as the execution leaves its try block.
Finish(t, s, es) ==
    /\ task' = [task EXCEPT ![t] = s] /\ Persist(t, s, es)
    /\ handle' = [handle EXCEPT ![t] = "none"]
    /\ inUse' = [inUse EXCEPT ![work[t].kind] = @ - 1]
    /\ pc' = [pc EXCEPT ![t] = "done"]
    /\ UNCHANGED <<up, old, ending, work, heard, complete>>

-----------------------------------------------------------------------------
(***************************************************************************)
(* run_logged: one child in a session of its own, followed until its       *)
(* output ends and it is reaped.  Only the command itself has the handle:  *)
(* the processes that stop and start a guest cannot be cancelled.          *)
(***************************************************************************)
Commands == {"stopper", "main", "starter"}

Spawn(t) ==
    /\ pc[t] \in Commands /\ proc[t] = "none"
    /\ proc' = [proc EXCEPT ![t] = "alive"]
    /\ handle' = [handle EXCEPT ![t] = IF pc[t] = "main" THEN "attached" ELSE @]
    /\ UNCHANGED <<up, registryVars, inUse, pc, code, cause, ending, histVars, left>>

\* The log cannot be opened, or the program cannot be started.
SpawnFails(t) ==
    /\ pc[t] \in Commands /\ proc[t] = "none"
    /\ Finish(t, "failed", {"fault"})
    /\ UNCHANGED <<childVars, matched>>

\* The operating system: the child ends, well or not, and asyncio learns of it later.
ChildExits(t) ==
    /\ proc[t] = "alive"
    /\ \E c \in {"ok", "bad"} :
          /\ code' = [code EXCEPT ![t] = c]
          /\ complete' = IF pc[t] = "main" /\ c = "ok" THEN complete \cup {t} ELSE complete
    /\ proc' = [proc EXCEPT ![t] = "dead"]
    /\ UNCHANGED <<up, registryVars, inUse, pc, cause, handle, ending, work, heard,
                   matched, left>>

Reap(t) ==
    /\ proc[t] = "dead"
    /\ proc' = [proc EXCEPT ![t] = "reaped"]
    /\ UNCHANGED <<up, registryVars, inUse, pc, code, cause, handle, ending, histVars, left>>

\* The timeout fires, or a line cannot be written to the log: the process group is
\* terminated, and what follows waits for it.
Terminate(t, why, es) ==
    /\ proc[t] \in {"alive", "dead"} /\ cause[t] = "none"
    /\ cause' = [cause EXCEPT ![t] = why] /\ Pay(es)
    /\ UNCHANGED <<up, registryVars, inUse, pc, proc, code, handle, ending, histVars>>

TimesOut(t)  == Terminate(t, "timeout", {})
LogBreaks(t) == Terminate(t, "fault", {"fault"})

\* ProcessResult.ok, for a run whose handle has not been used.
Ok(t) == code[t] = "ok" /\ cause[t] = "none"

\* _execute goes on from the end of a command to the next one, or to what follows it.
Continue(t, next) ==
    /\ pc' = [pc EXCEPT ![t] = next] /\ proc' = [proc EXCEPT ![t] = "none"]
    /\ code' = [code EXCEPT ![t] = "ok"] /\ cause' = [cause EXCEPT ![t] = "none"]
    /\ UNCHANGED <<up, registryVars, inUse, handle, ending, histVars, left>>

FinishRun(t, s) ==
    /\ Finish(t, s, {}) /\ proc' = [proc EXCEPT ![t] = "none"]
    /\ code' = [code EXCEPT ![t] = "ok"] /\ cause' = [cause EXCEPT ![t] = "none"]
    /\ UNCHANGED matched

VerdictOkFirst(t) ==    \* mutant: result.ok is looked at before result.cancelled
    IF Ok(t) THEN "success" ELSE IF handle[t] = "cancelled" THEN "cancelled" ELSE "failed"

\* What _execute makes of the end of the command itself.
Verdict(t) ==
    IF handle[t] = "cancelled" THEN "cancelled" ELSE IF Ok(t) THEN "success" ELSE "failed"

\* The end of the command itself; `next`: where a success goes on.
MainEnds(t, next) ==
    /\ pc[t] = "main" /\ cause[t] # "fault"
    /\ IF Verdict(t) = "success" /\ work[t].after
       THEN Continue(t, next)
       ELSE FinishRun(t, Verdict(t))

\* run_logged raises what broke it, and the service records a failed task.
RunCrashes(t) == proc[t] = "reaped" /\ cause[t] = "fault" /\ FinishRun(t, "failed")

\* run_logged returns to the service that called it.
BackupReturned(t) ==
    proc[t] = "reaped" /\ work[t].kind = "backup" /\ MainEnds(t, "collecting")

RestoreReturned(t) ==
    /\ proc[t] = "reaped" /\ work[t].kind = "restore"
    /\ \/ /\ pc[t] = "stopper" /\ cause[t] # "fault"
          /\ IF Ok(t) THEN Continue(t, "main") ELSE FinishRun(t, "failed")
       \/ MainEnds(t, "starter")
       \* The guest is restored; that it does not start is a warning.
       \/ pc[t] = "starter" /\ cause[t] # "fault" /\ FinishRun(t, "success")

TransferReturned(t) ==
    proc[t] = "reaped" /\ work[t].kind = "sync" /\ MainEnds(t, "verifying")

\* _collect_artifact: what it cannot measure is a warning.
Collected(t) ==
    /\ pc[t] = "collecting"
    /\ Finish(t, "success", {})
    /\ UNCHANGED <<childVars, matched>>

\* What the listing of the remote shows of the copy; md5 "none": no hash published.
Listings == [there : BOOLEAN, sameSize : BOOLEAN, md5 : {"same", "other", "none"}]

Outcome(c) ==
    IF ~c.there THEN "missing_remote" ELSE IF ~c.sameSize THEN "size_mismatch"
    ELSE [same |-> "match", other |-> "hash_mismatch", none |-> "hash_unavailable"][c.md5]

\* A transfer that rclone called successful but that does not match is a failed one.
Verified(t) ==
    /\ pc[t] = "verifying"
    /\ \E c \in Listings :
          /\ Finish(t, IF Outcome(c) = "match" THEN "success" ELSE "failed", {})
          /\ matched' = IF c.there /\ c.sameSize /\ c.md5 = "same"
                        THEN matched \cup {t} ELSE matched
    /\ UNCHANGED childVars

\* An exception in what follows the command.
Crashes(t) ==
    /\ pc[t] \in {"collecting", "verifying"}
    /\ Finish(t, "failed", {"fault"})
    /\ UNCHANGED <<childVars, matched>>

-----------------------------------------------------------------------------
(***************************************************************************)
(* POST /task/{id}/cancel.  A task that has ended is refused with 422, and *)
(* one whose command is not running with 404: neither changes anything.    *)
(***************************************************************************)
Cancellable(t) ==
    /\ up /\ task[t] \in Open
    /\ handle[t] \in {"attached", "cancelled"} /\ pc[t] = "main" /\ proc[t] # "reaped"

CancelBegin(t) ==
    /\ Cancellable(t) /\ t \notin ending
    /\ handle' = [handle EXCEPT ![t] = "cancelled"]
    /\ ending' = ending \cup {t} /\ Pay({"cancel"})
    /\ UNCHANGED <<up, registryVars, inUse, pc, childVars, histVars>>

\* The process is gone: the request is answered with the task as it is by then.
CancelEnds(t) ==
    /\ t \in ending /\ ~(pc[t] = "main" /\ proc[t] \in {"alive", "dead"})
    /\ ending' = ending \ {t} /\ heard' = heard \cup {t}
    /\ UNCHANGED <<up, registryVars, inUse, pc, childVars, handle, work, complete, matched,
                   left>>

-----------------------------------------------------------------------------
(***************************************************************************)
(* The process dies and comes back: load(), then prune().                  *)
(***************************************************************************)
Dies ==
    /\ up /\ up' = FALSE /\ Pay({"death"})
    /\ task' = [t \in Tasks |-> None] /\ inUse' = [k \in Kinds |-> 0]
    /\ pc' = [t \in Tasks |-> IF pc[t] = "none" THEN "none" ELSE "done"]
    /\ proc' = [t \in Tasks |-> "none"] /\ handle' = [t \in Tasks |-> "none"]
    /\ code' = [t \in Tasks |-> "ok"] /\ cause' = [t \in Tasks |-> "none"]
    /\ ending' = {}
    /\ UNCHANGED <<journal, old, histVars>>

ReconciledMost(s) ==     \* mutant: whatever is no success is taken for interrupted
    IF s \in {"success", None} THEN s ELSE "interrupted"

Trusted(s) == s         \* mutant: load() trusts the journal

\* A task left running is reconciled: its outcome is unknown.
Reconciled(s) == IF s \in Open THEN "interrupted" ELSE s

\* unread: the files that cannot be read; unwritten: the reconciled states that cannot
\* be written.  Those read and old enough are dropped, with their files.
Load ==
    /\ ~up /\ up' = TRUE
    /\ \E unread \in SUBSET {t \in Tasks : journal[t] # None},
          unwritten \in SUBSET {t \in Tasks : journal[t] \in Open} :
          /\ Cardinality(unread) <= 1 /\ Cardinality(unwritten \ unread) <= 1
          /\ Pay((IF unread = {} THEN {} ELSE {"unreadable"})
                 \cup (IF unwritten = {} THEN {} ELSE {"journal"}))
          /\ LET read   == {t \in Tasks : journal[t] # None} \ unread
                 pruned == {t \in read \cap old : journal[t] \in Final}
             IN  /\ task' = [t \in Tasks |->
                                 IF t \in read \ pruned THEN Reconciled(journal[t]) ELSE None]
                 /\ journal' = [t \in Tasks |->
                                    CASE t \in pruned -> None
                                      [] t \in read \ (pruned \cup unwritten) ->
                                            Reconciled(journal[t])
                                      [] OTHER -> journal[t]]
                 /\ old' = old \ pruned
    /\ UNCHANGED <<inUse, pc, childVars, handle, ending, histVars>>

\* The retention window passes for everything that has ended.
Age ==
    /\ Pay({"age"})
    /\ old' = {t \in Tasks : journal[t] \in Final}
    /\ UNCHANGED <<up, task, journal, inUse, pc, childVars, handle, ending, histVars>>

-----------------------------------------------------------------------------
Execution(t) ==
    \/ Begin(t) \/ Spawn(t) \/ SpawnFails(t) \/ Reap(t) \/ TimesOut(t) \/ LogBreaks(t)
    \/ RunCrashes(t) \/ BackupReturned(t) \/ RestoreReturned(t) \/ TransferReturned(t)
    \/ Collected(t) \/ Verified(t) \/ Crashes(t)

Start(t) == StartBackup(t) \/ StartRestore(t) \/ StartTransfer(t)

Next ==
    \/ \E t \in Tasks :
          Start(t) \/ Execution(t) \/ ChildExits(t) \/ CancelBegin(t) \/ CancelEnds(t)
    \/ Dies \/ Load \/ Age

Spec == Init /\ [][Next]_vars

\* The event loop runs what is ready, a child that is terminated dies (SIGKILL follows
\* SIGTERM), and systemd starts the agent again.  A child left alone may run for ever.
KilledChildExits(t) ==
    (cause[t] # "none" \/ handle[t] = "cancelled") /\ ChildExits(t)

FairSpec ==
    /\ Spec /\ WF_vars(Load)
    /\ \A t \in Tasks :
          WF_vars(Execution(t)) /\ WF_vars(KilledChildExits(t)) /\ WF_vars(CancelEnds(t))

-----------------------------------------------------------------------------
(***************************************************************************)
(* Properties.                                                             *)
(***************************************************************************)
Running == {t \in Tasks : pc[t] \notin {"none", "done"}}

\* Every variable has its type.
TypeOK ==
    /\ up \in BOOLEAN /\ old \subseteq Tasks /\ ending \subseteq Tasks
    /\ task \in [Tasks -> Open \cup Final \cup {None}]
    /\ journal \in [Tasks -> Open \cup Final \cup {None}]
    /\ work \in [Tasks -> Works \cup {None}] /\ inUse \in [Kinds -> Nat]
    /\ pc \in [Tasks -> Commands \cup {"none", "scheduled", "collecting", "verifying", "done"}]
    /\ proc \in [Tasks -> {"none", "alive", "dead", "reaped"}]
    /\ code \in [Tasks -> {"ok", "bad"}] /\ cause \in [Tasks -> {"none", "timeout", "fault"}]
    /\ handle \in [Tasks -> {"none", "made", "attached", "cancelled"}]
    /\ heard \subseteq Tasks /\ complete \subseteq Tasks /\ matched \subseteq Tasks
    /\ left \in [Events -> Nat]

\* A slot is taken exactly by the executions of its kind that have not ended, however
\* they end; so no more of them run at once than the configuration allows.
SlotsExact ==
    \A k \in Kinds :
       /\ inUse[k] = Cardinality({t \in Running : work[t].kind = k})
       /\ inUse[k] <= Capacity[k]

\* The registry says queued or running exactly of what an execution will end; a task it
\* calls ended has no process left on the host, whatever ended it.
OpenMeansRunning ==
    \A t \in Tasks :
       /\ task[t] \in Open <=> t \in Running
       /\ proc[t] # "none" => t \in Running

\* A success, told or journalled, is of a command that ended well by itself, and of a
\* transfer whose copy matched if that was asked for.
SuccessIsReal ==
    \A t \in Tasks : "success" \in {task[t], journal[t]} =>
       /\ t \in complete
       /\ work[t].kind = "sync" /\ work[t].after => t \in matched

\* A cancel that was answered with success is not followed by one of the task.
CancelHeard == \A t \in heard : "success" \notin {task[t], journal[t]}

\* Where an execution is, and what is known of its command there.
Stages ==
    \A t \in Tasks :
       /\ work[t] = None <=> pc[t] = "none"
       /\ work[t] = None => task[t] = None /\ journal[t] = None
       /\ t \in Running => up /\ journal[t] \in Open \cup {None}
       /\ proc[t] # "none" => pc[t] \in Commands
       /\ pc[t] = "collecting" => work[t].kind = "backup"
       /\ \/ pc[t] \in {"collecting", "starter", "verifying"}
          \/ pc[t] = "main" /\ proc[t] \in {"dead", "reaped"} /\ code[t] = "ok"
          => t \in complete

\* A cancel reaches the command only, from its start to its end; who waits for one, or
\* has had an answer, is not told of a success.
CancelReachesMain ==
    \A t \in Tasks :
       /\ handle[t] \in {"attached", "cancelled"} =>
             \/ pc[t] = "main" /\ proc[t] # "none"
             \/ pc[t] \in {"collecting", "starter", "verifying"}
       /\ t \in ending \cup heard =>
             /\ work[t] # None /\ "success" \notin {task[t], journal[t]}
             /\ t \in Running => pc[t] = "main" /\ handle[t] = "cancelled"

\* An inductive invariant: a slot, an open state and a process belong to an execution,
\* and a verdict to the end of its command.
IInv == /\ TypeOK /\ SlotsExact /\ OpenMeansRunning /\ SuccessIsReal /\ CancelHeard
        /\ Stages /\ CancelReachesMain

\* What GET /task/{id} would tell if the process were up.
Told(t) == IF up THEN task[t] ELSE journal[t]

\* A verdict stands: through deaths and restarts, what was told of a task that ended is
\* told again, unless its last journal write failed.  It may only be forgotten: when the
\* retention window has passed, or while its file cannot be read.
VerdictStands ==
    [][\A t \in Tasks : Told(t) \in Final =>
          \/ Told(t)' \in {Told(t), None}
          \/ journal[t] # Told(t)]_vars

\* Every accepted task ends: a poll finds a verdict, or nothing, and never "running"
\* for ever, although no child need end by itself.
EveryTaskEnds ==
    \A t \in Tasks : work[t] # None ~> up /\ task[t] \notin Open

=============================================================================
