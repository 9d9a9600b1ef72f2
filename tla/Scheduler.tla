------------------------------ MODULE Scheduler ------------------------------
(***************************************************************************)
(* When backups start by themselves.  The table `backup_jobs` says what is *)
(* scheduled and, in `next_run_at`, for when; APScheduler holds timers in  *)
(* memory that are rebuilt from the table when the process starts and      *)
(* after every change (workers/scheduler.py).  A firing, a firing made up  *)
(* for after a downtime, and an operator's "run now" all end in            *)
(* request_job_run, which refuses while a run of the job is active.        *)
(*                                                                         *)
(* A time t is the window between two instants of a cron expression; `now` *)
(* being t means that the instant t has just passed.  A cron expression is *)
(* the set of its instants (core/cron.py).                                 *)
(***************************************************************************)
EXTENDS Naturals, FiniteSets, FiniteSetsExt

CONSTANTS
    Jobs,       \* ids of backup_jobs rows
    Crons,      \* cron expressions, as sets of instants
    Tables,     \* the schedules an operator may have made: an expression for each job
    Horizon,    \* bound: the last instant that passes
    Grace,      \* scheduler_misfire_grace_seconds
    Unset,
    ScheduleBudgets     \* scenarios: how many events of each kind a behaviour may have

ASSUME TimesAssumption == Horizon \in Nat /\ Grace \in Nat

\* Every expression recurs.
ASSUME CronsAssumption ==
    \A c \in Crons : c \subseteq Nat /\ \A n \in 0..Horizon : \E t \in c : t > n

ASSUME TablesAssumption == Tables \subseteq [Jobs -> Crons]

ASSUME JobsAssumption == Jobs \subseteq Nat /\ Unset \notin Nat

ASSUME UnsetAssumption == Unset \notin [seen : Crons, at : Nat]

\* edit: a job is changed, enabled, disabled or deleted; press: "run now"; error: an
\* exception in a firing or a resync; crash: the process dies or is shut down.
ScheduleEvents == {"edit", "press", "error", "crash"}

ASSUME ScheduleBudgetsAssumption == ScheduleBudgets \subseteq [ScheduleEvents -> Nat]

VARIABLES
    now,
    \* the database
    enabled, cron, next,  \* backup_jobs: enabled, cron_expression, next_run_at
    active,               \* how many runs of the job are queued or running
    \* the memory of the process
    stage,                \* how far start() has come
    timer,                \* APScheduler's job of each backup job: its trigger and next time
    resync,               \* whether the job "scheduler-resync" is waiting
    sync, plan,           \* sync_jobs: "none", "called" or "read"; what it has read
    missed,               \* what _fire_missed_schedules still has to do
    calls,                \* the executions of _fire
    pressed,              \* handlers of "run now" between their check and their commit
    \* history
    open,                 \* <<job, instant>>: was due and nobody has decided it yet
    started,              \* how many runs were started for <<job, instant>>
    behind,               \* a resync that was asked for did not happen
    crossed,              \* instants that a rebuild of the timers ran into
    scheduleLeft          \* what is left of the budget

tableVars  == <<enabled, cron, next>>
memoryVars == <<timer, resync, sync, plan, missed>>
firingVars == <<started, behind, crossed>>
scheduleVars == <<now, tableVars, active, stage, memoryVars, calls, pressed, open, firingVars,
                  scheduleLeft>>

Times   == 0..(Horizon + 1)
ScheduleSpend(e) == scheduleLeft[e] > 0 /\ scheduleLeft' = [scheduleLeft EXCEPT ![e] = @ - 1]

NoPlan == [wanted |-> <<>>, write |-> <<>>]

\* next_fire_time(expression)
NextFire(c) == Min({t \in c : t > now})

ScheduleInit ==
    /\ now = 0
    /\ enabled = [j \in Jobs |-> TRUE] /\ cron \in Tables
    /\ next = [j \in Jobs |-> NextFire(cron[j])] /\ active = [j \in Jobs |-> 0]
    /\ stage = "down" /\ timer = [j \in Jobs |-> Unset]
    /\ resync = FALSE /\ sync = "none" /\ plan = NoPlan /\ missed = {}
    /\ calls = {} /\ pressed = [j \in Jobs |-> 0]
    /\ open = {} /\ started = [w \in Jobs \X Times |-> 0] /\ behind = FALSE
    /\ crossed = {} /\ scheduleLeft \in ScheduleBudgets

(***************************************************************************)
(* Requests                                                                *)
(***************************************************************************)
ScheduleServing == stage = "up"

\* update_job, set_enabled and (as disabling) delete_job, with the resync that is asked
\* for when the transaction commits.
Edit(j, on, c) ==
    /\ ScheduleServing /\ ScheduleSpend("edit")
    /\ enabled' = [enabled EXCEPT ![j] = on]
    /\ cron' = [cron EXCEPT ![j] = c]
    /\ next' = [next EXCEPT ![j] = IF on THEN NextFire(c) ELSE Unset]
    /\ resync' = TRUE
    /\ UNCHANGED <<now, active, stage, timer, sync, plan, missed, calls, pressed, open,
                   firingVars>>

\* run_now checks in one await and inserts in a later one.
PressBegin(j) ==
    /\ ScheduleServing /\ active[j] = 0 /\ ScheduleSpend("press")
    /\ pressed' = [pressed EXCEPT ![j] = @ + 1]
    /\ UNCHANGED <<now, tableVars, active, stage, memoryVars, calls, open, firingVars>>

PressCommit(j) ==
    /\ pressed[j] > 0
    /\ pressed' = [pressed EXCEPT ![j] = @ - 1]
    /\ active' = [active EXCEPT ![j] = @ + 1]
    /\ UNCHANGED <<now, tableVars, stage, memoryVars, calls, open, firingVars, scheduleLeft>>

\* The run executor ends a run.
RunEnds(j) ==
    /\ stage # "down" /\ active[j] > 0 /\ active' = [active EXCEPT ![j] = @ - 1]
    /\ UNCHANGED <<now, tableVars, stage, memoryVars, calls, pressed, open, firingVars,
                   scheduleLeft>>

(***************************************************************************)
(* start(), and sync_jobs                                                  *)
(***************************************************************************)
Launch ==
    /\ stage = "down" /\ stage' = "collect"
    /\ UNCHANGED <<now, tableVars, active, memoryVars, calls, pressed, open, firingVars,
                   scheduleLeft>>

\* What says that a firing was missed.
\* Mutant: next_run_at as sync_jobs would leave it.
EvidenceErased(j) == NextFire(cron[j])
Evidence(j)       == next[j]

Missed == {[job |-> j, window |-> Evidence(j), late |-> now - Evidence(j)] :
             j \in {k \in Jobs : enabled[k] /\ Evidence(k) # Unset /\ Evidence(k) <= now}}

Collect ==
    /\ stage = "collect" /\ stage' = "syncing"
    /\ missed' = Missed /\ sync' = "called"
    /\ UNCHANGED <<now, tableVars, active, timer, resync, plan, calls, pressed, open,
                   firingVars, scheduleLeft>>

\* The date job runs once; if the previous one is still running, APScheduler drops
\* it (max_instances is one).
Resync ==
    /\ ScheduleServing /\ resync /\ resync' = FALSE
    /\ IF sync = "none" THEN sync' = "called" /\ UNCHANGED behind
                      ELSE behind' = TRUE /\ UNCHANGED sync
    /\ UNCHANGED <<now, tableVars, active, stage, timer, plan, missed, calls, pressed, open,
                   started, crossed, scheduleLeft>>

Listed == {j \in Jobs : enabled[j]}

\* The session writes a column only if its value is another than the one it loaded.
SyncRead ==
    /\ sync = "called"
    /\ sync' = "read"
    /\ plan' = [wanted |-> [j \in Listed |-> cron[j]],
                write  |-> [j \in {k \in Listed : next[k] # NextFire(cron[k])} |->
                               NextFire(cron[j])]]
    /\ behind' = FALSE
    /\ UNCHANGED <<now, tableVars, active, stage, timer, resync, missed, calls, pressed,
                   open, started, crossed, scheduleLeft>>

Timer(c) == [seen |-> c, at |-> NextFire(c)]

\* Mutant: what is no longer wanted keeps its timer.
RegisteredToo(j, wanted) == IF j \in DOMAIN wanted THEN Timer(wanted[j]) ELSE timer[j]
Registered(j, wanted)    == IF j \in DOMAIN wanted THEN Timer(wanted[j]) ELSE Unset

Due(j) == timer[j] # Unset /\ timer[j].at <= now

\* Commit, and register without another await.  A timer that was due at this very
\* moment is replaced by one for its next time.
SyncCommit ==
    /\ sync = "read" /\ sync' = "none" /\ plan' = NoPlan
    /\ next' = [j \in Jobs |-> IF j \in DOMAIN plan.write THEN plan.write[j] ELSE next[j]]
    /\ timer' = [j \in Jobs |-> Registered(j, plan.wanted)]
    /\ crossed' = crossed \cup {timer[j].at : j \in {k \in Jobs : Due(k)}}
    /\ stage' = IF stage = "syncing" THEN "catch" ELSE stage
    /\ UNCHANGED <<now, enabled, cron, active, resync, missed, calls, pressed, open, started,
                   behind, scheduleLeft>>

\* Logged by APScheduler, and not tried again.  While starting, it ends the process.
SyncFails ==
    /\ ScheduleServing /\ sync # "none" /\ ScheduleSpend("error")
    /\ sync' = "none" /\ plan' = NoPlan /\ behind' = TRUE
    /\ UNCHANGED <<now, tableVars, active, stage, timer, resync, missed, calls, pressed, open,
                   started, crossed>>

(***************************************************************************)
(* Firing                                                                  *)
(***************************************************************************)
Call(j, by, t) == [job |-> j, by |-> by, window |-> t, checked |-> FALSE, seen |-> Unset]

\* max_instances=1.  Mutant: no limit.
Busy(j)      == \E c \in calls : c.job = j /\ c.by = "timer"

\* APScheduler finds a timer due: of several instants it takes the last (coalesce);
\* it drops it if the last call is still running, or if the loop is too late.
TimerFires(j) ==
    LET t == Max({u \in timer[j].seen : u <= now})
    IN  /\ stage # "down" /\ Due(j)
        /\ timer' = [timer EXCEPT ![j] = Timer(@.seen)]
        /\ IF Busy(j) \/ now - t > Grace
             THEN calls' = calls /\ open' = open \ {<<j, u>> : u \in 0..now}
             ELSE /\ calls' = calls \cup {Call(j, "timer", t)}
                  /\ open' = (open \ {<<j, u>> : u \in 0..now}) \cup {<<j, t>>}
        /\ UNCHANGED <<now, tableVars, active, stage, resync, sync, plan, missed, pressed,
                       firingVars, scheduleLeft>>

\* The next of the missed firings, in the order of the ids.
Turn(m) == stage = "catch" /\ m \in missed /\ \A n \in missed : m.job <= n.job
           /\ \A c \in calls : c.by # "boot"

TooLate(m) == m.late > Grace

CatchUp(m) ==
    /\ Turn(m) /\ missed' = missed \ {m}
    /\ IF TooLate(m) THEN open' = open \ {<<m.job, m.window>>} /\ UNCHANGED calls
                     ELSE calls' = calls \cup {Call(m.job, "boot", m.window)} /\ UNCHANGED open
    /\ UNCHANGED <<now, tableVars, active, stage, timer, resync, sync, plan, pressed,
                   firingVars, scheduleLeft>>

Started ==
    /\ stage = "catch" /\ missed = {} /\ \A c \in calls : c.by # "boot"
    /\ stage' = "up"
    /\ UNCHANGED <<now, tableVars, active, memoryVars, calls, pressed, open, firingVars,
                   scheduleLeft>>

Return(c) == calls' = calls \ {c} /\ open' = open \ {<<c.job, c.window>>}

\* _fire reads the job, and request_job_run whether a run of it is active, and which
\* guests it selects, which may always be none.  A firing that finds a reason not to
\* start says so, and leaves next_run_at as it is.
FireRefused(c) ==
    /\ c \in calls /\ ~c.checked
    /\ Return(c)
    /\ UNCHANGED <<now, tableVars, active, stage, memoryVars, pressed, firingVars, scheduleLeft>>

FireCheck(c) ==
    /\ c \in calls /\ ~c.checked /\ enabled[c.job] /\ active[c.job] = 0
    /\ calls' = (calls \ {c}) \cup {[c EXCEPT !.checked = TRUE, !.seen = cron[c.job]]}
    /\ UNCHANGED <<now, tableVars, active, stage, memoryVars, pressed, open, firingVars,
                   scheduleLeft>>

\* Mutant: the run is committed, and next_run_at is not.
NotAdvanced(c) == next[c.job]
Advanced(c)    == NextFire(c.seen)

FireCommit(c) ==
    /\ c \in calls /\ c.checked
    /\ active' = [active EXCEPT ![c.job] = @ + 1]
    /\ next' = [next EXCEPT ![c.job] = Advanced(c)]
    /\ started' = [started EXCEPT ![<<c.job, c.window>>] = @ + 1]
    /\ Return(c)
    /\ UNCHANGED <<now, enabled, cron, stage, memoryVars, pressed, behind, crossed, scheduleLeft>>

\* Rolled back; APScheduler logs it.  While starting, it ends the process.
FireFails(c) ==
    /\ c \in calls /\ c.by = "timer" /\ ScheduleSpend("error") /\ Return(c)
    /\ UNCHANGED <<now, tableVars, active, stage, memoryVars, pressed, firingVars>>

(***************************************************************************)
(* Time and death                                                          *)
(***************************************************************************)
\* What an instant makes due: a timer, or without timers the next_run_at that the next
\* start will find.
DueAt(j, t) ==
    CASE stage \in {"down", "collect"} -> enabled[j] /\ next[j] = t
      [] OTHER                      -> timer[j] # Unset /\ timer[j].at = t

Tick ==
    /\ now < Horizon /\ now' = now + 1
    /\ open' = open \cup {<<j, now + 1>> : j \in {k \in Jobs : DueAt(k, now + 1)}}
    /\ crossed' = IF sync = "read" THEN crossed \cup {now + 1} ELSE crossed
    /\ UNCHANGED <<tableVars, active, stage, memoryVars, calls, pressed, started, behind,
                   scheduleLeft>>

\* What was due and is no longer to be found in the table is lost with the process.
ProcessDies ==
    /\ stage # "down" /\ ScheduleSpend("crash")
    /\ stage' = "down" /\ timer' = [j \in Jobs |-> Unset]
    /\ resync' = FALSE /\ sync' = "none" /\ plan' = NoPlan /\ missed' = {} /\ calls' = {}
    /\ pressed' = [j \in Jobs |-> 0] /\ behind' = FALSE
    /\ open' = {w \in open : enabled[w[1]] /\ next[w[1]] = w[2]}
    /\ UNCHANGED <<now, tableVars, active, started, crossed>>

(***************************************************************************)
(* The specification                                                       *)
(***************************************************************************)
Requests == \E j \in Jobs : \/ \E on \in BOOLEAN, c \in Crons : Edit(j, on, c)
                            \/ PressBegin(j) \/ PressCommit(j) \/ RunEnds(j)

Fire == \E c \in calls : FireRefused(c) \/ FireCheck(c) \/ FireCommit(c) \/ FireFails(c)

ScheduleNext ==
    \/ Requests \/ Fire
    \/ Launch \/ Collect \/ Resync \/ SyncRead \/ SyncCommit \/ SyncFails
    \/ \E j \in Jobs : TimerFires(j)
    \/ \E m \in missed : CatchUp(m)
    \/ Started \/ Tick \/ ProcessDies

ScheduleSpec == ScheduleInit /\ [][ScheduleNext]_scheduleVars

(***************************************************************************)
(* Properties                                                              *)
(***************************************************************************)
\* Every variable has its type; each job has at most one call by its timer and there
\* is at most one by the start.
Timers   == [seen : Crons, at : Nat]
CallType == [job : Jobs, by : {"timer", "boot"}, window : Nat, checked : BOOLEAN,
             seen : Crons \cup {Unset}]

\* The variables of the table and of the requests.
TableShape ==
    /\ now \in 0..Horizon
    /\ enabled \in [Jobs -> BOOLEAN] /\ cron \in [Jobs -> Crons]
    /\ next \in [Jobs -> Nat \cup {Unset}] /\ active \in [Jobs -> Nat]
    /\ stage \in {"down", "collect", "syncing", "catch", "up"}
    /\ resync \in BOOLEAN /\ behind \in BOOLEAN /\ sync \in {"none", "called", "read"}
    /\ pressed \in [Jobs -> Nat] /\ open \subseteq Jobs \X (0..now)
    /\ started \in [Jobs \X Times -> Nat] /\ crossed \subseteq Times
    /\ scheduleLeft \in [ScheduleEvents -> Nat]

\* The memory of the scheduler, and what it is working on.
TimersShape ==
    /\ timer \in [Jobs -> Timers \cup {Unset}]
    /\ \A j \in Jobs : timer[j] # Unset => timer[j].at \in timer[j].seen

MissedShape ==
    /\ \A m \in missed : /\ m.job \in Jobs /\ m.window \in Nat /\ m.late \in Nat
                         /\ m.window + m.late <= now
    /\ \A m, n \in missed : m.job = n.job => m = n

CallsShape ==
    /\ calls \subseteq CallType
    /\ \A c \in calls : c.window <= now /\ (c.checked => c.seen \in Crons)
    /\ \A c, d \in calls : c.by = d.by /\ (c.by = "boot" \/ c.job = d.job) => c = d

PlanShape ==
    /\ DOMAIN plan.wanted \subseteq Jobs /\ \A j \in DOMAIN plan.wanted : plan.wanted[j] \in Crons
    /\ DOMAIN plan.write \subseteq Jobs /\ \A j \in DOMAIN plan.write : plan.write[j] \in Nat

\* Each firing makes at most one run: one that was started is not made up for after a
\* restart, and none is fired twice however often the schedule is rebuilt, unless its
\* instant came while the timers were being rebuilt.
OneRunPerWindow == \A w \in Jobs \X Times : started[w] <= 1 \/ w[2] \in crossed

Quiet == stage = "up" /\ calls = {} /\ \A j \in Jobs : ~Due(j)

\* A firing that was due, by its timer or by the table while nobody was running, is
\* started, refused or given up as too late; it is not forgotten because the process was
\* restarted, unless the table no longer said so when that happened, or because the
\* timers were rebuilt, unless its instant came while they were.
NothingForgotten == Quiet => \A w \in open : w[2] \in crossed

\* When nothing is under way, the timers are those of the table: what is enabled
\* fires by its present expression and what is disabled does not, unless a resync
\* failed or was dropped.
TimersMatchTable ==
    stage = "up" /\ ~resync /\ sync = "none" /\ ~behind =>
        \A j \in Jobs : IF enabled[j] THEN timer[j] # Unset /\ timer[j].seen = cron[j]
                                      ELSE timer[j] = Unset

\* How far start() has come bounds what there is to do.
Phases ==
    /\ stage \in {"down", "collect"} => sync = "none" /\ missed = {}
    /\ stage \in {"down", "collect", "syncing"} => calls = {} /\ \A j \in Jobs : timer[j] = Unset
    /\ stage = "syncing" => sync # "none"
    /\ stage = "catch" => sync = "none"
    /\ stage # "up" => ~resync /\ ~behind
    /\ stage = "up" => missed = {}

\* The timers follow the table, or what was read of it and not yet registered does.
Follows ==
    ~resync /\ ~behind =>
       /\ stage \in {"catch", "up"} /\ sync = "none" =>
             \A j \in Jobs : IF enabled[j] THEN timer[j] # Unset /\ timer[j].seen = cron[j]
                                           ELSE timer[j] = Unset
       /\ sync = "read" => /\ DOMAIN plan.wanted = Listed
                           /\ \A j \in Listed : plan.wanted[j] = cron[j]

\* A window that is being worked on.
Taken(j, t) ==
    \/ \E c \in calls : c.job = j /\ c.window = t
    \/ \E m \in missed : m.job = j /\ m.window = t

\* No two are at work on the same window, and none on one that has its run, unless it was
\* crossed; timers are ahead of every window that was taken, and next_run_at, now or when
\* the plan is written, of every one that has its run and was not crossed.
Windows ==
    /\ \A c, d \in calls : c.job = d.job /\ c.window = d.window => c = d
    /\ \A c \in calls, m \in missed : c.job = m.job => m.window < c.window
    /\ \A j \in Jobs, t \in Times :
          /\ Taken(j, t) /\ t \notin crossed => started[<<j, t>>] = 0
          /\ started[<<j, t>>] > 0 => t <= now
          /\ timer[j] # Unset /\ (Taken(j, t) \/ started[<<j, t>>] > 0) => t < timer[j].at
          /\ started[<<j, t>>] > 0 /\ t \notin crossed => next[j] = Unset \/ t < next[j]
    /\ sync = "read" =>
          \A j \in DOMAIN plan.write, t \in 0..now : plan.write[j] <= t => t \in crossed

\* Somebody still has to decide on each window that is open.
Owned(j, t) ==
    \/ timer[j] # Unset /\ timer[j].at = t
    \/ Taken(j, t)
    \/ stage \in {"down", "collect"} /\ enabled[j] /\ next[j] = t

Decided == \A w \in open : w[2] \in crossed \/ Owned(w[1], w[2])

\* An inductive invariant.
ScheduleInv == /\ TableShape /\ TimersShape /\ MissedShape /\ CallsShape /\ PlanShape
               /\ Phases /\ Follows /\ Windows /\ Decided /\ OneRunPerWindow

=============================================================================
