---------------------------- MODULE LogPipeline ----------------------------
(***************************************************************************)
(* From a log call to a row of `logs`: the bounded sink every component    *)
(* appends to (core/log_sink.py), the writer that drains it in batches and *)
(* prunes what is old (workers/log_writer.py), and the export that walks   *)
(* the table while both are at work (repositories/log_repository.py).      *)
(*                                                                         *)
(* A line is the number of its capture.  Only lines at or above the        *)
(* persisted level are lines here, and persistence is enabled.             *)
(***************************************************************************)
EXTENDS Naturals, Sequences, FiniteSets

CONSTANTS
    Capacity,   \* log_buffer_size
    Batch,      \* log_flush_batch_size
    Chunk,      \* EXPORT_CHUNK_SIZE
    Lines,      \* the lines that EveryLineSettles follows
    None,
    Budgets     \* scenarios: how often each kind of event may happen in a behaviour

ASSUME SizesAssumption == {Capacity, Batch, Chunk} \subseteq Nat \ {0}

\* log: a line is captured; dangling: one that names a row which is not there; prune:
\* rows have aged; export: one begins; stop: an orderly shutdown; crash: the process is
\* killed; dberror: a transaction fails; lostack: it commits, and an error is reported.
Events == {"log", "dangling", "prune", "export", "stop", "crash", "dberror", "lostack"}

ASSUME BudgetAssumption == Budgets \subseteq [Events -> Nat]

VARIABLES
    \* the database
    rows,           \* the lines of `logs` in the order of their ids
    aged,           \* the ids that were pruned
    \* the memory of the process
    queue,          \* LogSink._entries
    dropped,        \* LogSink._dropped
    pc, batch,      \* the writer, and the entries it has drained
    stopping,
    final,          \* the flush under way is the one of stop()
    export,         \* the export under way, or the last one
    \* history
    captured,       \* how many lines were captured
    born,           \* how many of them by earlier processes
    dangling,       \* lines that name a row which is not there
    lost,           \* <<line, how>>
    unsure,         \* lines whose transaction committed although it reported an error
    left            \* what is left of the budget of this behaviour

tableVars   == <<rows, aged>>
sinkVars    == <<queue, dropped, captured, lost>>
historyVars == <<born, dangling>>
vars == <<tableVars, sinkVars, pc, batch, stopping, final, export, historyVars,
          unsure, left>>

Spend(e) == left[e] > 0 /\ left' = [left EXCEPT ![e] = @ - 1]

Elements(s) == {s[i] : i \in DOMAIN s}
Front(n, s) == SubSeq(s, 1, IF n < Len(s) THEN n ELSE Len(s))
After(n, s) == SubSeq(s, n + 1, Len(s))

Init ==
    /\ rows = <<>> /\ aged = {}
    /\ queue = <<>> /\ dropped = 0 /\ pc = "down" /\ batch = <<>>
    /\ stopping = FALSE /\ final = FALSE /\ export = None
    /\ captured = 0 /\ born = 0 /\ dangling = {} /\ lost = {} /\ unsure = {}
    /\ left \in Budgets

(***************************************************************************)
(* The sink                                                                *)
(***************************************************************************)
\* capture() on a sink that holds q, where `more` lines were lost just before: a full
\* sink discards its oldest line, and counts it.
Capture(q, more) ==
    /\ captured' = captured + 1
    /\ queue' = Append(IF Len(q) = Capacity THEN Tail(q) ELSE q, captured')
    /\ dropped' = IF Len(q) = Capacity THEN dropped + 1 ELSE dropped
    /\ lost' = lost \cup more
          \cup (IF Len(q) = Capacity THEN {<<Head(q), "dropped">>} ELSE {})

\* restore(): the batch goes back to the front, and a full sink discards its newest
\* lines, uncounted.
PutBackLast == Front(Capacity, queue \o batch)        \* mutant: to the back
PutBack     == Front(Capacity, batch \o queue)
PushedOut   == {<<l, "pushed out">> : l \in Elements(After(Capacity, batch \o queue))}

(***************************************************************************)
(* The process                                                             *)
(***************************************************************************)
Alive == pc # "down"

\* A component logs something.
Log ==
    /\ Alive /\ Spend("log") /\ Capture(queue, {})
    /\ UNCHANGED <<tableVars, pc, batch, stopping, final, export, historyVars, unsure>>

\* The line names a row that is not committed yet, or was deleted.
LogDangling ==
    /\ Alive /\ Spend("dangling") /\ Capture(queue, {})
    /\ dangling' = dangling \cup {captured'}
    /\ UNCHANGED <<tableVars, pc, batch, stopping, final, export, born, unsure>>

\* start(): log_writer_started is the first line of the process.
Boot ==
    /\ pc = "down" /\ pc' = "first" /\ Capture(<<>>, {})
    /\ UNCHANGED <<tableVars, batch, stopping, final, export, historyVars, unsure, left>>

Dies(unwritten) ==
    /\ pc' = "down" /\ queue' = <<>> /\ batch' = <<>> /\ dropped' = 0
    /\ stopping' = FALSE /\ final' = FALSE /\ export' = None
    /\ born' = captured
    /\ lost' = lost \cup {<<l, "killed">> : l \in Elements(queue) \cup unwritten}
    /\ UNCHANGED <<captured, dangling>>

\* A transaction under way may have been committed.
Crash ==
    /\ Alive /\ Spend("crash")
    /\ \/ Dies(Elements(batch)) /\ UNCHANGED <<tableVars, unsure>>
       \/ batch # <<>> /\ (pc = "unlinking" \/ Elements(batch) \cap dangling = {})
          /\ Dies({}) /\ rows' = rows \o batch /\ UNCHANGED <<aged, unsure>>

Stop ==
    /\ Alive /\ ~stopping /\ Spend("stop") /\ stopping' = TRUE
    /\ UNCHANGED <<tableVars, sinkVars, pc, batch, final, export, historyVars, unsure>>

\* stop() re-raises what ended the writer's task, and flushes nothing then.
Exit ==
    /\ stopping /\ pc \in {"stopped", "dead"}
    /\ Dies({}) /\ UNCHANGED <<tableVars, unsure, left>>

(***************************************************************************)
(* The writer                                                              *)
(***************************************************************************)
WriterStep == UNCHANGED <<stopping, export, historyVars>>
Goto(where) == pc' = where /\ UNCHANGED batch

\* Rows older than log_retention_days: the oldest ones.  log_retention_applied says so.
Prunable == {S \in SUBSET (DOMAIN rows \ aged) :
               S # {} /\ \A i \in S, j \in DOMAIN rows \ (aged \cup S) : rows[i] < rows[j]}

Prune(next) ==
    /\ Spend("prune")
    /\ \E S \in Prunable : aged' = aged \cup S
    /\ Capture(queue, {}) /\ Goto(next)
    /\ UNCHANGED <<rows, final, unsure>> /\ WriterStep

PruneNothing(next) ==
    /\ Goto(next) /\ UNCHANGED <<tableVars, sinkVars, final, unsure, left>> /\ WriterStep

\* The first prune is outside every handler: when it fails the task ends.
FirstPrune == pc = "first" /\ (Prune("loop") \/ PruneNothing("loop"))

FirstPruneFails ==
    /\ pc = "first" /\ Spend("dberror") /\ Goto("dead")
    /\ UNCHANGED <<tableVars, sinkVars, final, unsure>> /\ WriterStep

\* drain(), by the loop or by stop().
Drain(nothing) ==
    /\ batch' = Front(Batch, queue) /\ queue' = After(Batch, queue)
    /\ pc' = IF queue = <<>> THEN nothing ELSE "inserting"
    /\ UNCHANGED <<tableVars, dropped, captured, lost, unsure, left>> /\ WriterStep

Flush  == pc = "loop" /\ ~stopping /\ Drain("pruning") /\ UNCHANGED final

Conflict == Elements(batch) \cap dangling # {}

Committed == rows' = rows \o batch /\ UNCHANGED aged

\* flush_once() returns to the loop, or to stop().
Returns(next) == pc' = (IF final THEN "flushed" ELSE next) /\ batch' = <<>> /\ UNCHANGED final

Inserted ==
    /\ pc = "inserting" /\ ~Conflict /\ Committed /\ Returns("pruning")
    /\ UNCHANGED <<sinkVars, unsure, left>> /\ WriterStep

\* The batch is written with its links cleared, in a second transaction.
UnlinkLater ==                       \* mutant: put back like any failed batch
    /\ pc = "inserting" /\ Conflict /\ Returns("asleep")
    /\ queue' = PutBack /\ lost' = lost \cup PushedOut
    /\ UNCHANGED <<tableVars, dropped, captured, unsure, left>> /\ WriterStep

Unlink ==
    /\ pc = "inserting" /\ Conflict /\ Goto("unlinking")
    /\ UNCHANGED <<tableVars, sinkVars, final, unsure, left>> /\ WriterStep

\* log_entries_unlinked
UnlinkedInserted ==
    /\ pc = "unlinking" /\ Committed /\ Capture(queue, {}) /\ Returns("pruning")
    /\ UNCHANGED <<unsure, left>> /\ WriterStep

\* The error surfaces before the commit, or instead of its answer.
Fails ==
    \/ Spend("dberror") /\ UNCHANGED <<tableVars, unsure>>
    \/ Spend("lostack") /\ (pc = "unlinking" \/ ~Conflict) /\ Committed
       /\ unsure' = unsure \cup Elements(batch)

\* The loop logs log_flush_failed; stop() suppresses the error.
Report(q, more) ==
    IF final THEN /\ queue' = q /\ lost' = lost \cup more
                  /\ UNCHANGED <<dropped, captured>>
             ELSE Capture(q, more)

InsertFails ==
    /\ pc = "inserting" /\ Fails
    /\ Report(PutBack, PushedOut) /\ Returns("asleep") /\ WriterStep

\* The handler of the first error does not see a second one: the batch is lost.
UnlinkFails ==
    /\ pc = "unlinking" /\ Fails
    /\ Report(queue, {<<l, "abandoned">> : l \in Elements(batch)})
    /\ Returns("asleep") /\ WriterStep

PruneStep == pc = "pruning" /\ (Prune("asleep") \/ PruneNothing("asleep"))

PruneFails ==
    /\ pc = "pruning" /\ Spend("dberror") /\ Capture(queue, {}) /\ Goto("asleep")
    /\ UNCHANGED <<tableVars, final, unsure>> /\ WriterStep

Wake ==
    /\ pc = "asleep" /\ Goto("loop")
    /\ UNCHANGED <<tableVars, sinkVars, final, unsure, left>> /\ WriterStep

(***************************************************************************)
(* stop(): waits for the loop, but not for long, and flushes once more     *)
(***************************************************************************)
LoopEnds ==
    /\ pc = "loop" /\ stopping /\ Goto("ended")
    /\ UNCHANGED <<tableVars, sinkVars, final, unsure, left>> /\ WriterStep

\* A cancelled transaction is rolled back, unless its commit was under way.
StopGivesUp ==
    /\ stopping /\ ~final /\ pc \in {"first", "inserting", "unlinking", "pruning"}
    /\ pc' = "ended" /\ batch' = <<>>
    /\ \/ /\ lost' = lost \cup {<<l, "abandoned">> : l \in Elements(batch)}
          /\ UNCHANGED tableVars
       \/ batch # <<>> /\ (pc = "unlinking" \/ ~Conflict) /\ Committed /\ UNCHANGED lost
    /\ UNCHANGED <<queue, dropped, captured, final, unsure, left>> /\ WriterStep

FinalFlush == pc = "ended" /\ Drain("flushed") /\ final' = TRUE

\* log_writer_stopped
Stopped ==
    /\ pc = "flushed" /\ Goto("stopped") /\ Capture(queue, {})
    /\ UNCHANGED <<tableVars, final, unsure, left>> /\ WriterStep

(***************************************************************************)
(* The export: newest first, a chunk at a time, from where the last ended  *)
(***************************************************************************)
Present == DOMAIN rows \ aged

ExportStep == UNCHANGED <<tableVars, sinkVars, pc, batch, stopping, final, historyVars,
                          unsure>>

ExportBegin ==
    /\ Alive /\ (export # None => export.done) /\ Spend("export")
    /\ export' = [got |-> <<>>, there |-> Present, done |-> FALSE]
    /\ ExportStep

\* The next chunk: the newest of the ids still to come.
ToComeByOffset ==                    \* mutant: LIMIT and OFFSET
    {i \in Present : Cardinality({j \in Present : j > i}) >= Len(export.got)}
ToCome ==
    {i \in Present : export.got = <<>> \/ i < export.got[Len(export.got)]}

Descending(S) ==
    {s \in [1..Cardinality(S) -> S] : \A i, j \in DOMAIN s : i < j => s[i] > s[j]}

ExportChunk ==
    /\ export # None /\ ~export.done
    /\ \E s \in Descending(ToCome) :
          export' = [export EXCEPT !.got = @ \o Front(Chunk, s),
                                   !.done = Len(s) < Chunk]
    /\ UNCHANGED left /\ ExportStep

(***************************************************************************)
(* Specification                                                           *)
(***************************************************************************)
Writer ==
    \/ FirstPrune \/ Flush \/ Inserted \/ Unlink \/ UnlinkedInserted \/ PruneStep
    \/ Wake \/ LoopEnds \/ FinalFlush \/ Stopped

Failure == FirstPruneFails \/ InsertFails \/ UnlinkFails \/ PruneFails \/ StopGivesUp
           \/ Crash

Next == Log \/ LogDangling \/ Boot \/ Stop \/ Exit \/ Writer \/ Failure
        \/ ExportBegin \/ ExportChunk

Spec == Init /\ [][Next]_vars

\* The writer's coroutine runs, its sleep ends, and systemd restarts the process.
Fairness == WF_vars(Writer) /\ WF_vars(Boot) /\ WF_vars(Exit)

FairSpec == Spec /\ Fairness

(***************************************************************************)
(* Properties                                                              *)
(***************************************************************************)
Hows == {"dropped", "pushed out", "abandoned", "killed"}
Lost == {x[1] : x \in lost}
Held == Elements(batch) \cup Elements(queue)
Stored == Elements(rows)

\* Every variable has its type, and the writer has a batch exactly while it writes one.
TypeOK ==
    /\ rows \in Seq(Nat) /\ aged \subseteq DOMAIN rows
    /\ queue \in Seq(Nat) /\ Len(queue) <= Capacity /\ dropped \in Nat
    /\ pc \in {"down", "first", "loop", "inserting", "unlinking", "pruning", "asleep",
               "ended", "flushed", "stopped", "dead"}
    /\ batch \in Seq(Nat) /\ Len(batch) <= Batch
    /\ batch # <<>> <=> pc \in {"inserting", "unlinking"}
    /\ stopping \in BOOLEAN /\ final \in BOOLEAN /\ (final => stopping)
    /\ captured \in Nat /\ born \in 0..captured
    /\ dangling \subseteq 1..captured /\ unsure \subseteq 1..captured
    /\ lost \subseteq (1..captured) \X Hows
    /\ left \in [Events -> Nat]

\* Conservation: each line captured is in the sink, in the writer's hands, in the table,
\* or lost in a way that has a name; in two of them only if a commit was taken for a failure.
Conserved ==
    /\ 1..captured = Held \cup Stored \cup Lost
    /\ Held \cap Lost = {} /\ Stored \cap (Held \cup Lost) \subseteq unsure
    /\ Elements(batch) \cap Elements(queue) = {}

\* What /health/detail reports is what this process dropped.
DropsCounted == dropped = Cardinality({x \in lost : x[2] = "dropped" /\ x[1] > born})

Increasing(s) == \A i, j \in DOMAIN s : i < j => s[i] < s[j]

\* A failed batch is written before what came after it: the table, the writer's batch and
\* the sink are in the order of the log calls, each line once, but for the repetition of
\* a batch whose commit was taken for a failure.
OrderKept ==
    /\ Increasing(batch \o queue)
    /\ \A i, j \in DOMAIN rows : i < j => rows[i] < rows[j] \/ rows[j] \in unsure
    /\ \A i \in DOMAIN rows, l \in Held : rows[i] < l \/ rows[i] \in unsure

\* What is held was captured by this process, and what is held and sure is newer than
\* every line of a commit that was taken for a failure.
OwnLines ==
    /\ pc = "down" => queue = <<>>
    /\ pc = "ended" => stopping
    /\ \A l \in Held : born < l
    /\ \A u \in unsure, l \in Held : u < l \/ l \in unsure

\* An inductive invariant.
IInv == TypeOK /\ Conserved /\ DropsCounted /\ OrderKept /\ OwnLines

\* An export shows each row once, newest first, and misses none of those that were there
\* when it began and still are, although lines are written and pruned while it runs.
ExportIsExact ==
    export # None =>
       /\ \A i, j \in DOMAIN export.got : i < j => export.got[i] > export.got[j]
       /\ export.done => export.there \ aged \subseteq Elements(export.got)

\* Every line captured is stored or lost in the end, through failed batches, restarts and
\* shutdowns, unless the writer's first prune failed, which leaves nobody to drain the sink.
EveryLineSettles ==
    \A l \in Lines : captured >= l ~> l \in Stored \cup Lost \/ pc = "dead"

=============================================================================
