------------------------------- MODULE Outbox -------------------------------
(***************************************************************************)
(* What the dashboard tells its operator.  Messages are rows of the table  *)
(* `notifications`, written in the transaction of whatever they report     *)
(* (services/notification_service.py), and delivered by a worker that      *)
(* charges an attempt before it asks Telegram                              *)
(* (workers/notification_worker.py).  Two kinds of report: one that        *)
(* happens once (a run or a restore started or ended, an upload given up)  *)
(* and one that recurs, here the alerts of the storage sampler             *)
(* (workers/storage_sampler.py).                                           *)
(***************************************************************************)
EXTENDS Naturals, FiniteSets, FiniteSetsExt

CONSTANTS
    Once,         \* dedupe keys of what happens once
    MaxRows,      \* bound: how many rows a behaviour may write
    MaxAttempts,  \* notification_max_attempts
    Fills,        \* what a sample may say of the disk: a percentage,
    Unreadable,   \* or that there is none to be had
    Lines,        \* the percentages an operator may choose to be warned at
    None,
    Starts        \* scenarios: the fill and the lines a behaviour begins with, and
                  \* how many events of each kind it may have

ASSUME SizesAssumption == MaxRows \in Nat /\ MaxAttempts \in Nat \ {0}

ASSUME FillsAssumption ==
    /\ Fills \subseteq Nat \cup {Unreadable} /\ Unreadable \notin Nat /\ None \notin Fills
    /\ Lines \subseteq [warning : Nat, critical : Nat] /\ None \notin Lines

\* report: something that happens once is reported, again after a restart;
\* disk: the fill of the disk changes; configure, lines, resend, test: an operator acts;
\* crash: the process dies, or stop() cancels the worker after ten seconds;
\* loss: Telegram delivers and its answer is lost; refuse: it refuses for good;
\* error: an exception in the worker.
Events == {"report", "disk", "configure", "lines", "resend", "test", "crash", "loss", "refuse",
           "error"}

ASSUME StartsAssumption == Starts \subseteq [disk : Fills, lines : Lines, left : [Events -> Nat]]

Alerts     == {"warning", "critical"}
Severities == {"unknown", "healthy"} \cup Alerts
Keys       == Once \cup Alerts \cup {"test"}
Rows       == 1..MaxRows

ASSUME KeysAssumption == None \notin Keys \cup Severities /\ Once \cap (Alerts \cup {"test"}) = {}

VARIABLES
    \* the database
    status, key, attempts,  \* notifications; ids in the order of created_at
    by,                     \* payload.suppressed_by
    waiting,                \* the rows whose next_attempt_at is ahead
    recent,                 \* the rows younger than the suppress window
    config,                 \* settings.telegram: "off", "unset" (no token), "on"
    latest,                 \* the fill in the latest storage snapshot
    lines,                  \* settings.retention: storage_warning_percent and _critical_percent
    \* the worker
    pc, cur, charged,       \* where it is; its claim: the row, and the attempt
    \* the requests to send again
    asked,                  \* how many have read the row as settled, and not committed
    overtaken,              \* how many have not committed since another one of the row has
    \* the sampler
    sampled,                \* the lines it works with and the fill, not yet stored
    disk,                   \* the fill of the disk itself
    \* history
    delivered,              \* how often Telegram delivered a row since it was queued
    unknown,                \* how often nobody recorded that it did
    resent,                 \* the rows an operator queued again
    doubled,                \* how many overtaken requests were committed all the same
    level,                  \* what the latest snapshot was judged to be when it was stored
    silent,                 \* a move of the lines made it an alert without a message
    muted, crashes,         \* whether notifications were ever off; deaths of the process
    left                    \* what is left of the budget

outboxVars  == <<status, key, attempts, by, waiting, recent>>
workerVars  == <<pc, cur, charged>>
askVars     == <<asked, overtaken, doubled>>
sampleVars  == <<latest, lines, sampled, disk, level, silent>>
historyVars == <<delivered, unknown, resent, muted, crashes>>
vars == <<outboxVars, workerVars, askVars, sampleVars, historyVars, config, left>>

Spend(e) == left[e] > 0 /\ left' = [left EXCEPT ![e] = @ - 1]
Written  == {n \in Rows : status[n] # "none"}

Init ==
    /\ status = [n \in Rows |-> "none"] /\ key = [n \in Rows |-> None]
    /\ attempts = [n \in Rows |-> 0] /\ by = [n \in Rows |-> None]
    /\ waiting = {} /\ recent = {} /\ config = "on"
    /\ \E start \in Starts : disk = start.disk /\ lines = start.lines /\ left = start.left
    /\ latest = None /\ sampled = None
    /\ level = "healthy" /\ silent = FALSE
    /\ asked = [n \in Rows |-> 0] /\ overtaken = [n \in Rows |-> 0]
    /\ doubled = [n \in Rows |-> 0]
    /\ pc = "down" /\ cur = None /\ charged = 0
    /\ delivered = [n \in Rows |-> 0] /\ unknown = [n \in Rows |-> 0]
    /\ resent = {} /\ muted = FALSE /\ crashes = 0

(***************************************************************************)
(* Writing messages                                                        *)
(***************************************************************************)
Serving == pc # "down"

\* A report of this once-only occurrence is in the outbox.
Recorded(k) == \E n \in Rows : key[n] = k

\* The message on whose account a recurring one is withheld.
\* Mutant: one that is still to be sent does not count.
SentOnly(k) == {n \in recent : key[n] = k /\ status[n] = "sent"}
Recent(k)   == {n \in recent : key[n] = k /\ status[n] \in {"pending", "sent"}}

\* Write one row, or none if nobody wants it or it is there already.
Enqueue(k) ==
    IF config = "off" \/ (k \in Once /\ Recorded(k)) THEN UNCHANGED outboxVars
    ELSE LET n        == Cardinality(Written) + 1
             withheld == k \notin Once /\ Recent(k) # {}
         IN  /\ n \in Rows
             /\ key' = [key EXCEPT ![n] = k]
             /\ status' = [status EXCEPT ![n] = IF withheld THEN "suppressed" ELSE "pending"]
             /\ by' = [by EXCEPT ![n] = IF withheld THEN Max(Recent(k)) ELSE None]
             /\ recent' = recent \cup {n}
             /\ UNCHANGED <<attempts, waiting>>

\* A worker reports in the transaction that records what happened.  After a crash
\* it may find the same thing to report again.
Report(k) ==
    /\ Serving /\ Spend("report") /\ Enqueue(k)
    /\ UNCHANGED <<workerVars, askVars, sampleVars, historyVars, config>>

\* classify_storage
Severity(fill, at) ==
    IF fill = Unreadable THEN "unknown"
    ELSE IF fill >= at.critical THEN "critical"
    ELSE IF fill >= at.warning THEN "warning" ELSE "healthy"

Rank(s) == CASE s = "unknown" -> 0 [] s = "healthy" -> 1
             [] s = "warning" -> 2 [] s = "critical" -> 3

\* Mutant: only a step from one severity to the next is an alert.
SeveritySteps(previous, current) ==
    Rank(current) = Rank(previous) + 1 /\ current \in Alerts
SeverityIncreased(previous, current) ==
    Rank(current) > Rank(previous) /\ current \in Alerts

\* sample_once reads the lines, and asks the agent with no transaction open...
SampleRead ==
    /\ Serving /\ sampled = None
    /\ sampled' = [fill |-> disk, at |-> lines]
    /\ UNCHANGED <<outboxVars, workerVars, askVars, historyVars, config, latest, lines, disk,
                   level, silent, left>>

\* ...and compares and stores the sample and its alert in one.  The latest snapshot is
\* judged anew, by the lines of today.
SampleStore ==
    /\ Serving /\ sampled # None
    /\ LET previous == IF latest = None THEN "healthy" ELSE Severity(latest, sampled.at)
           current  == Severity(sampled.fill, sampled.at)
           alert    == SeverityIncreased(previous, current)
       IN  /\ IF alert THEN Enqueue(current) ELSE UNCHANGED outboxVars
           /\ level' = current
           /\ silent' = (current \in Alerts /\ ~alert
                            /\ (silent \/ Rank(previous) > Rank(level)))
    /\ latest' = sampled.fill /\ sampled' = None
    /\ UNCHANGED <<workerVars, askVars, historyVars, config, lines, disk, left>>

\* The lines are edited.
MoveLines(at) ==
    /\ Serving /\ lines # at /\ Spend("lines") /\ lines' = at
    /\ UNCHANGED <<outboxVars, workerVars, askVars, historyVars, config, latest, sampled, disk,
                   level, silent>>

\* An operator asks to send a message again: it is refused if the row is queued...
\* Mutant: also if it is.
ResendableAny(n) == status[n] # "none"
Resendable(n)    == status[n] \notin {"none", "pending"}

ResendAsked(n) ==
    /\ Serving /\ Resendable(n) /\ Spend("resend")
    /\ asked' = [asked EXCEPT ![n] = @ + 1]
    /\ UNCHANGED <<outboxVars, workerVars, overtaken, doubled, sampleVars, historyVars, config>>

Requeue(n) ==
    /\ status' = [status EXCEPT ![n] = "pending"]
    /\ resent' = resent \cup {n}
    /\ delivered' = [delivered EXCEPT ![n] = IF pc = "sent" /\ cur = n THEN 1 ELSE 0]
    /\ unknown' = [unknown EXCEPT ![n] = 0]
    /\ UNCHANGED <<key, by, waiting, recent, workerVars, sampleVars, config, muted, crashes, left>>

\* ...and queued when the request commits, whose other requests are overtaken then.
Resend(n) ==
    /\ Serving /\ asked[n] > 0 /\ Requeue(n)
    /\ attempts' = [attempts EXCEPT ![n] = 0]
    /\ asked' = [asked EXCEPT ![n] = 0]
    /\ overtaken' = [overtaken EXCEPT ![n] = @ + asked[n] - 1]
    /\ UNCHANGED doubled

\* What such a request has read is no longer so: the row may be queued, in the hand of
\* the worker, or settled again.  It writes what differs from what it read, and attempts
\* only if they were not zero; a claim about to commit writes its own count over them.
ResendLate(n) ==
    /\ Serving /\ overtaken[n] > 0 /\ Requeue(n)
    /\ attempts' \in {attempts, [attempts EXCEPT ![n] = 0]}
    /\ asked' = [asked EXCEPT ![n] = 0]
    /\ overtaken' = [overtaken EXCEPT ![n] = @ + asked[n] - 1]
    /\ doubled' = [doubled EXCEPT ![n] = @ + 1]

Configure(c) ==
    /\ Serving /\ Spend("configure")
    /\ config' = c /\ muted' = (muted \/ c = "off")
    /\ UNCHANGED <<outboxVars, workerVars, askVars, sampleVars, delivered, unknown, resent,
                   crashes>>

\* send_test asks Telegram itself, and writes the row with the outcome.
SendTest(outcome) ==
    LET n == Cardinality(Written) + 1
    IN  /\ Serving /\ config # "unset" /\ n \in Rows /\ Spend("test")
        /\ key' = [key EXCEPT ![n] = "test"]
        /\ status' = [status EXCEPT ![n] = outcome]
        /\ recent' = recent \cup {n}
        /\ delivered' = [delivered EXCEPT ![n] = IF outcome = "sent" THEN 1 ELSE 0]
        /\ UNCHANGED <<attempts, by, waiting, workerVars, askVars, sampleVars, unknown, resent,
                       muted, crashes, config>>

(***************************************************************************)
(* The worker                                                              *)
(***************************************************************************)
Boot ==
    /\ pc = "down"
    /\ pc' = "idle"
    /\ UNCHANGED <<outboxVars, cur, charged, askVars, sampleVars, historyVars, config, left>>

\* next_ready, and the attempt charged to it in the same transaction: if the
\* process dies now, the row has a retry ahead of it.
\* Mutant: only what was never tried is.
Untried == {n \in Rows : status[n] = "pending" /\ attempts[n] = 0}
Ready   == {n \in Rows \ waiting : status[n] = "pending"}

ClaimNext ==
    /\ pc = "idle" /\ Ready # {}
    /\ LET n == Min(Ready)
       IN  /\ cur' = n /\ charged' = attempts[n] + 1
           /\ attempts' = [attempts EXCEPT ![n] = @ + 1]
           /\ waiting' = waiting \cup {n}
    /\ pc' = "claimed"
    /\ UNCHANGED <<status, key, by, recent, askVars, sampleVars, historyVars, config, left>>

\* _deliver reads the settings; without a token it does not try.
Deliver ==
    /\ pc = "claimed"
    /\ pc' = IF config = "on" THEN "sending" ELSE "refused"
    /\ UNCHANGED <<outboxVars, cur, charged, askVars, sampleVars, historyVars, config, left>>

\* Telegram delivers and says so; or delivers and nobody hears of it; or is out of
\* reach or busy (retryable); or refuses for good.
TelegramDelivers ==
    /\ pc = "sending"
    /\ delivered' = [delivered EXCEPT ![cur] = @ + 1]
    /\ \/ pc' = "sent" /\ UNCHANGED <<unknown, left>>
       \/ /\ pc' = "again" /\ Spend("loss")
          /\ unknown' = [unknown EXCEPT ![cur] = @ + 1]
    /\ UNCHANGED <<outboxVars, cur, charged, askVars, sampleVars, resent, muted, crashes, config>>

\* Mutant: an answer that is no refusal passes for a delivery.
AnyAnswer ==
    /\ pc = "sending"
    /\ pc' = "sent" /\ UNCHANGED left
    /\ UNCHANGED <<outboxVars, cur, charged, askVars, sampleVars, historyVars, config>>
TelegramDeclines ==
    /\ pc = "sending"
    /\ \/ pc' = "again" /\ UNCHANGED left
       \/ pc' = "refused" /\ Spend("refuse")
    /\ UNCHANGED <<outboxVars, cur, charged, askVars, sampleVars, historyVars, config>>

\* Mutant: the retry that the claim had scheduled stays.
RecordSent ==
    /\ pc = "sent"
    /\ status' = [status EXCEPT ![cur] = "sent"]
    /\ waiting' = waiting \ {cur}
    /\ pc' = "idle" /\ cur' = None /\ charged' = 0
    /\ UNCHANGED <<key, attempts, by, recent, askVars, sampleVars, historyVars, config, left>>

\* Mutant: one attempt too many.
Exhausted     == pc = "refused" \/ charged >= MaxAttempts

RecordFailure ==
    /\ pc \in {"again", "refused", "erring"}
    /\ status' = [status EXCEPT ![cur] = IF Exhausted THEN "failed" ELSE "pending"]
    /\ waiting' = IF Exhausted THEN waiting \ {cur} ELSE waiting \cup {cur}
    /\ pc' = "idle" /\ cur' = None /\ charged' = 0
    /\ UNCHANGED <<key, attempts, by, recent, askVars, sampleVars, historyVars, config, left>>

\* What nobody will record any more if the worker stops here.
Forgotten == IF pc = "sent" THEN [unknown EXCEPT ![cur] = @ + 1] ELSE unknown

\* An exception on the way is recorded as a failure to be retried; another one
\* while that is recorded ends the worker.
DeliveryError ==
    /\ pc \in {"claimed", "sent", "again", "refused"} /\ Spend("error")
    /\ unknown' = Forgotten
    /\ pc' = "erring"
    /\ UNCHANGED <<outboxVars, cur, charged, askVars, sampleVars, delivered, resent, muted, crashes,
                   config>>

WorkerDies ==
    /\ pc = "erring" /\ Spend("error")
    /\ pc' = "dead" /\ cur' = None /\ charged' = 0
    /\ UNCHANGED <<outboxVars, askVars, sampleVars, historyVars, config>>

Crash ==
    /\ Serving /\ Spend("crash")
    /\ unknown' = Forgotten
    /\ pc' = "down" /\ cur' = None /\ charged' = 0 /\ sampled' = None
    /\ asked' = [n \in Rows |-> 0] /\ overtaken' = [n \in Rows |-> 0]
    /\ crashes' = crashes + 1
    /\ UNCHANGED <<outboxVars, doubled, latest, lines, disk, level, silent, delivered, resent,
                   muted, config>>

(***************************************************************************)
(* Time and the disk                                                       *)
(***************************************************************************)
Elapse(n) ==
    /\ n \in waiting /\ waiting' = waiting \ {n}
    /\ UNCHANGED <<status, key, attempts, by, recent, workerVars, askVars, sampleVars, historyVars,
                   config, left>>

\* Rows leave the window in the order in which they were written.
WindowPasses ==
    /\ recent # {} /\ recent' = recent \ {Min(recent)}
    /\ UNCHANGED <<status, key, attempts, by, waiting, workerVars, askVars, sampleVars, historyVars,
                   config, left>>

DiskChanges(fill) ==
    /\ disk # fill /\ Spend("disk") /\ disk' = fill
    /\ UNCHANGED <<outboxVars, workerVars, askVars, historyVars, config, latest, lines, sampled,
                   level, silent>>

(***************************************************************************)
(* The specification                                                       *)
(***************************************************************************)
Worker == \/ ClaimNext \/ Deliver \/ TelegramDelivers \/ TelegramDeclines
          \/ RecordSent \/ RecordFailure

Next ==
    \/ \E k \in Once : Report(k)
    \/ SampleRead \/ SampleStore
    \/ \E n \in Rows : ResendAsked(n) \/ Resend(n) \/ ResendLate(n) \/ Elapse(n)
    \/ \E outcome \in {"sent", "failed"} : SendTest(outcome)
    \/ \E c \in {"off", "unset", "on"} : Configure(c)
    \/ \E at \in Lines : MoveLines(at)
    \/ WindowPasses \/ \E fill \in Fills : DiskChanges(fill)
    \/ Boot \/ Worker \/ DeliveryError \/ WorkerDies \/ Crash

Spec == Init /\ [][Next]_vars

\* systemd restarts the process; the loop runs, polls when nobody rings, and its
\* requests time out; a backoff elapses.  Not that Telegram ever delivers.
Fairness == WF_vars(Boot) /\ WF_vars(Worker) /\ \A n \in Rows : WF_vars(Elapse(n))

FairSpec == Spec /\ Fairness

(***************************************************************************)
(* Properties                                                              *)
(***************************************************************************)
Working == {"claimed", "sending", "sent", "again", "refused", "erring"}

\* Every variable has its type, and a retry is scheduled only for what is queued.
TypeOK ==
    /\ status \in [Rows -> {"none", "pending", "sent", "failed", "suppressed"}]
    /\ key \in [Rows -> Keys \cup {None}] /\ by \in [Rows -> Rows \cup {None}]
    /\ attempts \in [Rows -> Nat] /\ waiting \subseteq {n \in Rows : status[n] = "pending"}
    /\ recent \subseteq Rows
    /\ config \in {"off", "unset", "on"} /\ latest \in Fills \cup {None} /\ lines \in Lines
    /\ asked \in [Rows -> Nat] /\ overtaken \in [Rows -> Nat] /\ doubled \in [Rows -> Nat]
    /\ pc \in {"down", "idle", "dead"} \cup Working
    /\ cur \in Rows \cup {None} /\ charged \in Nat
    /\ sampled \in [fill : Fills, at : Lines] \cup {None} /\ disk \in Fills
    /\ level \in Severities /\ silent \in BOOLEAN
    /\ delivered \in [Rows -> Nat] /\ unknown \in [Rows -> Nat] /\ resent \subseteq Rows
    /\ muted \in BOOLEAN /\ crashes \in Nat
    /\ left \in [Events -> Nat]

\* At-least-once delivery, and no more often than that explains: a row is
\* recorded `sent` only if the message was delivered, and it is delivered again
\* only if nobody could record that it was.
DeliveriesAccounted ==
    \A n \in Rows :
       delivered[n] = unknown[n]
           + (IF status[n] = "sent" \/ (pc = "sent" /\ cur = n) THEN 1 ELSE 0)

\* "Exactly once survives a restart": what happens once has one row, however
\* often it is reported and whatever became of the first report.
OneRowPerOccurrence ==
    \A m, n \in Rows : key[m] = key[n] /\ key[n] \in Once => m = n

\* A claim is current until its verdict: nobody queues, charges or decides a message that
\* the worker has in hand, but for a request to send it again that another one has
\* overtaken, which may take back its attempts.  The others are of settled messages.
ClaimIsCurrent ==
    /\ pc \in Working =>
          /\ cur \in Rows /\ status[cur] = "pending"
          /\ attempts[cur] = charged \/ (attempts[cur] = 0 /\ doubled[cur] > 0)
    /\ \A n \in Rows : asked[n] > 0 => status[n] \notin {"none", "pending"}

\* The budget of attempts is kept, but for one attempt for each time the process died
\* with a message in hand, and one for each request that was overtaken.
AttemptsBounded ==
    \A n \in Rows : attempts[n] <= MaxAttempts + crashes + doubled[n]

\* Whoever may still be claimed has an attempt left, of the budget, for a death or for an
\* overtaken request.
AttemptsLeft ==
    \A n \in Rows : /\ status[n] = "pending" /\ pc # "dead"
                    /\ ~(pc \in Working /\ cur = n)
                    => attempts[n] < MaxAttempts + crashes + doubled[n]

\* Rows are written one after the other, and one that is not written has no history.
RowsInOrder ==
    /\ \E k \in 0..MaxRows : Written = 1..k
    /\ \A n \in Rows : status[n] = "none" <=> key[n] = None
    /\ \A n \in Rows \ Written : attempts[n] = 0 /\ unknown[n] = 0 /\ overtaken[n] = 0
    /\ recent \subseteq Written
    /\ config = "off" => muted

\* What the worker has in hand agrees with its row, attempts included.
Consistent ==
    TypeOK /\ RowsInOrder /\ ClaimIsCurrent /\ AttemptsLeft /\ AttemptsBounded

\* A disk that hovers on a line does not flood the chat: of one alert, at most one
\* message within the window is queued or sent, unless an operator asked for more.
NoStorm ==
    \A m, n \in recent \ resent :
       /\ key[m] = key[n] /\ key[n] \in Alerts
       /\ {status[m], status[n]} \subseteq {"pending", "sent"}
       => m = n

\* Nothing is told twice: neither what happens once nor what keeps happening.
ToldOnce == OneRowPerOccurrence /\ NoStorm

\* Unless notifications were ever off, no snapshot is judged to be worse than some message
\* says; but for a snapshot that the lines, lowered since the one before was judged, make
\* no worse than that one has become, and those that follow it until the next alert or
\* the end of the alarm.
AlarmWasRaised ==
    ~muted /\ ~silent /\ level \in Alerts =>
        \E n \in Rows : key[n] \in Alerts /\ Rank(key[n]) >= Rank(level)

\* Every message that is queued gets a verdict: it is sent, or given up for a stated
\* reason, as long as the worker lives.
EveryMessageEnds ==
    \A n \in Rows : status[n] = "pending" ~> status[n] # "pending" \/ pc = "dead"

=============================================================================
