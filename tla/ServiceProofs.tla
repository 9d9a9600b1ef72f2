---------------------------- MODULE ServiceProofs ----------------------------
(***************************************************************************)
(* Theorems about two services of the dashboard that run beside its        *)
(* requests: Outbox, for every set of occurrences, every number of rows    *)
(* and attempts and every budget of events and faults; and, in the second  *)
(* half, Scheduler, for every set of jobs and expressions, every horizon   *)
(* and grace, and every budget of events.                                  *)
(***************************************************************************)
EXTENDS Outbox, Scheduler, FiniteSetTheorems, TLAPS

(***************************************************************************)
(* The least and the greatest of a set of numbers                          *)
(***************************************************************************)
\* A non-empty finite set of numbers has a least element: of its initial segments, one
\* has none below it.
LEMMA LeastOf ==
    ASSUME NEW S \in SUBSET Nat, IsFiniteSet(S), S # {}
    PROVE  \E m \in S : \A n \in S : m <= n
<1> DEFINE Upto(n) == {x \in S : x <= n}
           T == {Upto(n) : n \in S}
<1>1. IsWellFoundedOn(StrictSubsetOrdering(S), FiniteSubsetsOf(S))
  BY FS_StrictSubsetOrderingWellFounded
<1>2. T \subseteq FiniteSubsetsOf(S)
  BY FS_Subset DEF FiniteSubsetsOf
<1>3. T # {}
  OBVIOUS
<1>4. PICK U \in T : \A V \in T : <<V, U>> \notin StrictSubsetOrdering(S)
  <2> HIDE DEF T
  <2>1. QED
    BY <1>1, <1>2, <1>3, WFMin
<1>5. PICK m \in S : U = Upto(m)
  BY <1>4
<1>6. ASSUME NEW n \in S, n < m PROVE FALSE
  <2>0. m \in Nat /\ n \in Nat /\ \A x \in S : x \in Nat
    OBVIOUS
  <2>a. \A x \in Upto(n) : x \in Upto(m)
    BY <1>6, <2>0
  <2>b. m \in Upto(m) /\ m \notin Upto(n)
    BY <1>6, <2>0
  <2>1. Upto(n) \subseteq Upto(m) /\ Upto(n) # Upto(m)
    BY <2>a, <2>b
  <2>2. <<Upto(n), Upto(m)>> \in StrictSubsetOrdering(S)
    BY <2>1 DEF StrictSubsetOrdering
  <2>3. QED
    BY <1>4, <1>5, <2>2
<1>7. QED
  BY <1>6

LEMMA MinIn ==
    ASSUME NEW S \in SUBSET Nat, S # {}
    PROVE  Min(S) \in S
<1>1. PICK n \in S : n \in Nat
  OBVIOUS
<1> DEFINE T == {x \in S : x <= n}
<1>2. T \in SUBSET Nat /\ n \in T /\ \A x \in T : x <= n
  <2>1. n \in T
    BY <1>1
  <2>2. T \in SUBSET Nat
    OBVIOUS
  <2>3. QED
    BY <2>1, <2>2
<1>3. IsFiniteSet(T)
  <2> HIDE DEF T
  <2>1. QED
    BY <1>1, <1>2, FS_BoundedSetOfNaturals
<1>4. PICK m \in T : \A x \in T : m <= x
  <2> HIDE DEF T
  <2>1. QED
    BY <1>2, <1>3, LeastOf
<1>5. m \in S /\ \A x \in S : m <= x
  BY <1>4
<1>6. QED
  BY <1>5 DEF Min

LEMMA MaxIn ==
    ASSUME NEW N \in Nat, NEW S \in SUBSET (0..N), S # {}
    PROVE  Max(S) \in S /\ \A x \in S : x <= Max(S)
<1> DEFINE Mirror(n) == N - n
           T == {k \in 0..N : Mirror(k) \in S}
<1>1. T \in SUBSET Nat /\ IsFiniteSet(T)
  <2>1. IsFiniteSet(0..N) /\ T \subseteq 0..N
    BY FS_Interval
  <2>2. QED
    BY <2>1, FS_Subset
<1>2. T # {}
  <2>1. PICK n \in S : TRUE
    OBVIOUS
  <2>2. Mirror(n) \in 0..N /\ Mirror(Mirror(n)) = n
    OBVIOUS
  <2>3. QED
    BY <2>2
<1>3. PICK k \in T : \A j \in T : k <= j
  <2> HIDE DEF T
  <2>1. QED
    BY <1>1, <1>2, LeastOf
<1>4. Mirror(k) \in S /\ \A n \in S : Mirror(k) >= n
  <2>1. ASSUME NEW n \in S PROVE Mirror(k) >= n
    <3>1. n \in 0..N /\ Mirror(n) \in 0..N /\ Mirror(Mirror(n)) = n
      OBVIOUS
    <3>2. Mirror(n) \in T
      BY <3>1
    <3>3. k <= Mirror(n) /\ k \in 0..N
      BY <1>3, <3>2
    <3>4. QED
      BY <3>1, <3>3
  <2>2. QED
    BY <1>3, <2>1
<1>5. \E m \in S : \A n \in S : m >= n
  BY <1>4
<1>6. QED
  <2>1. Max(S) \in S /\ \A n \in S : Max(S) >= n
    BY <1>5 DEF Max
  <2>2. QED
    BY <2>1

(***************************************************************************)
(* The outbox                                                              *)
(***************************************************************************)
Statuses == {"none", "pending", "sent", "failed", "suppressed"}
Stations == {"down", "idle", "dead"} \cup Working

LEMMA RowsFinite ==
    /\ MaxRows \in Nat /\ Rows = 1..MaxRows /\ IsFiniteSet(Rows)
    /\ \A S \in SUBSET Rows : S \in SUBSET Nat /\ IsFiniteSet(S)
<1>1. MaxRows \in Nat /\ Rows = 1..MaxRows
  BY SizesAssumption DEF Rows
<1>2. IsFiniteSet(Rows)
  <2>1. 1 \in Int /\ MaxRows \in Int
    BY <1>1
  <2>2. IsFiniteSet(1..MaxRows)
    BY <2>1, FS_Interval
  <2>3. QED
    BY <1>1, <2>2
<1>3. ASSUME NEW S \in SUBSET Rows PROVE S \in SUBSET Nat /\ IsFiniteSet(S)
  <2>1. S \in SUBSET Nat
    BY <1>1
  <2>2. QED
    BY <1>2, <2>1, FS_Subset
<1>4. QED
  BY <1>1, <1>2, <1>3

\* Max and Min of rows are among them.
LEMMA MinOf ==
    ASSUME NEW S \in SUBSET Rows, S # {} PROVE Min(S) \in S
  BY RowsFinite, MinIn

LEMMA MaxOf ==
    ASSUME NEW S \in SUBSET Rows, S # {} PROVE Max(S) \in S
<1>1. MaxRows \in Nat /\ S \in SUBSET (0..MaxRows)
  BY RowsFinite
<1>2. QED
  BY <1>1, MaxIn

(***************************************************************************)
(* What a step can do to the rows                                          *)
(***************************************************************************)
\* A row is written: n is the next number, and the key is k.
Writing(n, k, s) ==
    /\ n \in Rows /\ status[n] = "none" /\ n = Cardinality(Written) + 1
    /\ status' = [status EXCEPT ![n] = s] /\ key' = [key EXCEPT ![n] = k]
    /\ recent' = recent \cup {n}
    /\ UNCHANGED <<attempts, waiting>>

\* What Enqueue writes, if it does.
Enqueued(k) ==
    \/ UNCHANGED outboxVars /\ (config = "off" \/ (k \in Once /\ Recorded(k)))
    \/ \E n \in Rows, s \in {"pending", "suppressed"}, w \in Rows \cup {None} :
          /\ Writing(n, k, s) /\ by' = [by EXCEPT ![n] = w]
          /\ k \in Once => ~Recorded(k)
          /\ k \notin Once /\ s = "pending" => Recent(k) = {}

\* What concerns one row, and what moves the disk or its lines.
Resends(n) == Resend(n) \/ ResendLate(n)
OnRow(n)   == ResendAsked(n) \/ Resend(n) \/ ResendLate(n) \/ Elapse(n)
DiskMoves  == (\E fill \in Fills : DiskChanges(fill)) \/ \E at \in Lines : MoveLines(at)

RowEffect ==
    \/ UNCHANGED outboxVars
    \/ \E k \in Once \cup Alerts : Enqueued(k) /\ UNCHANGED <<workerVars, askVars, historyVars>>
    \/ \E outcome \in {"sent", "failed"} : SendTest(outcome)
    \/ \E n \in Rows : Resends(n) \/ Elapse(n)
    \/ ClaimNext \/ RecordSent \/ RecordFailure \/ WindowPasses

WorkerEffect ==
    \/ UNCHANGED <<pc, cur, charged, crashes>>
    \/ Boot \/ ClaimNext \/ Deliver \/ TelegramDelivers \/ TelegramDeclines
    \/ RecordSent \/ RecordFailure \/ DeliveryError \/ WorkerDies \/ Crash

HistoryEffect ==
    \/ UNCHANGED <<delivered, unknown>>
    \/ \E outcome \in {"sent", "failed"} : SendTest(outcome)
    \/ \E n \in Rows : Resends(n)
    \/ TelegramDelivers \/ DeliveryError \/ Crash

AskEffect ==
    \/ UNCHANGED askVars
    \/ \E n \in Rows : ResendAsked(n) \/ Resends(n)
    \/ Crash

\* The number of the next row is that of none that is written.
LEMMA NextRow ==
    ASSUME TypeOK, RowsInOrder
    PROVE  /\ Cardinality(Written) + 1 \in Rows => status[Cardinality(Written) + 1] = "none"
           /\ Written = 1..Cardinality(Written) /\ Cardinality(Written) \in Nat
<1>1. PICK k \in 0..MaxRows : Written = 1..k
  BY DEF RowsInOrder
<1>2. k \in Int /\ 1 \in Int /\ k \in Nat
  BY <1>1, RowsFinite
<1>3. Cardinality(1..k) = IF 1 > k THEN 0 ELSE k - 1 + 1
  BY <1>2, FS_Interval
<1>4. Cardinality(Written) = k
  BY <1>1, <1>2, <1>3
<1>5. k + 1 \notin Written
  BY <1>1, <1>2
<1>6. QED
  BY <1>1, <1>2, <1>4, <1>5 DEF Written

LEMMA EnqueueWrites ==
    ASSUME TypeOK, RowsInOrder, NEW k \in Once \cup Alerts, Enqueue(k)
    PROVE  Enqueued(k)
<1>1. CASE config = "off" \/ (k \in Once /\ Recorded(k))
  BY <1>1 DEF Enqueue, Enqueued
<1>2. CASE ~(config = "off" \/ (k \in Once /\ Recorded(k)))
  <2> DEFINE n == Cardinality(Written) + 1
             withheld == k \notin Once /\ Recent(k) # {}
             s == IF withheld THEN "suppressed" ELSE "pending"
             w == IF withheld THEN Max(Recent(k)) ELSE None
  <2>1. /\ n \in Rows
        /\ key' = [key EXCEPT ![n] = k] /\ status' = [status EXCEPT ![n] = s]
        /\ by' = [by EXCEPT ![n] = w] /\ recent' = recent \cup {n}
        /\ UNCHANGED <<attempts, waiting>>
    BY <1>2 DEF Enqueue
  <2>2. status[n] = "none"
    BY <2>1, NextRow
  <2>3. Recent(k) \subseteq Rows
    BY DEF Recent, TypeOK
  <2>4. w \in Rows \cup {None}
    BY <2>3, MaxOf
  <2>5. Writing(n, k, s) /\ s \in {"pending", "suppressed"}
    BY <2>1, <2>2 DEF Writing
  <2>6. k \notin Once /\ s = "pending" => Recent(k) = {}
    OBVIOUS
  <2> HIDE DEF n, s, w
  <2>7. QED
    BY <1>2, <2>1, <2>4, <2>5, <2>6 DEF Enqueued
<1>3. QED
  BY <1>1, <1>2

\* A message is sent again: what its row was, and what the request writes.
LEMMA ResendsOf ==
    ASSUME RowsInOrder, ClaimIsCurrent, NEW n \in Rows, Resends(n)
    PROVE  /\ n \in Written /\ Requeue(n)
           /\ \/ Resend(n) /\ status[n] # "pending" /\ attempts' = [attempts EXCEPT ![n] = 0]
                 /\ UNCHANGED doubled
              \/ /\ ResendLate(n) /\ doubled' = [doubled EXCEPT ![n] = @ + 1]
                 /\ attempts' \in {attempts, [attempts EXCEPT ![n] = 0]}
<1>1. CASE Resend(n)
  BY <1>1 DEF Resend, ClaimIsCurrent, Written
<1>2. CASE ResendLate(n)
  <2>1. overtaken[n] > 0
    BY <1>2 DEF ResendLate
  <2>2. n \in Written
    BY <2>1 DEF RowsInOrder
  <2>3. QED
    BY <1>2, <2>2 DEF ResendLate
<1>3. QED
  BY <1>1, <1>2 DEF Resends

LEMMA Effects ==
    ASSUME TypeOK, RowsInOrder, [Next]_vars
    PROVE  RowEffect /\ WorkerEffect /\ HistoryEffect /\ AskEffect
<1> DEFINE Effect == RowEffect /\ WorkerEffect /\ HistoryEffect /\ AskEffect
<1>1. ASSUME NEW k \in Once, Report(k) PROVE Effect
  BY <1>1, EnqueueWrites DEF Report, RowEffect, WorkerEffect, HistoryEffect, AskEffect, askVars,
     workerVars,
     historyVars
<1>2. CASE SampleStore
  <2>1. UNCHANGED outboxVars \/ \E k \in Alerts : Enqueue(k)
    BY <1>2 DEF SampleStore, SeverityIncreased
  <2>2. UNCHANGED outboxVars \/ \E k \in Once \cup Alerts : Enqueued(k)
    BY <2>1, EnqueueWrites
  <2>3. QED
    BY <1>2, <2>2 DEF SampleStore, RowEffect, WorkerEffect, HistoryEffect, AskEffect, askVars,
       workerVars,
       historyVars
<1>3. ASSUME NEW n \in Rows, OnRow(n)
      PROVE  Effect
  BY <1>3 DEF OnRow, ResendAsked, Resends, Resend, ResendLate, Requeue, Elapse, RowEffect,
     WorkerEffect, HistoryEffect, AskEffect, askVars, workerVars, historyVars
<1>4. ASSUME NEW outcome \in {"sent", "failed"}, SendTest(outcome)
      PROVE  Effect
  BY <1>4 DEF SendTest, RowEffect, WorkerEffect, HistoryEffect, AskEffect, askVars, workerVars
<1>5. CASE Worker
  BY <1>5 DEF Worker, ClaimNext, Deliver, TelegramDelivers, TelegramDeclines, RecordSent,
     RecordFailure, RowEffect, WorkerEffect, HistoryEffect, AskEffect, askVars, historyVars
<1>6. CASE Boot \/ DeliveryError \/ WorkerDies \/ Crash
  BY <1>6 DEF Boot, DeliveryError, WorkerDies, Crash, RowEffect, WorkerEffect,
     HistoryEffect, AskEffect, askVars, historyVars
<1>7. CASE \/ SampleRead \/ WindowPasses
           \/ \E c \in {"off", "unset", "on"} : Configure(c)
           \/ DiskMoves
  BY <1>7 DEF SampleRead, WindowPasses, Configure, DiskMoves, DiskChanges, MoveLines, RowEffect,
     WorkerEffect,
     HistoryEffect, AskEffect, askVars, workerVars, historyVars
<1>8. CASE UNCHANGED vars
  BY <1>8 DEF vars, RowEffect, WorkerEffect, HistoryEffect, AskEffect, askVars, workerVars,
     historyVars
<1>9. QED
  BY <1>1, <1>2, <1>3, <1>4, <1>5, <1>6, <1>7, <1>8 DEF Next, OnRow, DiskMoves
(***************************************************************************)
(* Types                                                                   *)
(***************************************************************************)
RowsType ==
    /\ status \in [Rows -> Statuses] /\ key \in [Rows -> Keys \cup {None}]
    /\ by \in [Rows -> Rows \cup {None}] /\ attempts \in [Rows -> Nat]
    /\ waiting \subseteq {n \in Rows : status[n] = "pending"} /\ recent \subseteq Rows

WorkerType ==
    pc \in Stations /\ cur \in Rows \cup {None} /\ charged \in Nat /\ crashes \in Nat

SampleType ==
    /\ config \in {"off", "unset", "on"} /\ latest \in Fills \cup {None} /\ lines \in Lines
    /\ sampled \in [fill : Fills, at : Lines] \cup {None} /\ disk \in Fills
    /\ level \in Severities /\ silent \in BOOLEAN
    /\ resent \subseteq Rows /\ muted \in BOOLEAN

HistoryType == delivered \in [Rows -> Nat] /\ unknown \in [Rows -> Nat]

AskType ==
    asked \in [Rows -> Nat] /\ overtaken \in [Rows -> Nat] /\ doubled \in [Rows -> Nat]

LEMMA TypeParts ==
    /\ TypeOK <=> /\ RowsType /\ WorkerType /\ SampleType /\ HistoryType /\ AskType
                  /\ left \in [Events -> Nat]
    /\ TypeOK' <=> /\ RowsType' /\ WorkerType' /\ SampleType' /\ HistoryType' /\ AskType'
                   /\ left' \in [Events -> Nat]
  BY DEF TypeOK, RowsType, WorkerType, SampleType, HistoryType, AskType, Statuses, Stations

\* The worker has a row in hand, which is queued.
LEMMA InHand ==
    ASSUME Consistent, pc \in Working
    PROVE  /\ cur \in Rows /\ status[cur] = "pending"
           /\ attempts[cur] = charged \/ (attempts[cur] = 0 /\ doubled[cur] > 0)
  BY DEF Consistent, ClaimIsCurrent

\* The claim is of a queued row, and the next attempt of it is charged.
LEMMA Claims ==
    ASSUME Consistent, ClaimNext
    PROVE  /\ cur' \in Rows /\ cur' \notin waiting /\ status[cur'] = "pending"
           /\ attempts' = [attempts EXCEPT ![cur'] = @ + 1]
           /\ charged' = attempts[cur'] + 1 /\ waiting' = waiting \cup {cur'}
           /\ pc = "idle" /\ pc' = "claimed"
           /\ UNCHANGED <<status, key, by, recent, historyVars>>
<1>1. Ready \in SUBSET Rows /\ Ready # {}
  BY DEF Ready, ClaimNext
<1>2. Min(Ready) \in Ready
  BY <1>1, MinOf
<1>3. cur' = Min(Ready)
  BY DEF ClaimNext
<1>4. QED
  BY <1>2, <1>3 DEF ClaimNext, Ready

LEMMA WritingType ==
    ASSUME RowsType, NEW n, NEW k \in Keys, NEW s \in Statuses, Writing(n, k, s),
           by' \in [Rows -> Rows \cup {None}]
    PROVE  RowsType'
<1>1. status' \in [Rows -> Statuses] /\ key' \in [Rows -> Keys \cup {None}]
      /\ recent' \subseteq Rows /\ attempts' \in [Rows -> Nat]
  BY DEF RowsType, Writing
<1>2. waiting' \subseteq {m \in Rows : status'[m] = "pending"}
  BY DEF RowsType, Writing
<1>3. QED
  BY <1>1, <1>2 DEF RowsType

LEMMA RowsStep == ASSUME Consistent, [Next]_vars PROVE RowsType'
<1>t. RowsType /\ RowEffect /\ WorkerType
  BY TypeParts, Effects DEF Consistent
<1> USE DEF RowsType, Statuses
<1>1. CASE UNCHANGED outboxVars
  BY <1>1, <1>t DEF outboxVars
<1>2. ASSUME NEW k \in Once \cup Alerts, Enqueued(k) PROVE RowsType'
  <2>1. ASSUME NEW n \in Rows, NEW s \in {"pending", "suppressed"},
               NEW w \in Rows \cup {None}, Writing(n, k, s), by' = [by EXCEPT ![n] = w]
        PROVE  RowsType'
    <3>1. by' \in [Rows -> Rows \cup {None}] /\ k \in Keys /\ s \in Statuses
      BY <1>t, <2>1 DEF Keys
    <3>2. QED
      BY <1>t, <2>1, <3>1, WritingType
  <2>2. QED
    BY <1>1, <1>2, <2>1 DEF Enqueued
<1>3. ASSUME NEW outcome \in {"sent", "failed"}, SendTest(outcome) PROVE RowsType'
  <2>1. Writing(Cardinality(Written) + 1, "test", outcome) /\ by' = by
    BY <1>3, NextRow DEF SendTest, Writing, Consistent
  <2>2. outcome \in Statuses /\ "test" \in Keys
    BY DEF Keys
  <2>3. QED
    BY <1>t, <2>1, <2>2, WritingType
<1>4. ASSUME NEW n \in Rows, Resends(n) \/ Elapse(n) PROVE RowsType'
  <2>1. CASE Elapse(n)
    BY <1>t, <2>1 DEF Elapse
  <2>2. CASE Resends(n)
    <3>1. /\ status' = [status EXCEPT ![n] = "pending"] /\ UNCHANGED <<key, by, waiting, recent>>
          /\ attempts' = attempts \/ attempts' = [attempts EXCEPT ![n] = 0]
      BY <2>2, ResendsOf DEF Consistent, Requeue
    <3>2. QED
      BY <1>t, <3>1
  <2>3. QED
    BY <1>4, <2>1, <2>2
<1>5. CASE ClaimNext
  BY <1>5, <1>t, Claims
<1>6. CASE RecordSent
  BY <1>6, <1>t, InHand DEF RecordSent, Working
<1>7. CASE RecordFailure
  BY <1>7, <1>t, InHand DEF RecordFailure, Working
<1>8. CASE WindowPasses
  BY <1>8, <1>t DEF WindowPasses
<1>9. QED
  BY <1>1, <1>2, <1>3, <1>4, <1>5, <1>6, <1>7, <1>8, <1>t DEF RowEffect

LEMMA WorkerStep == ASSUME Consistent, [Next]_vars PROVE WorkerType'
<1>t. WorkerType /\ WorkerEffect /\ RowsType
  BY TypeParts, Effects DEF Consistent
<1> USE DEF WorkerType, Stations, Working
<1>1. CASE UNCHANGED <<pc, cur, charged, crashes>>
  BY <1>1, <1>t
<1>2. CASE ClaimNext
  BY <1>2, <1>t, Claims DEF RowsType, historyVars
<1>3. CASE Boot \/ Deliver \/ TelegramDelivers \/ TelegramDeclines
  BY <1>3, <1>t DEF Boot, Deliver, TelegramDelivers, TelegramDeclines, historyVars
<1>4. CASE RecordSent \/ RecordFailure
  BY <1>4, <1>t DEF RecordSent, RecordFailure, historyVars
<1>5. CASE DeliveryError \/ WorkerDies \/ Crash
  BY <1>5, <1>t DEF DeliveryError, WorkerDies, Crash, historyVars
<1>6. QED
  BY <1>1, <1>2, <1>3, <1>4, <1>5, <1>t DEF WorkerEffect

LEMMA SampleStep == ASSUME TypeOK, RowsInOrder, [Next]_vars
                    PROVE  SampleType' /\ (config' = "off" => muted')
<1>t. SampleType /\ (config = "off" => muted)
  BY TypeParts DEF RowsInOrder
<1> USE DEF SampleType
<1>1. CASE (\E k \in Once : Report(k)) \/ (\E n \in Rows : OnRow(n))
  BY <1>1, <1>t DEF Report, OnRow, ResendAsked, Resend, ResendLate, Requeue, Elapse, sampleVars,
     historyVars
<1>2. CASE SampleRead \/ WindowPasses
  BY <1>2, <1>t DEF SampleRead, WindowPasses, sampleVars, historyVars
<1>a. CASE SampleStore
  <2>1. sampled \in [fill : Fills, at : Lines]
    BY <1>t, <1>a DEF SampleStore
  <2>2. level' = Severity(sampled.fill, sampled.at) /\ latest' = sampled.fill
        /\ UNCHANGED <<config, lines, disk, resent, muted>> /\ sampled' = None
    BY <1>a DEF SampleStore, historyVars
  <2>3. level' \in Severities
    BY <2>2 DEF Severity, Severities, Alerts
  <2>4. silent' \in BOOLEAN
    <3>1. SUFFICES ASSUME NEW P, NEW Q, NEW R, NEW S, silent' = (P /\ Q /\ (R \/ S))
                   PROVE  silent' \in BOOLEAN
      BY <1>a, Zenon DEF SampleStore
    <3>2. QED
      BY <3>1, Zenon
  <2>5. QED
    BY <1>t, <2>1, <2>2, <2>3, <2>4
<1>b. CASE DiskMoves
  BY <1>b, <1>t DEF DiskMoves, DiskChanges, MoveLines, historyVars
<1>3. CASE \/ \E outcome \in {"sent", "failed"} : SendTest(outcome)
           \/ \E c \in {"off", "unset", "on"} : Configure(c)
  BY <1>3, <1>t DEF SendTest, Configure, sampleVars
<1>4. CASE Worker
  BY <1>4, <1>t DEF Worker, ClaimNext, Deliver, TelegramDelivers, TelegramDeclines,
     RecordSent, RecordFailure, sampleVars, historyVars
<1>5. CASE Boot \/ DeliveryError \/ WorkerDies \/ Crash
  BY <1>5, <1>t DEF Boot, DeliveryError, WorkerDies, Crash, sampleVars, historyVars
<1>6. CASE UNCHANGED vars
  BY <1>6, <1>t DEF vars, sampleVars, historyVars
<1>7. QED
  BY <1>1, <1>2, <1>a, <1>b, <1>3, <1>4, <1>5, <1>6 DEF Next, OnRow, DiskMoves

LEMMA HistoryStep == ASSUME Consistent, [Next]_vars PROVE HistoryType'
<1>t. HistoryType /\ HistoryEffect
  BY TypeParts, Effects DEF Consistent
<1> USE DEF HistoryType
<1>1. CASE UNCHANGED <<delivered, unknown>>
  BY <1>1, <1>t
<1>2. ASSUME NEW outcome \in {"sent", "failed"}, SendTest(outcome) PROVE HistoryType'
  BY <1>2, <1>t DEF SendTest
<1>3. ASSUME NEW n \in Rows, Resends(n) PROVE HistoryType'
  <2>1. PICK d \in {0, 1} : /\ delivered' = [delivered EXCEPT ![n] = d]
                            /\ unknown' = [unknown EXCEPT ![n] = 0]
    BY <1>3 DEF Resends, Resend, ResendLate, Requeue
  <2>2. QED
    BY <1>t, <2>1
<1>4. CASE TelegramDelivers
  <2>1. delivered' = [delivered EXCEPT ![cur] = @ + 1]
        /\ (unknown' = unknown \/ unknown' = [unknown EXCEPT ![cur] = @ + 1])
    BY <1>4 DEF TelegramDelivers
  <2>2. cur \in Rows
    BY <1>4, InHand DEF TelegramDelivers, Working
  <2>3. QED
    BY <1>t, <2>1, <2>2
<1>5. CASE DeliveryError \/ Crash
  BY <1>5, <1>t DEF DeliveryError, Crash, Forgotten
<1>6. QED
  BY <1>1, <1>2, <1>3, <1>4, <1>5, <1>t DEF HistoryEffect

\* The requests in flight are counted, and those that were overtaken and committed are
\* not forgotten.
LEMMA AskStep ==
    ASSUME Consistent, [Next]_vars
    PROVE  AskType' /\ \A n \in Rows : doubled'[n] >= doubled[n]
<1>t. AskType /\ AskEffect /\ Rows \subseteq Nat
  BY TypeParts, Effects, RowsFinite DEF Consistent
<1> USE DEF AskType
<1>1. CASE UNCHANGED askVars
  BY <1>1, <1>t DEF askVars
<1>2. CASE Crash
  BY <1>2, <1>t DEF Crash
<1>3. ASSUME NEW n \in Rows, ResendAsked(n)
      PROVE  AskType' /\ \A m \in Rows : doubled'[m] >= doubled[m]
  BY <1>3, <1>t DEF ResendAsked
<1>4. ASSUME NEW n \in Rows, Resends(n)
      PROVE  AskType' /\ \A m \in Rows : doubled'[m] >= doubled[m]
  <2>1. asked[n] \in Nat /\ overtaken[n] \in Nat /\ doubled[n] \in Nat
    BY <1>t
  <2>2. asked[n] > 0 \/ overtaken[n] > 0
    BY <1>4 DEF Resends, Resend, ResendLate
  <2>3. overtaken[n] + asked[n] - 1 \in Nat
    BY <2>1, <2>2
  <2>4. /\ asked' = [asked EXCEPT ![n] = 0]
        /\ overtaken' = [overtaken EXCEPT ![n] = overtaken[n] + asked[n] - 1]
        /\ doubled' = doubled \/ doubled' = [doubled EXCEPT ![n] = doubled[n] + 1]
    BY <1>4 DEF Resends, Resend, ResendLate
  <2>5. QED
    BY <1>t, <2>1, <2>3, <2>4
<1>5. QED
  BY <1>1, <1>2, <1>3, <1>4, <1>t DEF AskEffect

LEMMA LeftStep == ASSUME TypeOK, [Next]_vars PROVE left' \in [Events -> Nat]
<1>t. left \in [Events -> Nat]
  BY DEF TypeOK
<1>1. \/ UNCHANGED left
      \/ \E e \in Events : Spend(e)
  <2>1. CASE (\E k \in Once : Report(k)) \/ (\E n \in Rows : OnRow(n))
    BY <2>1 DEF Report, OnRow, ResendAsked, Resend, ResendLate, Requeue, Elapse, Events
  <2>2. CASE \/ SampleRead \/ SampleStore \/ WindowPasses
             \/ DiskMoves
    BY <2>2 DEF SampleRead, SampleStore, WindowPasses, DiskMoves, DiskChanges, MoveLines, Events
  <2>3. CASE \/ \E outcome \in {"sent", "failed"} : SendTest(outcome)
             \/ \E c \in {"off", "unset", "on"} : Configure(c)
    BY <2>3 DEF SendTest, Configure, Events
  <2>4. CASE Worker
    BY <2>4 DEF Worker, ClaimNext, Deliver, TelegramDelivers, TelegramDeclines, RecordSent,
       RecordFailure, Events
  <2>5. CASE Boot \/ DeliveryError \/ WorkerDies \/ Crash \/ UNCHANGED vars
    BY <2>5 DEF Boot, DeliveryError, WorkerDies, Crash, vars, Events
  <2>6. QED
    BY <2>1, <2>2, <2>3, <2>4, <2>5 DEF Next, OnRow, DiskMoves
<1>2. ASSUME NEW e \in Events, Spend(e) PROVE left' \in [Events -> Nat]
  BY <1>t, <1>2 DEF Spend
<1>3. QED
  BY <1>t, <1>1, <1>2

LEMMA TypeNext == ASSUME Consistent, [Next]_vars PROVE TypeOK'
  BY TypeParts, RowsStep, WorkerStep, SampleStep, HistoryStep, AskStep, LeftStep DEF Consistent
(***************************************************************************)
(* The parts of the invariant, step by step                                *)
(***************************************************************************)
\* Writing a row leaves the rows in order.
LEMMA WritingInOrder ==
    ASSUME TypeOK, RowsInOrder, NEW n, NEW k, k # None, NEW s \in Statuses \ {"none"},
           Writing(n, k, s), UNCHANGED <<unknown, overtaken>>
    PROVE  /\ \E c \in 0..MaxRows : Written' = 1..c
           /\ \A m \in Rows : status'[m] = "none" <=> key'[m] = None
           /\ \A m \in Rows \ Written' : /\ attempts'[m] = 0 /\ unknown'[m] = 0
                                          /\ overtaken'[m] = 0
           /\ recent' \subseteq Written'
<1>t. RowsType
  BY TypeParts
<1>1. Written' = Written \cup {n}
  BY <1>t DEF Written, Writing, RowsType, Statuses
<1>2. Written = 1..(n - 1) /\ n \in 1..MaxRows
  BY NextRow, RowsFinite DEF Writing
<1>3. Written' = 1..n
  BY <1>1, <1>2, RowsFinite
<1>4. n \in 0..MaxRows
  BY <1>2, RowsFinite
<1>5. \A m \in Rows : status'[m] = "none" <=> key'[m] = None
  BY <1>t DEF RowsInOrder, Writing, RowsType
<1>6. \A m \in Rows \ Written' :
         attempts'[m] = 0 /\ unknown'[m] = 0 /\ overtaken'[m] = 0
  BY <1>1 DEF RowsInOrder, Writing
<1>7. recent' \subseteq Written'
  BY <1>1 DEF RowsInOrder, Writing
<1>8. QED
  BY <1>3, <1>4, <1>5, <1>6, <1>7

LEMMA NoneIsNone == \A k \in Keys : k # None
  BY KeysAssumption

LEMMA OrderStep == ASSUME Consistent, [Next]_vars PROVE RowsInOrder'
<1>t. /\ TypeOK /\ RowsInOrder /\ RowsType /\ HistoryType /\ ClaimIsCurrent /\ AskType
      /\ RowEffect /\ HistoryEffect /\ AskEffect /\ (config' = "off" => muted')
  BY TypeParts, Effects, SampleStep DEF Consistent
<1>o. \A m \in Rows \ Written : overtaken'[m] = 0
  <2>1. CASE UNCHANGED askVars \/ Crash
    BY <1>t, <2>1 DEF askVars, Crash, RowsInOrder
  <2>2. ASSUME NEW n \in Rows, ResendAsked(n) PROVE \A m \in Rows \ Written : overtaken'[m] = 0
    BY <1>t, <2>2 DEF ResendAsked, RowsInOrder
  <2>3. ASSUME NEW n \in Rows, Resends(n) PROVE \A m \in Rows \ Written : overtaken'[m] = 0
    <3>1. n \in Written
      BY <1>t, <2>3, ResendsOf
    <3>2. overtaken' = [overtaken EXCEPT ![n] = @ + asked[n] - 1]
      BY <2>3 DEF Resends, Resend, ResendLate
    <3>3. QED
      BY <1>t, <3>1, <3>2 DEF RowsInOrder, AskType
  <2>4. QED
    BY <1>t, <2>1, <2>2, <2>3 DEF AskEffect
<1>1. CASE UNCHANGED <<status, key, attempts, recent>>
  <2>1. Written' = Written
    BY <1>1 DEF Written
  <2>2. \A m \in Rows \ Written : unknown'[m] = 0
    <3>1. CASE UNCHANGED <<delivered, unknown>>
      BY <1>t, <3>1 DEF RowsInOrder
    <3>2. CASE TelegramDelivers \/ DeliveryError \/ Crash
      <4>1. unknown' = unknown \/ (pc \in Working /\ unknown' = [unknown EXCEPT ![cur] = @ + 1])
        BY <3>2 DEF TelegramDelivers, DeliveryError, Crash, Forgotten, Working
      <4>2. pc \in Working => cur \in Written
        BY InHand DEF Written
      <4>3. QED
        BY <1>t, <4>1, <4>2 DEF RowsInOrder, HistoryType
    <3>3. ASSUME NEW n \in Rows, Resends(n) PROVE \A m \in Rows \ Written : unknown'[m] = 0
      <4>1. unknown' = [unknown EXCEPT ![n] = 0]
        BY <3>3 DEF Resends, Resend, ResendLate, Requeue
      <4>2. QED
        BY <1>t, <4>1 DEF RowsInOrder, HistoryType
    <3>4. ASSUME NEW outcome \in {"sent", "failed"}, SendTest(outcome)
          PROVE  \A m \in Rows \ Written : unknown'[m] = 0
      BY <1>t, <3>4 DEF SendTest, RowsInOrder
    <3>5. QED
      BY <1>t, <3>1, <3>2, <3>3, <3>4 DEF HistoryEffect
  <2>3. QED
    BY <1>1, <1>t, <1>o, <2>1, <2>2 DEF RowsInOrder
<1>2. ASSUME NEW n, NEW k, k # None, NEW s \in Statuses \ {"none"}, Writing(n, k, s),
             UNCHANGED <<unknown, overtaken>>
      PROVE  RowsInOrder'
  BY <1>2, <1>t, WritingInOrder DEF RowsInOrder
<1>3. ASSUME NEW k \in Once \cup Alerts, Enqueued(k), UNCHANGED historyVars,
             UNCHANGED overtaken
      PROVE  RowsInOrder'
  BY <1>1, <1>2, <1>3, NoneIsNone DEF Enqueued, outboxVars, historyVars, Statuses, Keys
<1>4. ASSUME NEW outcome \in {"sent", "failed"}, SendTest(outcome) PROVE RowsInOrder'
  <2>1. Writing(Cardinality(Written) + 1, "test", outcome) /\ UNCHANGED <<unknown, overtaken>>
    BY <1>t, <1>4, NextRow DEF SendTest, Writing, askVars
  <2>2. outcome \in Statuses \ {"none"} /\ "test" # None
    BY NoneIsNone DEF Keys, Statuses
  <2>3. QED
    BY <1>2, <2>1, <2>2
<1>5. ASSUME UNCHANGED key, UNCHANGED unknown, recent' \subseteq recent,
             Written' = Written, \A m \in Rows \ Written : attempts'[m] = 0
      PROVE  RowsInOrder'
  <2>1. \A m \in Rows : status'[m] = "none" <=> key'[m] = None
    BY <1>5, <1>t DEF RowsInOrder, Written
  <2>2. QED
    BY <1>5, <1>t, <1>o, <2>1 DEF RowsInOrder
<1>6. ASSUME NEW n \in Rows, Resends(n) PROVE RowsInOrder'
  <2>a. /\ n \in Written /\ UNCHANGED <<key, recent>>
        /\ status' = [status EXCEPT ![n] = "pending"] /\ unknown' = [unknown EXCEPT ![n] = 0]
        /\ attempts' = attempts \/ attempts' = [attempts EXCEPT ![n] = 0]
    BY <1>6, <1>t, ResendsOf DEF Requeue
  <2>1. Written' = Written /\ n \in Written
    BY <1>t, <2>a DEF Written, RowsType
  <2>2. \A m \in Rows \ Written : attempts'[m] = 0 /\ unknown'[m] = 0 /\ overtaken'[m] = 0
    BY <1>t, <1>o, <2>a DEF RowsInOrder, RowsType, HistoryType
  <2>3. \A m \in Rows : status'[m] = "none" <=> key'[m] = None
    BY <1>t, <2>a, <2>1 DEF RowsInOrder, Written
  <2>4. QED
    BY <1>t, <2>a, <2>1, <2>2, <2>3 DEF RowsInOrder
<1>7. ASSUME NEW n \in Rows, Elapse(n) PROVE RowsInOrder'
  BY <1>1, <1>7 DEF Elapse
<1>8. CASE ClaimNext
  <2>1. cur' \in Written /\ Written' = Written
    BY <1>8, Claims DEF Written
  <2>2. QED
    BY <1>5, <1>8, <1>t, <2>1, Claims DEF RowsInOrder, RowsType, historyVars
<1>9. CASE RecordSent \/ RecordFailure
  <2>1. cur \in Rows /\ status[cur] = "pending"
    BY <1>9, InHand DEF RecordSent, RecordFailure, Working
  <2>2. Written' = Written
    BY <1>9, <1>t, <2>1 DEF RecordSent, RecordFailure, Written, RowsType
  <2>3. QED
    BY <1>5, <1>9, <1>t, <2>2 DEF RecordSent, RecordFailure, RowsInOrder, historyVars
<1>10. CASE WindowPasses
  <2>1. Written' = Written
    BY <1>10 DEF WindowPasses, Written
  <2>2. QED
    BY <1>5, <1>10, <1>t, <2>1 DEF WindowPasses, RowsInOrder, historyVars
<1>11. QED
  BY <1>1, <1>3, <1>4, <1>6, <1>7, <1>8, <1>9, <1>10, <1>t DEF RowEffect, outboxVars, askVars
\* What is queued stays so, and is not charged again, but by the worker; an overtaken
\* request may take its attempts back.
LEMMA QueuedStays ==
    ASSUME Consistent, [Next]_vars, NEW n \in Rows, status[n] = "pending",
           ~(ClaimNext \/ RecordSent \/ RecordFailure)
    PROVE  /\ status'[n] = "pending"
           /\ attempts'[n] = attempts[n] \/ (attempts'[n] = 0 /\ doubled'[n] > 0)
<1>t. RowsType /\ RowEffect /\ AskType /\ RowsInOrder /\ ClaimIsCurrent
  BY TypeParts, Effects DEF Consistent
<1>1. CASE UNCHANGED outboxVars \/ WindowPasses
  BY <1>1 DEF outboxVars, WindowPasses
<1>2. ASSUME NEW m, NEW k, NEW s, Writing(m, k, s)
      PROVE  status'[n] = "pending" /\ attempts'[n] = attempts[n]
  BY <1>t, <1>2 DEF Writing, RowsType
<1>3. ASSUME NEW outcome \in {"sent", "failed"}, SendTest(outcome)
      PROVE  status'[n] = "pending" /\ attempts'[n] = attempts[n]
  <2>1. Writing(Cardinality(Written) + 1, "test", outcome)
    BY <1>3, NextRow DEF SendTest, Writing, Consistent
  <2>2. QED
    BY <1>2, <2>1
<1>4. ASSUME NEW m \in Rows, Resends(m) \/ Elapse(m)
      PROVE  /\ status'[n] = "pending"
             /\ attempts'[n] = attempts[n] \/ (attempts'[n] = 0 /\ doubled'[n] > 0)
  <2>1. CASE Elapse(m)
    BY <2>1 DEF Elapse
  <2>2. CASE Resends(m)
    <3>1. /\ status' = [status EXCEPT ![m] = "pending"]
          /\ \/ status[m] # "pending" /\ attempts' = [attempts EXCEPT ![m] = 0]
             \/ /\ doubled' = [doubled EXCEPT ![m] = @ + 1]
                /\ attempts' \in {attempts, [attempts EXCEPT ![m] = 0]}
      BY <1>t, <2>2, ResendsOf DEF Requeue
    <3>2. QED
      BY <1>t, <3>1 DEF RowsType, AskType
  <2>3. QED
    BY <1>4, <2>1, <2>2
<1>5. QED
  BY <1>1, <1>2, <1>3, <1>4, <1>t DEF RowEffect, Enqueued

\* A queued row was queued before, or is new or resent and has all its attempts, or was
\* queued by an overtaken request.
LEMMA QueuedBefore ==
    ASSUME Consistent, [Next]_vars, NEW n \in Rows, ~ClaimNext
    PROVE  /\ attempts'[n] = attempts[n] \/ attempts'[n] = 0
           /\ status'[n] = "pending" => \/ attempts'[n] = 0
                                        \/ status[n] = "pending" /\ attempts'[n] = attempts[n]
                                        \/ /\ attempts'[n] = attempts[n] /\ ~Crash
                                           /\ doubled'[n] = doubled[n] + 1
<1>t. RowsType /\ RowEffect /\ RowsInOrder /\ ClaimIsCurrent /\ AskType
  BY TypeParts, Effects DEF Consistent
<1>1. CASE UNCHANGED outboxVars \/ WindowPasses
  BY <1>1 DEF outboxVars, WindowPasses
<1>2. ASSUME NEW m, NEW k, NEW s, Writing(m, k, s)
      PROVE  /\ attempts'[n] = attempts[n]
             /\ status'[n] = "pending" => attempts'[n] = 0 \/ status[n] = "pending"
  BY <1>t, <1>2 DEF Writing, RowsType, RowsInOrder, Written
<1>3. ASSUME NEW outcome \in {"sent", "failed"}, SendTest(outcome)
      PROVE  /\ attempts'[n] = attempts[n]
             /\ status'[n] = "pending" => attempts'[n] = 0 \/ status[n] = "pending"
  <2>1. Writing(Cardinality(Written) + 1, "test", outcome)
    BY <1>3, NextRow DEF SendTest, Writing, Consistent
  <2>2. QED
    BY <1>2, <2>1
<1>4. ASSUME NEW m \in Rows, Resends(m) \/ Elapse(m)
      PROVE  \/ attempts'[n] = 0
             \/ attempts'[n] = attempts[n] /\ status'[n] = status[n]
             \/ attempts'[n] = attempts[n] /\ doubled'[n] = doubled[n] + 1 /\ ~Crash
  <2>1. CASE Elapse(m)
    BY <2>1 DEF Elapse
  <2>2. CASE Resends(m)
    <3>1. /\ status' = [status EXCEPT ![m] = "pending"] /\ ~Crash
          /\ \/ attempts' = [attempts EXCEPT ![m] = 0]
             \/ /\ doubled' = [doubled EXCEPT ![m] = @ + 1]
                /\ attempts' = attempts
      <4>1. ~Crash
        BY <1>t, <2>2, ResendsOf DEF Requeue, Crash, workerVars, Serving
      <4>2. QED
        BY <1>t, <2>2, <4>1, ResendsOf DEF Requeue
    <3>2. QED
      BY <1>t, <3>1 DEF RowsType, AskType
  <2>3. QED
    BY <1>4, <2>1, <2>2
<1>5. CASE RecordSent \/ RecordFailure
  <2>1. cur \in Rows /\ status[cur] = "pending"
    BY <1>5, InHand DEF RecordSent, RecordFailure, Working
  <2>2. QED
    BY <1>5, <1>t, <2>1 DEF RecordSent, RecordFailure, RowsType
<1>6. QED
  BY <1>1, <1>2, <1>3, <1>4, <1>5, <1>t DEF RowEffect, Enqueued

LEMMA AskedStep ==
    ASSUME Consistent, [Next]_vars, NEW n \in Rows, asked'[n] > 0
    PROVE  status'[n] \notin {"none", "pending"}
<1>t. RowsType /\ RowEffect /\ AskType /\ AskEffect /\ RowsInOrder /\ ClaimIsCurrent
  BY TypeParts, Effects DEF Consistent
<1> DEFINE Settled == status[n] \notin {"none", "pending"}
           StaysSettled == status'[n] \notin {"none", "pending"}
<1>1. CASE Crash
  BY <1>1 DEF Crash
<1>2. ASSUME NEW m \in Rows, Resends(m) PROVE StaysSettled
  <2>1. /\ status' = [status EXCEPT ![m] = "pending"] /\ asked' = [asked EXCEPT ![m] = 0]
    BY <1>2 DEF Resends, Resend, ResendLate, Requeue
  <2>2. m # n /\ asked[n] > 0
    BY <1>t, <2>1 DEF AskType
  <2>3. QED
    BY <1>t, <2>1, <2>2 DEF ClaimIsCurrent, RowsType
<1>3. ASSUME NEW m \in Rows, ResendAsked(m) PROVE StaysSettled
  <2>1. status' = status /\ Resendable(m) /\ asked' = [asked EXCEPT ![m] = @ + 1]
    BY <1>3 DEF ResendAsked, outboxVars
  <2>2. QED
    BY <1>t, <2>1 DEF ClaimIsCurrent, AskType, Resendable
<1>4. CASE UNCHANGED askVars
  <2>1. Settled
    BY <1>t, <1>4 DEF ClaimIsCurrent, askVars
  <2>2. CASE UNCHANGED outboxVars \/ WindowPasses
    BY <2>1, <2>2 DEF outboxVars, WindowPasses
  <2>3. ASSUME NEW m, NEW k, NEW s, Writing(m, k, s) PROVE StaysSettled
    BY <1>t, <2>1, <2>3 DEF Writing, RowsType
  <2>4. ASSUME NEW outcome \in {"sent", "failed"}, SendTest(outcome) PROVE StaysSettled
    <3>1. Writing(Cardinality(Written) + 1, "test", outcome)
      BY <2>4, NextRow DEF SendTest, Writing, Consistent
    <3>2. QED
      BY <2>3, <3>1
  <2>5. ASSUME NEW m \in Rows, Elapse(m) PROVE StaysSettled
    BY <2>1, <2>5 DEF Elapse
  <2>6. CASE ClaimNext
    BY <2>1, <2>6, Claims
  <2>7. CASE RecordSent \/ RecordFailure
    <3>1. cur \in Rows /\ status[cur] = "pending"
      BY <2>7, InHand DEF RecordSent, RecordFailure, Working
    <3>2. QED
      BY <1>t, <2>1, <2>7, <3>1 DEF RecordSent, RecordFailure, RowsType
  <2>8. QED
    BY <1>2, <1>t, <2>2, <2>3, <2>4, <2>5, <2>6, <2>7 DEF RowEffect, Enqueued
<1>5. QED
  BY <1>1, <1>2, <1>3, <1>4, <1>t DEF AskEffect

LEMMA ClaimStep == ASSUME Consistent, [Next]_vars PROVE ClaimIsCurrent'
<1>t. WorkerEffect /\ RowsType /\ AskType /\ AskType' /\ \A n \in Rows : doubled'[n] >= doubled[n]
  BY TypeParts, Effects, AskStep DEF Consistent
<1> SUFFICES ASSUME pc' \in Working
             PROVE  /\ cur' \in Rows /\ status'[cur'] = "pending"
                    /\ \/ attempts'[cur'] = charged'
                       \/ attempts'[cur'] = 0 /\ doubled'[cur'] > 0
  BY AskedStep DEF ClaimIsCurrent
<1>1. CASE ClaimNext
  BY <1>1, <1>t, Claims DEF RowsType
<1>2. CASE RecordSent \/ RecordFailure \/ Boot \/ WorkerDies \/ Crash
  BY <1>2 DEF RecordSent, RecordFailure, Boot, WorkerDies, Crash, Working
<1>3. CASE UNCHANGED <<pc, cur, charged, crashes>>
  <2>1. CASE ClaimNext \/ RecordSent \/ RecordFailure
    BY <1>1, <1>2, <2>1
  <2>2. CASE ~(ClaimNext \/ RecordSent \/ RecordFailure)
    <3>1. /\ cur \in Rows /\ status[cur] = "pending" /\ pc' = pc /\ cur' = cur /\ charged' = charged
          /\ attempts[cur] = charged \/ (attempts[cur] = 0 /\ doubled[cur] > 0)
      BY <1>3, InHand
    <3>2. /\ status'[cur] = "pending"
          /\ attempts'[cur] = attempts[cur] \/ (attempts'[cur] = 0 /\ doubled'[cur] > 0)
      BY <2>2, <3>1, QueuedStays
    <3>3. doubled[cur] \in Nat /\ doubled'[cur] \in Nat /\ doubled'[cur] >= doubled[cur]
      BY <1>t, <3>1 DEF AskType
    <3>4. QED
      BY <3>1, <3>2, <3>3
  <2>3. QED
    BY <2>1, <2>2
<1>4. CASE Deliver \/ TelegramDelivers \/ TelegramDeclines \/ DeliveryError
  BY <1>4, InHand DEF Deliver, TelegramDelivers, TelegramDeclines, DeliveryError, Working,
     outboxVars, askVars
<1>5. QED
  BY <1>1, <1>2, <1>3, <1>4, <1>t DEF WorkerEffect

LEMMA AttemptsStep == ASSUME Consistent, [Next]_vars PROVE AttemptsLeft' /\ AttemptsBounded'
<1>t. /\ WorkerEffect /\ RowsType /\ WorkerType /\ AttemptsLeft /\ AttemptsBounded
      /\ MaxAttempts \in Nat \ {0} /\ AskType /\ AskType'
      /\ \A n \in Rows : doubled'[n] >= doubled[n]
  BY TypeParts, Effects, AskStep, SizesAssumption DEF Consistent
<1>c. crashes' = crashes \/ crashes' = crashes + 1
  BY <1>t DEF WorkerEffect, Boot, ClaimNext, Deliver, TelegramDelivers, TelegramDeclines,
     RecordSent, RecordFailure, DeliveryError, WorkerDies, Crash, historyVars
<1> SUFFICES ASSUME NEW n \in Rows
             PROVE  /\ attempts'[n] <= MaxAttempts + crashes' + doubled'[n]
                    /\ /\ status'[n] = "pending" /\ pc' # "dead"
                       /\ ~(pc' \in Working /\ cur' = n)
                       => attempts'[n] < MaxAttempts + crashes' + doubled'[n]
  BY DEF AttemptsLeft, AttemptsBounded
<1>n. /\ attempts[n] \in Nat /\ crashes \in Nat /\ attempts[n] <= MaxAttempts + crashes + doubled[n]
      /\ status[n] = "pending" /\ pc # "dead" /\ ~(pc \in Working /\ cur = n)
         => attempts[n] < MaxAttempts + crashes + doubled[n]
      /\ doubled[n] \in Nat /\ doubled'[n] \in Nat /\ doubled'[n] >= doubled[n]
  BY <1>t DEF AskType, RowsType, WorkerType, AttemptsLeft, AttemptsBounded
<1>1. CASE ClaimNext
  <2>1. /\ attempts'[n] = IF n = cur' THEN attempts[n] + 1 ELSE attempts[n]
        /\ status'[n] = status[n] /\ pc = "idle" /\ pc' \in Working /\ crashes' = crashes
        /\ n = cur' => status[n] = "pending"
    BY <1>1, <1>t, Claims DEF RowsType, Working, historyVars
  <2>2. pc \notin Working /\ pc # "dead"
    BY <2>1 DEF Working
  <2>3. QED
    BY <1>n, <1>t, <2>1, <2>2
<1>2. CASE ~ClaimNext
  <2>q. /\ attempts'[n] = attempts[n] \/ attempts'[n] = 0
        /\ status'[n] = "pending" => \/ attempts'[n] = 0
                                     \/ status[n] = "pending" /\ attempts'[n] = attempts[n]
                                     \/ /\ attempts'[n] = attempts[n] /\ ~Crash
                                        /\ doubled'[n] = doubled[n] + 1
    BY <1>2, QueuedBefore
  <2>b. attempts'[n] <= MaxAttempts + crashes' + doubled'[n]
    BY <1>n, <1>t, <1>c, <2>q
  <2>1. SUFFICES ASSUME status'[n] = "pending", pc' # "dead",
                        ~(pc' \in Working /\ cur' = n), attempts'[n] # 0
                 PROVE  attempts'[n] < MaxAttempts + crashes' + doubled'[n]
    BY <1>n, <1>t, <1>c, <2>b
  <2>0. CASE doubled'[n] = doubled[n] + 1 /\ attempts'[n] = attempts[n]
    BY <1>n, <1>t, <1>c, <2>0
  <2>2. SUFFICES ASSUME status[n] = "pending", attempts'[n] = attempts[n]
                 PROVE  attempts'[n] < MaxAttempts + crashes' + doubled'[n]
    BY <2>q, <2>1, <2>0
  <2>3. CASE Crash
    BY <1>n, <1>t, <2>2, <2>3 DEF Crash
  <2>4. CASE pc # "dead" /\ ~(pc \in Working /\ cur = n) /\ ~Crash
    BY <1>n, <1>t, <1>c, <2>2, <2>4
  <2>5. CASE pc = "dead" /\ ~Crash
    BY <1>t, <2>1, <2>5 DEF WorkerEffect, Boot, ClaimNext, Deliver, TelegramDelivers,
       TelegramDeclines, RecordSent, RecordFailure, DeliveryError, WorkerDies
  <2>6. CASE pc \in Working /\ cur = n /\ ~Crash
    <3>1. CASE RecordSent
      <4>1. status' = [status EXCEPT ![cur] = "sent"]
        BY <3>1 DEF RecordSent
      <4>2. QED
        BY <1>t, <2>1, <2>6, <4>1 DEF RowsType
    <3>2. CASE RecordFailure
      <4>1. ~Exhausted
        BY <1>t, <2>1, <2>6, <3>2 DEF RecordFailure, RowsType
      <4>2. attempts[n] = charged /\ charged < MaxAttempts
        BY <1>t, <2>1, <2>2, <2>6, <4>1, InHand DEF Exhausted, WorkerType
      <4>3. QED
        BY <1>n, <1>t, <1>c, <2>2, <4>2
    <3>3. CASE ~RecordSent /\ ~RecordFailure
      BY <1>2, <1>t, <2>1, <2>6, <3>3 DEF WorkerEffect, Boot, Deliver, TelegramDelivers,
         TelegramDeclines, DeliveryError, WorkerDies, Working
    <3>4. QED
      BY <3>1, <3>2, <3>3
  <2>7. QED
    BY <2>3, <2>4, <2>5, <2>6
<1>3. QED
  BY <1>1, <1>2
(***************************************************************************)
(* Deliveries, messages told once, and alarms                              *)
(***************************************************************************)
\* What a row is recorded or about to be recorded as.
Credit(n) == IF status[n] = "sent" \/ (pc = "sent" /\ cur = n) THEN 1 ELSE 0

LEMMA DeliveriesStep ==
    ASSUME Consistent, DeliveriesAccounted, [Next]_vars PROVE DeliveriesAccounted'
<1>t. /\ RowsType /\ WorkerType /\ HistoryType /\ RowsInOrder
      /\ RowEffect /\ WorkerEffect /\ HistoryEffect
  BY TypeParts, Effects DEF Consistent
<1>h. pc = "sent" => cur \in Rows /\ status[cur] = "pending"
  BY InHand DEF Working
<1>o. ClaimIsCurrent'
  BY ClaimStep
<1>d. \A n \in Rows : delivered[n] = unknown[n] + Credit(n)
  BY DEF DeliveriesAccounted, Credit
<1>s. SUFFICES ASSUME NEW n \in Rows PROVE delivered'[n] = unknown'[n] + Credit(n)'
  BY DEF DeliveriesAccounted, Credit
<1>n. /\ delivered[n] = unknown[n] + Credit(n) /\ delivered[n] \in Nat /\ unknown[n] \in Nat
      /\ ~(status[n] = "sent" /\ pc = "sent" /\ cur = n)
  BY <1>t, <1>d, <1>h DEF HistoryType
<1>1. ASSUME UNCHANGED <<delivered, unknown>>, Credit(n)' = Credit(n)
      PROVE  delivered'[n] = unknown'[n] + Credit(n)'
  BY <1>1, <1>n
<1>2. ASSUME NEW k \in Once \cup Alerts, Enqueued(k), UNCHANGED <<workerVars, historyVars>>
      PROVE  delivered'[n] = unknown'[n] + Credit(n)'
  <2>1. status'[n] = "sent" <=> status[n] = "sent"
    BY <1>2, <1>t DEF Enqueued, Writing, RowsType, outboxVars
  <2>2. QED
    BY <1>1, <1>2, <2>1 DEF Credit, workerVars, historyVars
<1>3. ASSUME NEW outcome \in {"sent", "failed"}, SendTest(outcome)
      PROVE  delivered'[n] = unknown'[n] + Credit(n)'
  <2> DEFINE m == Cardinality(Written) + 1
  <2>1. /\ Writing(m, "test", outcome) /\ unknown' = unknown /\ UNCHANGED workerVars
        /\ delivered' = [delivered EXCEPT ![m] = IF outcome = "sent" THEN 1 ELSE 0]
    BY <1>3, <1>t, NextRow DEF SendTest, Writing, Consistent
  <2> HIDE DEF m
  <2>2. CASE n = m
    <3>1. status[n] = "none" /\ unknown[n] = 0 /\ ~(pc = "sent" /\ cur = n)
      BY <1>t, <1>h, <2>1, <2>2 DEF Writing, RowsInOrder, Written
    <3>2. status'[n] = outcome /\ ~(pc' = "sent" /\ cur' = n)
      BY <1>t, <2>1, <2>2, <3>1 DEF Writing, RowsType, workerVars
    <3>3. delivered'[n] = IF outcome = "sent" THEN 1 ELSE 0
      BY <1>t, <2>1, <2>2 DEF HistoryType
    <3>4. QED
      BY <2>1, <3>1, <3>2, <3>3 DEF Credit
  <2>3. CASE n # m
    <3>1. status'[n] = status[n] /\ delivered'[n] = delivered[n] /\ unknown'[n] = unknown[n]
          /\ pc' = pc /\ cur' = cur
      BY <1>t, <2>1, <2>3 DEF Writing, RowsType, HistoryType, workerVars
    <3>2. QED
      BY <1>n, <3>1 DEF Credit
  <2>4. QED
    BY <2>2, <2>3
<1>4. ASSUME NEW m \in Rows, Resends(m) PROVE delivered'[n] = unknown'[n] + Credit(n)'
  <2>1. /\ UNCHANGED workerVars /\ status' = [status EXCEPT ![m] = "pending"]
        /\ delivered' = [delivered EXCEPT ![m] = IF pc = "sent" /\ cur = m THEN 1 ELSE 0]
        /\ unknown' = [unknown EXCEPT ![m] = 0]
    BY <1>4 DEF Resends, Resend, ResendLate, Requeue
  <2>2. CASE n = m
    <3>1. /\ delivered'[n] = IF pc = "sent" /\ cur = n THEN 1 ELSE 0
          /\ unknown'[n] = 0 /\ status'[n] = "pending"
      BY <1>t, <2>1, <2>2 DEF HistoryType, RowsType
    <3>2. QED
      BY <2>1, <3>1 DEF Credit, workerVars
  <2>3. CASE n # m
    <3>1. delivered'[n] = delivered[n] /\ unknown'[n] = unknown[n] /\ status'[n] = status[n]
      BY <1>t, <2>1, <2>3 DEF HistoryType, RowsType
    <3>2. QED
      BY <1>n, <2>1, <3>1 DEF Credit, workerVars
  <2>4. QED
    BY <2>2, <2>3
<1>5. CASE ClaimNext
  <2>1. UNCHANGED <<status, delivered, unknown>> /\ pc # "sent" /\ pc' # "sent"
    BY <1>5, Claims DEF historyVars
  <2>2. QED
    BY <1>1, <2>1 DEF Credit
<1>6. CASE TelegramDelivers
  <2>1. /\ cur \in Rows /\ status[cur] = "pending" /\ pc = "sending" /\ UNCHANGED <<status, cur>>
        /\ delivered' = [delivered EXCEPT ![cur] = @ + 1]
        /\ \/ pc' = "sent" /\ unknown' = unknown
           \/ pc' = "again" /\ unknown' = [unknown EXCEPT ![cur] = @ + 1]
    BY <1>6, InHand DEF TelegramDelivers, Working, outboxVars
  <2>2. CASE n = cur
    BY <1>n, <1>t, <2>1, <2>2 DEF Credit, HistoryType
  <2>3. CASE n # cur
    BY <1>n, <1>t, <2>1, <2>3 DEF Credit, HistoryType
  <2>4. QED
    BY <2>2, <2>3
<1>7. CASE RecordSent
  <2>1. /\ cur \in Rows /\ pc = "sent" /\ pc' = "idle"
        /\ status' = [status EXCEPT ![cur] = "sent"] /\ UNCHANGED <<delivered, unknown>>
    BY <1>7, <1>h DEF RecordSent, historyVars
  <2>2. QED
    BY <1>1, <1>t, <2>1 DEF Credit, RowsType
<1>8. CASE RecordFailure
  <2>1. /\ cur \in Rows /\ pc # "sent" /\ pc' = "idle" /\ status[cur] = "pending"
        /\ \E s \in {"failed", "pending"} : status' = [status EXCEPT ![cur] = s]
        /\ UNCHANGED <<delivered, unknown>>
    BY <1>8, InHand DEF RecordFailure, historyVars, Working
  <2>2. QED
    BY <1>1, <1>t, <2>1 DEF Credit, RowsType
<1>9. CASE DeliveryError \/ Crash
  <2>1. UNCHANGED <<status, delivered>> /\ pc' # "sent" /\ unknown' = Forgotten
    BY <1>9 DEF DeliveryError, Crash, outboxVars
  <2>2. CASE pc = "sent" /\ cur = n
    BY <1>n, <1>t, <1>h, <2>1, <2>2 DEF Credit, Forgotten, HistoryType
  <2>3. CASE ~(pc = "sent" /\ cur = n)
    <3>1. unknown'[n] = unknown[n]
      BY <1>t, <1>h, <2>1, <2>3 DEF Forgotten, HistoryType
    <3>2. QED
      BY <1>n, <2>1, <2>3, <3>1 DEF Credit
  <2>4. QED
    BY <2>2, <2>3
<1>10. CASE Boot \/ Deliver \/ TelegramDeclines \/ WorkerDies
  <2>1. UNCHANGED <<status, delivered, unknown>> /\ pc # "sent" /\ pc' # "sent"
    BY <1>10 DEF Boot, Deliver, TelegramDeclines, WorkerDies, outboxVars, historyVars
  <2>2. QED
    BY <1>1, <2>1 DEF Credit
<1>11. ASSUME NEW m \in Rows, Elapse(m) PROVE delivered'[n] = unknown'[n] + Credit(n)'
  BY <1>1, <1>11 DEF Elapse, Credit, workerVars, historyVars
<1>12. CASE WindowPasses
  BY <1>1, <1>12 DEF WindowPasses, Credit, workerVars, historyVars
<1>13. CASE UNCHANGED outboxVars /\ UNCHANGED <<delivered, unknown>>
           /\ UNCHANGED <<pc, cur, charged, crashes>>
  BY <1>1, <1>13 DEF outboxVars, Credit
<1>14. QED
  BY <1>2, <1>3, <1>4, <1>5, <1>6, <1>7, <1>8, <1>9, <1>10, <1>11, <1>12, <1>13, <1>t
     DEF RowEffect, WorkerEffect, HistoryEffect
\* What was queued again, and that notifications were off, is not forgotten.
LEMMA HistoryGrows ==
    ASSUME [Next]_vars
    PROVE  resent \subseteq resent' /\ (muted => muted')
<1>1. CASE (\E k \in Once : Report(k)) \/ (\E n \in Rows : OnRow(n))
  BY <1>1 DEF Report, OnRow, ResendAsked, Resend, ResendLate, Requeue, Elapse, historyVars
<1>2. CASE SampleRead \/ SampleStore \/ WindowPasses
           \/ DiskMoves
  BY <1>2 DEF SampleRead, SampleStore, WindowPasses, DiskMoves, DiskChanges, MoveLines, historyVars
<1>3. CASE \/ \E outcome \in {"sent", "failed"} : SendTest(outcome)
           \/ \E c \in {"off", "unset", "on"} : Configure(c)
  <2>1. ASSUME NEW outcome \in {"sent", "failed"}, SendTest(outcome)
        PROVE  UNCHANGED <<resent, muted>>
    BY <2>1 DEF SendTest
  <2>2. ASSUME NEW c \in {"off", "unset", "on"}, Configure(c)
        PROVE  UNCHANGED resent /\ (muted => muted')
    BY <2>2, Zenon DEF Configure
  <2>3. QED
    BY <1>3, <2>1, <2>2
<1>4. CASE Worker
  BY <1>4 DEF Worker, ClaimNext, Deliver, TelegramDelivers, TelegramDeclines, RecordSent,
     RecordFailure, historyVars
<1>5. CASE Boot \/ DeliveryError \/ WorkerDies \/ Crash \/ UNCHANGED vars
  BY <1>5 DEF Boot, DeliveryError, WorkerDies, Crash, vars, historyVars
<1>6. QED
  BY <1>1, <1>2, <1>3, <1>4, <1>5 DEF Next, OnRow, DiskMoves

\* The keys: at most one row gets one, which it keeps.
LEMMA KeyStep ==
    ASSUME Consistent, [Next]_vars
    PROVE  \/ UNCHANGED key
           \/ \E n \in Rows, k \in Once \cup Alerts :
                 key[n] = None /\ key' = [key EXCEPT ![n] = k] /\ (k \in Once => ~Recorded(k))
           \/ \E n \in Rows : key[n] = None /\ key' = [key EXCEPT ![n] = "test"]
<1>t. TypeOK /\ RowsInOrder /\ RowEffect
  BY Effects DEF Consistent
<1>1. CASE UNCHANGED outboxVars \/ (\E n \in Rows : Resends(n) \/ Elapse(n)) \/ ClaimNext
           \/ RecordSent \/ RecordFailure \/ WindowPasses
  BY <1>1 DEF outboxVars, Resends, Resend, ResendLate, Requeue, Elapse, ClaimNext, RecordSent,
     RecordFailure, WindowPasses
<1>2. ASSUME NEW k \in Once \cup Alerts, Enqueued(k), key' # key
      PROVE  \E n \in Rows : key[n] = None /\ key' = [key EXCEPT ![n] = k]
                             /\ (k \in Once => ~Recorded(k))
  BY <1>2, <1>t DEF Enqueued, Writing, RowsInOrder, outboxVars
<1>3. ASSUME NEW outcome \in {"sent", "failed"}, SendTest(outcome)
      PROVE  \E n \in Rows : key[n] = None /\ key' = [key EXCEPT ![n] = "test"]
  <2>1. Cardinality(Written) + 1 \in Rows /\ key[Cardinality(Written) + 1] = None
    BY <1>3, <1>t, NextRow DEF SendTest, RowsInOrder
  <2>2. QED
    BY <1>3, <2>1 DEF SendTest
<1>4. QED
  BY <1>1, <1>2, <1>3, <1>t DEF RowEffect

LEMMA OccurrenceStep ==
    ASSUME Consistent, OneRowPerOccurrence, [Next]_vars PROVE OneRowPerOccurrence'
<1>t. key \in [Rows -> Keys \cup {None}]
  BY DEF Consistent, TypeOK
<1> SUFFICES ASSUME NEW m \in Rows, NEW n \in Rows, key'[m] = key'[n], key'[n] \in Once
             PROVE  m = n
  BY DEF OneRowPerOccurrence
<1>1. CASE UNCHANGED key
  BY <1>1 DEF OneRowPerOccurrence
<1>2. ASSUME NEW i \in Rows, NEW k \in Once \cup Alerts, key[i] = None,
             key' = [key EXCEPT ![i] = k], k \in Once => ~Recorded(k)
      PROVE  m = n
  <2>1. CASE m # i /\ n # i
    BY <1>t, <1>2, <2>1 DEF OneRowPerOccurrence
  <2>2. CASE m = i \/ n = i
    BY <1>t, <1>2, <2>2 DEF Recorded
  <2>3. QED
    BY <2>1, <2>2
<1>3. ASSUME NEW i \in Rows, key[i] = None, key' = [key EXCEPT ![i] = "test"]
      PROVE  m = n
  <2>1. m # i /\ n # i
    BY <1>t, <1>3, KeysAssumption
  <2>2. QED
    BY <1>t, <1>3, <2>1 DEF OneRowPerOccurrence
<1>4. QED
  BY <1>1, <1>2, <1>3, KeyStep

\* Of an alert, a message is newly queued only if none of it is within the window.
LEMMA StormStep == ASSUME Consistent, NoStorm, [Next]_vars PROVE NoStorm'
<1>t. RowsType /\ RowEffect /\ Consistent /\ resent \subseteq resent' /\ Once \cap Alerts = {}
      /\ "test" \notin Alerts
  BY TypeParts, Effects, HistoryGrows, KeysAssumption DEF Consistent, Alerts
<1> SUFFICES ASSUME NEW m \in recent' \ resent', NEW n \in recent' \ resent',
                    key'[m] = key'[n], key'[n] \in Alerts,
                    status'[m] \in {"pending", "sent"}, status'[n] \in {"pending", "sent"}
             PROVE  m = n
  BY DEF NoStorm
<1>0. ASSUME m \in recent \ resent, n \in recent \ resent, key[m] = key[n], key[n] \in Alerts,
             status[m] \in {"pending", "sent"}, status[n] \in {"pending", "sent"}
      PROVE  m = n
  BY <1>0 DEF NoStorm
<1>1. CASE UNCHANGED outboxVars \/ (\E i \in Rows : Elapse(i)) \/ WindowPasses
  BY <1>0, <1>1, <1>t DEF outboxVars, Elapse, WindowPasses
<1>2. ASSUME NEW k \in Once \cup Alerts, Enqueued(k) PROVE m = n
  <2>1. ASSUME NEW i \in Rows, NEW s \in {"pending", "suppressed"}, Writing(i, k, s),
               k \notin Once /\ s = "pending" => Recent(k) = {}
        PROVE  m = n
    <3>1. \A j \in Rows \ {i} : key'[j] = key[j] /\ status'[j] = status[j]
      BY <1>t, <2>1 DEF Writing, RowsType
    <3>2. key'[i] = k /\ status'[i] = s /\ recent' = recent \cup {i} /\ recent' \subseteq Rows
      BY <1>t, <2>1 DEF Writing, RowsType
    <3>3. CASE m # i /\ n # i
      BY <1>0, <1>t, <3>1, <3>2, <3>3
    <3>4. ASSUME NEW j \in recent, j # i, key'[j] = k, k \in Alerts,
                 status'[j] \in {"pending", "sent"}, s = "pending"
          PROVE  FALSE
      <4>1. j \in Recent(k)
        BY <1>t, <3>1, <3>4 DEF Recent, RowsType
      <4>2. QED
        BY <1>t, <2>1, <3>4, <4>1
    <3>5. QED
      BY <3>2, <3>3, <3>4
  <2>2. QED
    BY <1>1, <1>2, <2>1 DEF Enqueued
<1>3. ASSUME NEW outcome \in {"sent", "failed"}, SendTest(outcome) PROVE m = n
  <2> DEFINE i == Cardinality(Written) + 1
  <2>1. Writing(i, "test", outcome)
    BY <1>3, <1>t, NextRow DEF SendTest, Writing, Consistent
  <2> HIDE DEF i
  <2>2. m # i /\ n # i
    BY <1>t, <2>1 DEF Writing, RowsType
  <2>3. QED
    BY <1>0, <1>t, <2>1, <2>2 DEF Writing, RowsType
<1>4. ASSUME NEW i \in Rows, Resends(i) PROVE m = n
  <2>1. /\ resent' = resent \cup {i} /\ status' = [status EXCEPT ![i] = "pending"]
        /\ UNCHANGED <<key, recent>>
    BY <1>4 DEF Resends, Resend, ResendLate, Requeue
  <2>2. m # i /\ n # i
    BY <2>1
  <2>3. QED
    BY <1>0, <1>t, <2>1, <2>2 DEF RowsType
<1>5. CASE ClaimNext
  BY <1>0, <1>5, <1>t, Claims
<1>6. CASE RecordSent \/ RecordFailure
  <2>1. cur \in Rows /\ status[cur] = "pending"
    BY <1>6, InHand DEF RecordSent, RecordFailure, Working
  <2>2. UNCHANGED <<key, recent>> /\ \A i \in Rows \ {cur} : status'[i] = status[i]
    BY <1>6, <1>t DEF RecordSent, RecordFailure, RowsType
  <2>3. QED
    BY <1>0, <1>t, <2>1, <2>2 DEF RowsType
<1>7. QED
  BY <1>1, <1>2, <1>3, <1>4, <1>5, <1>6, <1>t DEF RowEffect

LEMMA Ranks ==
    /\ Rank("unknown") = 0 /\ Rank("healthy") = 1
    /\ Rank("warning") = 2 /\ Rank("critical") = 3
  BY DEF Rank

LEMMA LevelStays ==
    ASSUME [Next]_vars, ~SampleStore
    PROVE  level' = level /\ silent' = silent
<1>1. CASE (\E k \in Once : Report(k)) \/ (\E n \in Rows : OnRow(n))
  BY <1>1 DEF Report, OnRow, ResendAsked, Resend, ResendLate, Requeue, Elapse, sampleVars
<1>2. CASE SampleRead \/ WindowPasses \/ DiskMoves
  BY <1>2 DEF SampleRead, WindowPasses, DiskMoves, DiskChanges, MoveLines, sampleVars
<1>3. CASE \/ \E outcome \in {"sent", "failed"} : SendTest(outcome)
           \/ \E c \in {"off", "unset", "on"} : Configure(c)
  BY <1>3 DEF SendTest, Configure, sampleVars
<1>4. CASE Worker
  BY <1>4 DEF Worker, ClaimNext, Deliver, TelegramDelivers, TelegramDeclines, RecordSent,
     RecordFailure, sampleVars
<1>5. CASE Boot \/ DeliveryError \/ WorkerDies \/ Crash \/ UNCHANGED vars
  BY <1>5 DEF Boot, DeliveryError, WorkerDies, Crash, vars, sampleVars
<1>6. QED
  BY <1>1, <1>2, <1>3, <1>4, <1>5 DEF Next, OnRow, DiskMoves

LEMMA AlarmStep == ASSUME Consistent, AlarmWasRaised, [Next]_vars PROVE AlarmWasRaised'
<1>t. RowsType /\ SampleType /\ RowsInOrder /\ TypeOK
  BY TypeParts DEF Consistent
<1>k. \A n \in Rows : key[n] \in Alerts => key'[n] = key[n]
  <2>1. None \notin Alerts
    BY NoneIsNone DEF Keys
  <2>2. QED
    BY <1>t, <2>1, KeyStep DEF RowsType
<1> SUFFICES ASSUME ~muted', ~silent', level' \in Alerts
             PROVE  \E n \in Rows : key'[n] \in Alerts /\ Rank(key'[n]) >= Rank(level')
  BY DEF AlarmWasRaised
<1>m. ~muted /\ config # "off"
  BY <1>t, HistoryGrows DEF RowsInOrder
<1>1. CASE ~SampleStore
  <2>1. level' = level /\ ~silent
    BY <1>1, LevelStays
  <2>2. PICK n \in Rows : key[n] \in Alerts /\ Rank(key[n]) >= Rank(level)
    BY <1>m, <2>1 DEF AlarmWasRaised
  <2>3. QED
    BY <1>k, <2>1, <2>2
<1>2. CASE SampleStore
  <2> DEFINE previous == IF latest = None THEN "healthy" ELSE Severity(latest, sampled.at)
             current  == Severity(sampled.fill, sampled.at)
             alert    == SeverityIncreased(previous, current)
  <2>1. /\ alert => Enqueue(current)
        /\ level' = current /\ current \in Alerts
        /\ silent' = (current \in Alerts /\ ~alert /\ (silent \/ Rank(previous) > Rank(level)))
    BY <1>2 DEF SampleStore
  <2>p. previous \in Severities /\ current \in Severities /\ level \in Severities
    BY <1>t DEF Severity, Severities, Alerts, SampleType
  <2>a. alert = (Rank(current) > Rank(previous) /\ current \in Alerts)
    BY DEF SeverityIncreased
  <2> HIDE DEF previous, current, alert
  <2>2. CASE alert
    <3>1. Enqueued(current) /\ current \notin Once
      BY <1>t, <2>1, <2>2, EnqueueWrites, KeysAssumption
    <3>2. PICK n \in Rows : key' = [key EXCEPT ![n] = current]
      BY <1>m, <3>1 DEF Enqueued, Writing
    <3>3. key'[n] = current
      BY <1>t, <3>2 DEF RowsType
    <3>4. Rank(current) >= Rank(current)
      BY <2>1, Ranks DEF Alerts
    <3>5. QED
      BY <2>1, <3>3, <3>4
  <2>3. CASE ~alert
    <3>1. ~(Rank(current) > Rank(previous))
      BY <2>1, <2>3, <2>a
    <3>s. ~silent /\ ~(Rank(previous) > Rank(level))
      BY <2>1, <2>3, Zenon
    <3>2. level \in Alerts
      BY <2>1, <2>p, <3>1, <3>s, Ranks DEF Alerts, Severities
    <3>3. PICK n \in Rows : key[n] \in Alerts /\ Rank(key[n]) >= Rank(level)
      BY <1>m, <3>2, <3>s DEF AlarmWasRaised
    <3>5. Rank(key[n]) >= Rank(current)
      BY <2>1, <2>p, <3>1, <3>2, <3>s, <3>3, Ranks DEF Alerts, Severities
    <3>6. QED
      BY <1>k, <2>1, <3>3, <3>5
  <2>4. QED
    BY <2>2, <2>3
<1>3. QED
  BY <1>1, <1>2

(***************************************************************************)
(* The theorems                                                            *)
(***************************************************************************)
LEMMA InitHolds ==
    Init => Consistent /\ DeliveriesAccounted /\ ToldOnce /\ AlarmWasRaised
<1> SUFFICES ASSUME Init
             PROVE  Consistent /\ DeliveriesAccounted /\ ToldOnce /\ AlarmWasRaised
  OBVIOUS
<1>s. MaxRows \in Nat /\ MaxAttempts \in Nat \ {0} /\ Rows = 1..MaxRows
  BY SizesAssumption DEF Rows
<1>1. TypeOK
  <2>1. left \in [Events -> Nat] /\ lines \in Lines /\ disk \in Fills
    BY StartsAssumption DEF Init
  <2>2. RowsType
    BY DEF Init, RowsType, Statuses
  <2>3. WorkerType /\ SampleType /\ HistoryType /\ AskType
    BY <2>1 DEF Init, WorkerType, SampleType, HistoryType, AskType, Stations, Severities
  <2>4. QED
    BY <2>1, <2>2, <2>3, TypeParts
<1>2. RowsInOrder
  <2>1. Written = {} /\ 1..0 = {} /\ 0 \in 0..MaxRows
    BY <1>s DEF Init, Written
  <2>2. \E k \in 0..MaxRows : Written = 1..k
    BY <2>1
  <2>3. QED
    BY <2>2 DEF Init, RowsInOrder
<1>3. ClaimIsCurrent /\ AttemptsLeft /\ AttemptsBounded
  BY <1>s DEF Init, ClaimIsCurrent, AttemptsLeft, AttemptsBounded, Working
<1>4. DeliveriesAccounted
  BY DEF Init, DeliveriesAccounted
<1>5. ToldOnce
  <2>1. OneRowPerOccurrence
    BY KeysAssumption DEF Init, OneRowPerOccurrence, Keys
  <2>2. NoStorm
    BY DEF Init, NoStorm
  <2>3. QED
    BY <2>1, <2>2 DEF ToldOnce
<1>6. AlarmWasRaised
  BY DEF Init, AlarmWasRaised, Alerts
<1>7. QED
  BY <1>1, <1>2, <1>3, <1>4, <1>5, <1>6 DEF Consistent

LEMMA ConsistentStep == ASSUME Consistent, [Next]_vars PROVE Consistent'
  BY TypeNext, OrderStep, ClaimStep, AttemptsStep DEF Consistent

\* What the worker has in hand stays queued until it decides, with the attempt that it
\* was charged unless an overtaken request to send it again took that back; and no message
\* is tried more often than the budget, the deaths of the process and such requests allow
\* (next_ready, _claim_next and _record in workers/notification_worker.py, resend in
\* services/notification_service.py).
THEOREM Invariance == Spec => []Consistent
<1>1. Init => Consistent
  BY InitHolds
<1>2. Consistent /\ [Next]_vars => Consistent'
  BY ConsistentStep
<1>3. QED
  BY <1>1, <1>2, PTL DEF Spec

\* A message is recorded as sent only if Telegram delivered it, and is delivered again
\* only when the worker could not record that it was.
THEOREM Deliveries == Spec => []DeliveriesAccounted
<1>1. Init => Consistent /\ DeliveriesAccounted
  BY InitHolds
<1>2. Consistent /\ DeliveriesAccounted /\ [Next]_vars => Consistent' /\ DeliveriesAccounted'
  BY ConsistentStep, DeliveriesStep
<1>3. QED
  BY <1>1, <1>2, PTL DEF Spec

\* What happens once has one row, however often it is reported; and of an alert at most
\* one message within the suppress window is queued or sent, unless an operator asked
\* for more (enqueue and recent_duplicate).
THEOREM MessagesOnce == Spec => []ToldOnce
<1>1. Init => Consistent /\ ToldOnce
  BY InitHolds
<1>2. Consistent /\ ToldOnce /\ [Next]_vars => Consistent' /\ ToldOnce'
  BY ConsistentStep, OccurrenceStep, StormStep DEF ToldOnce
<1>3. QED
  BY <1>1, <1>2, PTL DEF Spec

\* Unless notifications were ever off, or the lines were moved under the snapshot before,
\* the snapshots never say that the disk is in a worse state than some message does: the
\* sampler stores a sample and its alert together (sample_once, _previous_severity).
THEOREM Alarms == Spec => []AlarmWasRaised
<1>1. Init => Consistent /\ AlarmWasRaised
  BY InitHolds
<1>2. Consistent /\ AlarmWasRaised /\ [Next]_vars => Consistent' /\ AlarmWasRaised'
  BY ConsistentStep, AlarmStep
<1>3. QED
  BY <1>1, <1>2, PTL DEF Spec

-----------------------------------------------------------------------------
(***************************************************************************)
(* The scheduler                                                           *)
(***************************************************************************)
\* The next instant of an expression is one of its instants, and still to come.
LEMMA NextFireOf ==
    ASSUME NEW c \in Crons, now \in 0..Horizon
    PROVE  NextFire(c) \in c /\ NextFire(c) \in Nat /\ NextFire(c) > now
<1> DEFINE S == {t \in c : t > now}
<1>1. c \subseteq Nat /\ \E t \in c : t > now
  BY CronsAssumption
<1>2. S \in SUBSET Nat /\ S # {}
  BY <1>1
<1>3. Min(S) \in S
  <2> HIDE DEF S
  <2>1. QED
    BY <1>2, MinIn
<1>4. QED
  BY <1>1, <1>3 DEF NextFire

\* The instant a due timer fires for.
FiresFor(j) == Max({u \in timer[j].seen : u <= now})

LEMMA FiresForOf ==
    ASSUME TableShape, TimersShape, NEW j \in Jobs, Due(j)
    PROVE  /\ FiresFor(j) \in timer[j].seen /\ FiresFor(j) \in 0..now
           /\ timer[j].at <= FiresFor(j) /\ timer[j].seen \in Crons /\ timer[j].at \in Nat
<1>1. timer[j] \in Timers /\ timer[j].at \in timer[j].seen /\ timer[j].at <= now
  BY DEF TimersShape, Due
<1>2. timer[j].seen \in Crons /\ timer[j].seen \subseteq Nat /\ timer[j].at \in Nat
  BY <1>1, CronsAssumption DEF Timers
<1> DEFINE S == {u \in timer[j].seen : u <= now}
<1>3. now \in Nat /\ S \in SUBSET (0..now) /\ timer[j].at \in S
  BY <1>1, <1>2, TimesAssumption DEF TableShape
<1>4. Max(S) \in S /\ timer[j].at <= Max(S)
  <2> HIDE DEF S
  <2>1. QED
    BY <1>3, MaxIn
<1>5. QED
  BY <1>2, <1>3, <1>4 DEF FiresFor

(***************************************************************************)
(* What keeps each part of the invariant                                   *)
(***************************************************************************)
LEMMA NowIs ==
    ASSUME TableShape
    PROVE  now \in 0..Horizon /\ now \in Nat /\ Horizon \in Nat /\ now \in Times
           /\ \A t \in 0..now : t \in Times /\ t \in Nat
  BY TimesAssumption DEF TableShape, Times

\* Every window at work has passed.
LEMMA TakenPassed ==
    ASSUME TableShape, MissedShape, CallsShape, NEW j, NEW t, Taken(j, t)
    PROVE  j \in Jobs /\ t \in 0..now
<1>1. now \in Nat
  BY NowIs
<1>2. ASSUME NEW c \in calls PROVE c.job \in Jobs /\ c.window \in 0..now
  BY <1>1, <1>2 DEF CallsShape, CallType
<1>3. ASSUME NEW m \in missed PROVE m.job \in Jobs /\ m.window \in 0..now
  BY <1>1, <1>3 DEF MissedShape
<1>4. QED
  BY <1>2, <1>3 DEF Taken

LEMMA ScheduleSpendType ==
    ASSUME NEW e \in ScheduleEvents, ScheduleSpend(e), scheduleLeft \in [ScheduleEvents -> Nat]
    PROVE  scheduleLeft' \in [ScheduleEvents -> Nat]
<1>1. scheduleLeft[e] \in Nat /\ scheduleLeft[e] > 0
  BY DEF ScheduleSpend
<1>2. scheduleLeft[e] - 1 \in Nat
  BY <1>1
<1>3. QED
  BY <1>2 DEF ScheduleSpend

\* Work on a window ends, timers and next_run_at move ahead, instants are crossed.
LEMMA WindowsKept ==
    ASSUME TableShape, MissedShape, CallsShape, Windows,
           calls' \subseteq calls, missed' \subseteq missed, now' = now, started' = started,
           crossed \subseteq crossed',
           \A j \in Jobs : timer'[j] \in {timer[j], Unset} \/ \A t \in 0..now : t < timer'[j].at,
           \A j \in Jobs : \/ next'[j] \in {next[j], Unset} \/ next'[j] > now
                           \/ \A t \in 0..now : next'[j] <= t => t \in crossed',
           \A j \in Jobs : next'[j] = Unset \/ next'[j] \in Nat,
           sync' = "read" => \/ sync = "read" /\ plan' = plan
                             \/ \A j \in DOMAIN plan'.write, t \in 0..now : ~(plan'.write[j] <= t)
    PROVE  Windows'
<1>n. now \in Nat /\ \A t \in Times : t \in Nat
  BY NowIs, TimesAssumption DEF Times
<1>1. \A c, d \in calls' : c.job = d.job /\ c.window = d.window => c = d
  BY DEF Windows
<1>2. \A c \in calls', m \in missed' : c.job = m.job => m.window < c.window
  BY DEF Windows
<1>t. \A j, t : Taken(j, t)' => Taken(j, t)
  BY DEF Taken
<1>3. ASSUME NEW j \in Jobs, NEW t \in Times
      PROVE  /\ Taken(j, t)' /\ t \notin crossed' => started'[<<j, t>>] = 0
             /\ started'[<<j, t>>] > 0 => t <= now'
             /\ timer'[j] # Unset /\ (Taken(j, t)' \/ started'[<<j, t>>] > 0) => t < timer'[j].at
             /\ started'[<<j, t>>] > 0 /\ t \notin crossed' => next'[j] = Unset \/ t < next'[j]
  <2>1. /\ Taken(j, t) /\ t \notin crossed => started[<<j, t>>] = 0
        /\ started[<<j, t>>] > 0 => t <= now
        /\ timer[j] # Unset /\ (Taken(j, t) \/ started[<<j, t>>] > 0) => t < timer[j].at
        /\ started[<<j, t>>] > 0 /\ t \notin crossed => next[j] = Unset \/ t < next[j]
    BY <1>3 DEF Windows
  <2>2. Taken(j, t)' => t <= now
    BY <1>n, <1>t, TakenPassed
  <2>3. timer'[j] # Unset /\ (Taken(j, t)' \/ started'[<<j, t>>] > 0) => t < timer'[j].at
    <3>1. CASE timer'[j] \in {timer[j], Unset}
      BY <1>t, <2>1, <3>1
    <3>2. CASE \A u \in 0..now : u < timer'[j].at
      <4>1. ASSUME Taken(j, t)' \/ started'[<<j, t>>] > 0 PROVE t \in 0..now
        BY <1>n, <2>1, <2>2, <4>1
      <4>2. QED
        BY <3>2, <4>1
    <3>3. QED
      BY <3>1, <3>2
  <2>4. started'[<<j, t>>] > 0 /\ t \notin crossed' => next'[j] = Unset \/ t < next'[j]
    <3> SUFFICES ASSUME started'[<<j, t>>] > 0, t \notin crossed', next'[j] # Unset
                 PROVE  t < next'[j]
      OBVIOUS
    <3>1. t <= now /\ t \in 0..now /\ next'[j] \in Nat
      BY <1>n, <2>1
    <3>2. CASE next'[j] \in {next[j], Unset}
      BY <2>1, <3>2
    <3>3. CASE next'[j] > now
      BY <1>n, <3>1, <3>3
    <3>4. CASE \A u \in 0..now : next'[j] <= u => u \in crossed'
      BY <3>1, <3>4
    <3>5. QED
      BY <3>2, <3>3, <3>4
  <2>5. QED
    BY <1>t, <2>1, <2>3, <2>4
<1>4. sync' = "read" =>
          \A j \in DOMAIN plan'.write, t \in 0..now' : plan'.write[j] <= t => t \in crossed'
  <2> SUFFICES ASSUME sync' = "read", NEW j \in DOMAIN plan'.write, NEW t \in 0..now',
                      plan'.write[j] <= t
               PROVE  t \in crossed'
    OBVIOUS
  <2>1. CASE sync = "read" /\ plan' = plan
    BY <2>1 DEF Windows
  <2>2. CASE \A k \in DOMAIN plan'.write, u \in 0..now : ~(plan'.write[k] <= u)
    BY <2>2
  <2>3. QED
    BY <2>1, <2>2
<1>5. QED
  BY <1>1, <1>2, <1>3, <1>4 DEF Windows

Shapes == TimersShape /\ MissedShape /\ CallsShape /\ PlanShape

LEMMA ShapesKept ==
    ASSUME Shapes, calls' \subseteq calls, missed' \subseteq missed, now' = now,
           timer' = timer, plan' = plan
    PROVE  Shapes'
<1>1. TimersShape' /\ PlanShape'
  BY DEF Shapes, TimersShape, PlanShape
<1>2. MissedShape'
  BY DEF Shapes, MissedShape
<1>3. CallsShape'
  BY DEF Shapes, CallsShape
<1>4. QED
  BY <1>1, <1>2, <1>3 DEF Shapes

\* No window is taken by what leaves it alone.
LEMMA DecidedKept ==
    ASSUME Decided, UNCHANGED <<timer, calls, missed, stage, enabled, next>>,
           open' \subseteq open, crossed \subseteq crossed'
    PROVE  Decided'
<1>1. \A j, t : Owned(j, t) => Owned(j, t)'
  BY DEF Owned, Taken
<1>2. QED
  BY <1>1 DEF Decided

ScheduleParts ==
    TableShape /\ Shapes /\ Phases /\ Follows /\ Windows /\ Decided /\ OneRunPerWindow

LEMMA Parts == ScheduleInv <=> ScheduleParts
  BY DEF ScheduleInv, ScheduleParts, Shapes

LEMMA OneRunKept ==
    ASSUME OneRunPerWindow, started' = started, crossed \subseteq crossed'
    PROVE  OneRunPerWindow'
  BY DEF OneRunPerWindow

LEMMA EditKeeps ==
    ASSUME ScheduleParts, NEW j \in Jobs, NEW on \in BOOLEAN, NEW c \in Crons, Edit(j, on, c)
    PROVE  ScheduleParts'
<1>0. TableShape /\ Shapes /\ Phases /\ Follows /\ Windows /\ Decided /\ OneRunPerWindow
      /\ TimersShape /\ MissedShape /\ CallsShape /\ PlanShape
  BY DEF ScheduleParts, Shapes
<1>u. /\ enabled' = [enabled EXCEPT ![j] = on] /\ cron' = [cron EXCEPT ![j] = c]
      /\ next' = [next EXCEPT ![j] = IF on THEN NextFire(c) ELSE Unset] /\ resync' = TRUE
      /\ stage = "up" /\ ScheduleSpend("edit")
      /\ UNCHANGED <<now, active, stage, timer, sync, plan, missed, calls, pressed, open,
                     started, behind, crossed>>
  BY DEF Edit, ScheduleServing, firingVars
<1>f. NextFire(c) \in Nat /\ NextFire(c) > now
  BY <1>0, NextFireOf DEF TableShape
<1>n. now \in Nat
  BY <1>0, NowIs
<1>1. TableShape'
  <2>1. scheduleLeft' \in [ScheduleEvents -> Nat]
    BY <1>0, <1>u, ScheduleSpendType DEF ScheduleEvents, TableShape
  <2>2. next' \in [Jobs -> Nat \cup {Unset}]
    BY <1>0, <1>u, <1>f DEF TableShape
  <2>3. QED
    BY <1>0, <1>u, <2>1, <2>2 DEF TableShape
<1>2. Shapes'
  BY <1>0, <1>u, ShapesKept
<1>3. Phases'
  BY <1>0, <1>u DEF Phases
<1>4. Follows'
  BY <1>u DEF Follows
<1>5. Windows'
  <2>1. \A k \in Jobs : next'[k] \in {next[k], Unset} \/ next'[k] > now
    BY <1>0, <1>u, <1>f DEF TableShape
  <2>2. \A k \in Jobs : next'[k] = Unset \/ next'[k] \in Nat
    BY <1>1 DEF TableShape
  <2>3. \A k \in Jobs : timer'[k] \in {timer[k], Unset} \/ \A t \in 0..now : t < timer'[k].at
    BY <1>u
  <2>4. sync' = "read" => sync = "read" /\ plan' = plan
    BY <1>u
  <2>5. QED
    BY <1>0, <1>u, <2>1, <2>2, <2>3, <2>4, WindowsKept
<1>6. Decided'
  <2>1. \A k, t : Owned(k, t) => Owned(k, t)'
    BY <1>u DEF Owned, Taken
  <2>2. QED
    BY <1>0, <1>u, <2>1 DEF Decided
<1>7. OneRunPerWindow'
  BY <1>0, <1>u, OneRunKept
<1>8. QED
  BY <1>1, <1>2, <1>3, <1>4, <1>5, <1>6, <1>7 DEF ScheduleParts

\* A run is asked for by hand, or ends: the schedule does not look at it.
LEMMA RunsKeep ==
    ASSUME ScheduleParts, NEW j \in Jobs, PressBegin(j) \/ PressCommit(j) \/ RunEnds(j)
    PROVE  ScheduleParts'
<1>0. TableShape /\ Shapes /\ Phases /\ Follows /\ Windows /\ Decided /\ OneRunPerWindow
      /\ TimersShape /\ MissedShape /\ CallsShape /\ PlanShape
  BY DEF ScheduleParts, Shapes
<1>u. UNCHANGED <<now, tableVars, stage, memoryVars, calls, open, firingVars>>
  BY DEF PressBegin, PressCommit, RunEnds
<1>v. UNCHANGED <<now, enabled, cron, next, stage, timer, resync, sync, plan, missed, calls, open,
                  started, behind, crossed>>
  BY <1>u DEF tableVars, memoryVars, firingVars
<1>1. TableShape'
  <2>1. scheduleLeft' \in [ScheduleEvents -> Nat]
    BY <1>0, ScheduleSpendType DEF ScheduleEvents, TableShape, PressBegin, PressCommit, RunEnds
  <2>2. active' \in [Jobs -> Nat] /\ pressed' \in [Jobs -> Nat]
    <3>1. active \in [Jobs -> Nat] /\ pressed \in [Jobs -> Nat]
      BY <1>0 DEF TableShape
    <3>2. CASE PressBegin(j)
      BY <3>1, <3>2 DEF PressBegin
    <3>3. CASE PressCommit(j)
      BY <3>1, <3>3 DEF PressCommit
    <3>4. CASE RunEnds(j)
      BY <3>1, <3>4 DEF RunEnds
    <3>5. QED
      BY <3>2, <3>3, <3>4
  <2>3. QED
    BY <1>0, <1>v, <2>1, <2>2 DEF TableShape
<1>2. Shapes'
  BY <1>0, <1>v, ShapesKept
<1>3. Phases'
  BY <1>0, <1>v DEF Phases
<1>4. Follows'
  BY <1>0, <1>v DEF Follows, Listed
<1>5. Windows'
  <2>1. \A k \in Jobs : next'[k] \in {next[k], Unset} /\ (next'[k] = Unset \/ next'[k] \in Nat)
    BY <1>0, <1>v DEF TableShape
  <2>2. QED
    BY <1>0, <1>v, <2>1, WindowsKept
<1>6. Decided'
  BY <1>0, <1>v, DecidedKept
<1>7. OneRunPerWindow'
  BY <1>0, <1>v, OneRunKept
<1>8. QED
  BY <1>1, <1>2, <1>3, <1>4, <1>5, <1>6, <1>7 DEF ScheduleParts

\* start() begins and ends; a resync is taken up or given up.
LEMMA PhaseKeeps ==
    ASSUME ScheduleParts, Launch \/ Started \/ Resync \/ SyncFails
    PROVE  ScheduleParts'
<1>0. TableShape /\ Shapes /\ Phases /\ Follows /\ Windows /\ Decided /\ OneRunPerWindow
      /\ TimersShape /\ MissedShape /\ CallsShape /\ PlanShape
  BY DEF ScheduleParts, Shapes
<1>v. UNCHANGED <<now, enabled, cron, next, timer, missed, calls, open, started, crossed,
                  active, pressed>>
  BY DEF Launch, Started, Resync, SyncFails, tableVars, memoryVars, firingVars
<1>1. TableShape'
  <2>1. scheduleLeft' \in [ScheduleEvents -> Nat]
    BY <1>0, ScheduleSpendType DEF ScheduleEvents, TableShape, Launch, Started, Resync, SyncFails
  <2>2. /\ stage' \in {"down", "collect", "syncing", "catch", "up"}
        /\ resync' \in BOOLEAN /\ behind' \in BOOLEAN /\ sync' \in {"none", "called", "read"}
    BY <1>0 DEF TableShape, Launch, Started, Resync, SyncFails, memoryVars, firingVars
  <2>3. QED
    BY <1>0, <1>v, <2>1, <2>2 DEF TableShape
<1>2. Shapes'
  <2>1. TimersShape' /\ MissedShape' /\ CallsShape'
    BY <1>0, <1>v DEF TimersShape, MissedShape, CallsShape
  <2>2. CASE plan' = plan
    BY <1>0, <1>v, <2>2, ShapesKept
  <2>3. CASE plan' = NoPlan
    BY <2>1, <2>3 DEF Shapes, PlanShape, NoPlan
  <2>4. QED
    BY <2>2, <2>3 DEF Launch, Started, Resync, SyncFails, memoryVars
<1>3. Phases'
  <2>1. CASE Launch
    BY <1>0, <1>v, <2>1 DEF Phases, Launch, memoryVars, firingVars
  <2>2. CASE Started
    BY <1>0, <1>v, <2>2 DEF Phases, Started, memoryVars, firingVars
  <2>3. CASE Resync \/ SyncFails
    BY <1>0, <1>v, <2>3 DEF Phases, Resync, SyncFails, ScheduleServing
  <2>4. QED
    BY <2>1, <2>2, <2>3
<1>4. Follows'
  <2>1. CASE Launch
    BY <1>0, <1>v, <2>1 DEF Follows, Launch, memoryVars, firingVars, Listed, Phases
  <2>2. CASE Started
    BY <1>0, <1>v, <2>2 DEF Follows, Started, memoryVars, firingVars, Listed
  <2>3. CASE Resync
    <3>1. CASE behind'
      BY <3>1 DEF Follows
    <3>2. CASE ~behind'
      <4>1. sync' = "called" /\ UNCHANGED behind
        BY <2>3, <3>2 DEF Resync
      <4>2. QED
        BY <4>1 DEF Follows
    <3>3. QED
      BY <3>1, <3>2
  <2>4. CASE SyncFails
    BY <2>4 DEF Follows, SyncFails
  <2>5. QED
    BY <2>1, <2>2, <2>3, <2>4
<1>5. Windows'
  <2>1. \A k \in Jobs : next'[k] \in {next[k], Unset} /\ (next'[k] = Unset \/ next'[k] \in Nat)
    BY <1>0, <1>v DEF TableShape
  <2>2. sync' = "read" => sync = "read" /\ plan' = plan
    BY DEF Launch, Started, Resync, SyncFails, memoryVars
  <2>3. QED
    BY <1>0, <1>v, <2>1, <2>2, WindowsKept
<1>6. Decided'
  <2>1. stage' \in {"down", "collect"} <=> stage \in {"down", "collect"}
    BY DEF Launch, Started, Resync, SyncFails
  <2>2. \A k, t : Owned(k, t) => Owned(k, t)'
    BY <1>v, <2>1 DEF Owned, Taken
  <2>3. QED
    BY <1>0, <1>v, <2>2 DEF Decided
<1>7. OneRunPerWindow'
  BY <1>0, <1>v, OneRunKept
<1>8. QED
  BY <1>1, <1>2, <1>3, <1>4, <1>5, <1>6, <1>7 DEF ScheduleParts

(***************************************************************************)
(* start() and sync_jobs                                                   *)
(***************************************************************************)
LEMMA CollectKeeps ==
    ASSUME ScheduleParts, Collect PROVE ScheduleParts'
<1>0. TableShape /\ Shapes /\ Phases /\ Follows /\ Windows /\ Decided /\ OneRunPerWindow
      /\ TimersShape /\ MissedShape /\ CallsShape /\ PlanShape
  BY DEF ScheduleParts, Shapes
<1>u. /\ stage = "collect" /\ stage' = "syncing" /\ missed' = Missed /\ sync' = "called"
      /\ UNCHANGED <<now, enabled, cron, next, active, timer, resync, plan, calls, pressed,
                     open, started, behind, crossed, scheduleLeft>>
  BY DEF Collect, tableVars, firingVars
<1>p. calls = {} /\ missed = {} /\ \A j \in Jobs : timer[j] = Unset
  BY <1>0, <1>u DEF Phases
<1>n. now \in Nat /\ \A t \in 0..now : t \in Times
  BY <1>0, NowIs
<1>m. \A m \in Missed : \E j \in Jobs :
          /\ m = [job |-> j, window |-> next[j], late |-> now - next[j]]
          /\ enabled[j] /\ next[j] # Unset /\ next[j] <= now
  BY DEF Missed, Evidence
<1>1. TableShape'
  BY <1>0, <1>u DEF TableShape
<1>2. Shapes'
  <2>1. MissedShape'
    <3>1. ASSUME NEW m \in Missed
          PROVE  /\ m.job \in Jobs /\ m.window \in Nat /\ m.late \in Nat
                 /\ m.window + m.late <= now
      <4>1. PICK j \in Jobs : /\ m = [job |-> j, window |-> next[j], late |-> now - next[j]]
                              /\ next[j] # Unset /\ next[j] <= now
        BY <1>m
      <4>2. next[j] \in Nat
        BY <1>0, <4>1 DEF TableShape
      <4>3. QED
        BY <1>n, <4>1, <4>2
    <3>2. ASSUME NEW m \in Missed, NEW k \in Missed, m.job = k.job PROVE m = k
      BY <1>m, <3>2
    <3>3. QED
      BY <1>u, <3>1, <3>2 DEF MissedShape
  <2>2. TimersShape' /\ CallsShape' /\ PlanShape'
    BY <1>0, <1>u DEF TimersShape, CallsShape, PlanShape
  <2>3. QED
    BY <2>1, <2>2 DEF Shapes
<1>3. Phases'
  BY <1>0, <1>u, <1>p DEF Phases
<1>4. Follows'
  BY <1>u DEF Follows
<1>t. \A j, t : Taken(j, t)' => j \in Jobs /\ next[j] = t /\ t # Unset
  <2>1. ASSUME NEW j, NEW t, Taken(j, t)' PROVE j \in Jobs /\ next[j] = t /\ t # Unset
    <3>1. PICK m \in Missed : m.job = j /\ m.window = t
      BY <1>u, <1>p, <2>1 DEF Taken
    <3>2. QED
      BY <1>m, <3>1
  <2>2. QED
    BY <2>1
<1>5. Windows'
  <2>1. ASSUME NEW j \in Jobs, NEW t \in Times
        PROVE  /\ Taken(j, t)' /\ t \notin crossed' => started'[<<j, t>>] = 0
               /\ started'[<<j, t>>] > 0 => t <= now'
               /\ started'[<<j, t>>] > 0 /\ t \notin crossed' => next'[j] = Unset \/ t < next'[j]
    <3>1. /\ started[<<j, t>>] > 0 => t <= now
          /\ started[<<j, t>>] > 0 /\ t \notin crossed => next[j] = Unset \/ t < next[j]
      BY <1>0, <2>1 DEF Windows
    <3>2. started[<<j, t>>] \in Nat /\ t \in Nat
      BY <1>0, TimesAssumption DEF TableShape, Times
    <3>3. ASSUME Taken(j, t)', t \notin crossed PROVE started[<<j, t>>] = 0
      <4>1. next[j] = t /\ next[j] # Unset
        BY <1>t, <3>3
      <4>2. ~(t < next[j])
        BY <3>2, <4>1
      <4>3. ~(started[<<j, t>>] > 0)
        BY <3>1, <3>3, <4>1, <4>2
      <4>4. QED
        BY <3>2, <4>3
    <3>4. QED
      BY <1>u, <3>1, <3>3
  <2>2. \A j \in Jobs : timer'[j] = Unset
    BY <1>u, <1>p
  <2>3. QED
    BY <1>u, <1>p, <2>1, <2>2 DEF Windows
<1>6. Decided'
  <2>1. ASSUME NEW w \in open, w[2] \notin crossed PROVE Owned(w[1], w[2])'
    <3>1. w[1] \in Jobs /\ w[2] \in 0..now
      BY <1>0 DEF TableShape
    <3>2. enabled[w[1]] /\ next[w[1]] = w[2]
      BY <1>0, <1>p, <2>1, <3>1 DEF Decided, Owned, Taken
    <3>3. next[w[1]] # Unset /\ next[w[1]] <= now
      BY <1>n, <3>1, <3>2, JobsAssumption
    <3>4. [job |-> w[1], window |-> next[w[1]], late |-> now - next[w[1]]] \in Missed
      BY <3>1, <3>2, <3>3 DEF Missed, Evidence
    <3>5. QED
      BY <1>u, <3>2, <3>4 DEF Owned, Taken
  <2>2. QED
    BY <1>u, <2>1 DEF Decided
<1>7. OneRunPerWindow'
  BY <1>0, <1>u, OneRunKept
<1>8. QED
  BY <1>1, <1>2, <1>3, <1>4, <1>5, <1>6, <1>7 DEF ScheduleParts

LEMMA SyncReadKeeps ==
    ASSUME ScheduleParts, SyncRead PROVE ScheduleParts'
<1>0. TableShape /\ Shapes /\ Phases /\ Follows /\ Windows /\ Decided /\ OneRunPerWindow
      /\ TimersShape /\ MissedShape /\ CallsShape /\ PlanShape
  BY DEF ScheduleParts, Shapes
<1> DEFINE W == [j \in Listed |-> cron[j]]
           D == {k \in Listed : next[k] # NextFire(cron[k])}
           X == [j \in D |-> NextFire(cron[j])]
<1>u. /\ sync = "called" /\ sync' = "read" /\ plan' = [wanted |-> W, write |-> X]
      /\ behind' = FALSE
      /\ UNCHANGED <<now, enabled, cron, next, active, stage, timer, resync, missed, calls,
                     pressed, open, started, crossed, scheduleLeft>>
  BY DEF SyncRead, tableVars
<1>n. now \in Nat
  BY <1>0, NowIs
<1>w. /\ plan'.wanted = W /\ DOMAIN W = Listed /\ Listed \subseteq Jobs
      /\ \A j \in Listed : W[j] = cron[j] /\ cron[j] \in Crons
  BY <1>0, <1>u DEF Listed, TableShape
<1>x. /\ plan'.write = X /\ DOMAIN X = D /\ D \subseteq Jobs
      /\ \A j \in D : X[j] \in Nat /\ X[j] > now
  <2>1. \A j \in D : NextFire(cron[j]) \in Nat /\ NextFire(cron[j]) > now
    BY <1>0, NextFireOf DEF Listed, TableShape
  <2>2. D \subseteq Jobs
    BY DEF Listed
  <2>3. \A j \in D : X[j] = NextFire(cron[j])
    OBVIOUS
  <2> HIDE DEF D
  <2>4. QED
    BY <1>u, <2>1, <2>2, <2>3
<1> HIDE DEF W, X, D
<1>1. TableShape'
  BY <1>0, <1>u DEF TableShape
<1>2. Shapes'
  <2>1. PlanShape'
    BY <1>w, <1>x DEF PlanShape
  <2>2. TimersShape' /\ CallsShape' /\ MissedShape'
    BY <1>0, <1>u DEF TimersShape, CallsShape, MissedShape
  <2>3. QED
    BY <2>1, <2>2 DEF Shapes
<1>3. Phases'
  BY <1>0, <1>u DEF Phases
<1>4. Follows'
  <2>1. Listed' = Listed
    BY <1>u DEF Listed
  <2>2. QED
    BY <1>u, <1>w, <2>1 DEF Follows
<1>5. Windows'
  <2>1. \A k \in Jobs : next'[k] \in {next[k], Unset} /\ (next'[k] = Unset \/ next'[k] \in Nat)
    BY <1>0, <1>u DEF TableShape
  <2>2. \A j \in DOMAIN plan'.write, t \in 0..now : ~(plan'.write[j] <= t)
    BY <1>x, <1>n
  <2>3. QED
    BY <1>0, <1>u, <2>1, <2>2, WindowsKept
<1>6. Decided'
  BY <1>0, <1>u, DecidedKept
<1>7. OneRunPerWindow'
  BY <1>0, <1>u, OneRunKept
<1>8. QED
  BY <1>1, <1>2, <1>3, <1>4, <1>5, <1>6, <1>7 DEF ScheduleParts

\* A timer of an expression.
LEMMA TimerOf ==
    ASSUME TableShape, NEW c \in Crons
    PROVE  /\ Timer(c) \in Timers /\ Timer(c).seen = c /\ Timer(c).at \in Timer(c).seen
           /\ Timer(c) # Unset /\ \A t \in 0..now : t < Timer(c).at
<1>1. NextFire(c) \in c /\ NextFire(c) \in Nat /\ NextFire(c) > now
  BY NextFireOf DEF TableShape
<1>2. Timer(c) = [seen |-> c, at |-> NextFire(c)]
  BY DEF Timer
<1>3. Timer(c) \in Timers
  BY <1>1, <1>2 DEF Timers
<1>4. Timer(c) # Unset
  BY <1>3, UnsetAssumption DEF Timers
<1>5. \A t \in 0..now : t < NextFire(c)
  BY <1>1, NowIs
<1>6. QED
  BY <1>1, <1>2, <1>3, <1>4, <1>5

LEMMA SyncCommitKeeps ==
    ASSUME ScheduleParts, SyncCommit PROVE ScheduleParts'
<1>0. TableShape /\ Shapes /\ Phases /\ Follows /\ Windows /\ Decided /\ OneRunPerWindow
      /\ TimersShape /\ MissedShape /\ CallsShape /\ PlanShape
  BY DEF ScheduleParts, Shapes
<1>u. /\ sync = "read" /\ sync' = "none" /\ plan' = NoPlan
      /\ next' = [j \in Jobs |-> IF j \in DOMAIN plan.write THEN plan.write[j] ELSE next[j]]
      /\ timer' = [j \in Jobs |-> Registered(j, plan.wanted)]
      /\ crossed' = crossed \cup {timer[j].at : j \in {k \in Jobs : Due(k)}}
      /\ stage' = IF stage = "syncing" THEN "catch" ELSE stage
      /\ UNCHANGED <<now, enabled, cron, active, resync, missed, calls, pressed, open,
                     started, behind, scheduleLeft>>
  BY DEF SyncCommit
<1>n. now \in Nat /\ \A t \in 0..now : t \in Times
  BY <1>0, NowIs
<1>p. stage \in {"syncing", "up"}
  BY <1>0, <1>u DEF TableShape, Phases
<1>r. \A j \in Jobs : \/ j \in DOMAIN plan.wanted /\ timer'[j] = Timer(plan.wanted[j])
                         /\ plan.wanted[j] \in Crons
                      \/ j \notin DOMAIN plan.wanted /\ timer'[j] = Unset
  BY <1>0, <1>u DEF Registered, PlanShape
<1>d. \A j \in Jobs : Due(j) => timer[j].at \in 0..now
  <2>1. ASSUME NEW j \in Jobs, Due(j) PROVE timer[j].at \in 0..now
    <3>1. timer[j] \in Timers /\ timer[j].at <= now
      BY <1>0, <2>1 DEF Due, TimersShape
    <3>2. QED
      BY <1>n, <3>1 DEF Timers
  <2>2. QED
    BY <2>1
<1>1. TableShape'
  <2>1. next' \in [Jobs -> Nat \cup {Unset}]
    BY <1>0, <1>u DEF TableShape, PlanShape
  <2>2. crossed' \subseteq Times
    BY <1>0, <1>u, <1>n, <1>d DEF TableShape
  <2>3. stage' \in {"down", "collect", "syncing", "catch", "up"}
    BY <1>u, <1>p
  <2>4. QED
    BY <1>0, <1>u, <2>1, <2>2, <2>3 DEF TableShape
<1>2. Shapes'
  <2>1. PlanShape'
    BY <1>u DEF PlanShape, NoPlan
  <2>2. TimersShape'
    <3>1. \A j \in Jobs : timer'[j] \in Timers \cup {Unset}
                          /\ (timer'[j] # Unset => timer'[j].at \in timer'[j].seen)
      BY <1>0, <1>r, TimerOf
    <3>2. QED
      BY <1>u, <3>1 DEF TimersShape
  <2>3. CallsShape' /\ MissedShape'
    BY <1>0, <1>u DEF CallsShape, MissedShape
  <2>4. QED
    BY <2>1, <2>2, <2>3 DEF Shapes
<1>3. Phases'
  BY <1>0, <1>u, <1>p DEF Phases
<1>4. Follows'
  <2>1. ASSUME ~resync, ~behind, NEW j \in Jobs
        PROVE  IF enabled[j] THEN timer'[j] # Unset /\ timer'[j].seen = cron[j]
                             ELSE timer'[j] = Unset
    <3>1. DOMAIN plan.wanted = Listed /\ \A k \in Listed : plan.wanted[k] = cron[k]
      BY <1>0, <1>u, <2>1 DEF Follows
    <3>2. j \in Listed <=> enabled[j]
      BY DEF Listed
    <3>3. QED
      BY <1>0, <1>r, <3>1, <3>2, TimerOf
  <2>2. QED
    BY <1>u, <2>1 DEF Follows
<1>5. Windows'
  <2>1. \A j \in Jobs : timer'[j] \in {timer[j], Unset} \/ \A t \in 0..now : t < timer'[j].at
    BY <1>0, <1>r, TimerOf
  <2>2. \A j \in Jobs : \/ next'[j] \in {next[j], Unset} \/ next'[j] > now
                        \/ \A t \in 0..now : next'[j] <= t => t \in crossed'
    <3>1. ASSUME NEW j \in Jobs, j \in DOMAIN plan.write
          PROVE  \A t \in 0..now : next'[j] <= t => t \in crossed'
      <4>1. \A t \in 0..now : plan.write[j] <= t => t \in crossed
        BY <1>0, <1>u, <3>1 DEF Windows
      <4>2. next'[j] = plan.write[j]
        BY <1>u, <3>1
      <4>3. QED
        BY <1>u, <4>1, <4>2
    <3>2. QED
      BY <1>u, <3>1
  <2>3. \A j \in Jobs : next'[j] = Unset \/ next'[j] \in Nat
    BY <1>1 DEF TableShape
  <2>4. QED
    BY <1>0, <1>u, <2>1, <2>2, <2>3, WindowsKept
<1>6. Decided'
  <2>1. ASSUME NEW w \in open, w[2] \notin crossed' PROVE Owned(w[1], w[2])'
    <3>1. w[1] \in Jobs /\ w[2] \in 0..now
      BY <1>0 DEF TableShape
    <3>2. Owned(w[1], w[2])
      BY <1>0, <1>u, <2>1 DEF Decided
    <3>3. ~(timer[w[1]] # Unset /\ timer[w[1]].at = w[2])
      <4>1. ASSUME timer[w[1]] # Unset, timer[w[1]].at = w[2] PROVE FALSE
        <5>1. Due(w[1])
          BY <1>n, <3>1, <4>1 DEF Due
        <5>2. w[2] \in crossed'
          BY <1>u, <3>1, <4>1, <5>1
        <5>3. QED
          BY <2>1, <5>2
      <4>2. QED
        BY <4>1
    <3>4. Taken(w[1], w[2])
      BY <1>p, <3>2, <3>3 DEF Owned
    <3>5. QED
      BY <1>u, <3>4 DEF Owned, Taken
  <2>2. QED
    BY <1>u, <2>1 DEF Decided
<1>7. OneRunPerWindow'
  BY <1>0, <1>u, OneRunKept
<1>8. QED
  BY <1>1, <1>2, <1>3, <1>4, <1>5, <1>6, <1>7 DEF ScheduleParts

(***************************************************************************)
(* Firing                                                                  *)
(***************************************************************************)
LEMMA TimerFiresKeeps ==
    ASSUME ScheduleParts, NEW j \in Jobs, TimerFires(j) PROVE ScheduleParts'
<1>0. TableShape /\ Shapes /\ Phases /\ Follows /\ Windows /\ Decided /\ OneRunPerWindow
      /\ TimersShape /\ MissedShape /\ CallsShape /\ PlanShape
  BY DEF ScheduleParts, Shapes
<1> DEFINE t == FiresFor(j)
           k == Call(j, "timer", t)
           passed == {<<j, u>> : u \in 0..now}
<1>u. /\ stage # "down" /\ Due(j) /\ timer' = [timer EXCEPT ![j] = Timer(timer[j].seen)]
      /\ \/ calls' = calls /\ open' = open \ passed
         \/ ~Busy(j) /\ calls' = calls \cup {k} /\ open' = (open \ passed) \cup {<<j, t>>}
      /\ UNCHANGED <<now, enabled, cron, next, active, stage, resync, sync, plan, missed, pressed,
                     started, behind, crossed, scheduleLeft>>
  BY DEF TimerFires, FiresFor, tableVars, firingVars
<1>f. /\ t \in 0..now /\ timer[j].at <= t /\ timer[j].seen \in Crons /\ timer[j].at \in Nat
      /\ timer[j] # Unset
  BY <1>0, <1>u, FiresForOf DEF Due
<1>k. /\ k.job = j /\ k.by = "timer" /\ k.window = t /\ k.checked = FALSE /\ k.seen = Unset
      /\ k \in CallType
  BY <1>f DEF Call, CallType
<1> HIDE DEF t, k
<1>n. now \in Nat /\ t \in Nat /\ \A u \in 0..now : u \in Times
  BY <1>0, <1>f, NowIs
<1>p. stage \in {"catch", "up"}
  BY <1>0, <1>u, <1>f DEF TableShape, Phases
<1>r. /\ \A i \in Jobs : i # j => timer'[i] = timer[i]
      /\ timer'[j] = Timer(timer[j].seen) /\ timer'[j].seen = timer[j].seen
      /\ timer'[j] \in Timers /\ timer'[j].at \in timer'[j].seen /\ timer'[j] # Unset
      /\ \A u \in 0..now : u < timer'[j].at
  <2>1. timer'[j] = Timer(timer[j].seen) /\ \A i \in Jobs : i # j => timer'[i] = timer[i]
    BY <1>0, <1>u DEF TimersShape
  <2>2. QED
    BY <1>0, <1>f, <2>1, TimerOf
\* What was taken or started is before the window of this firing.
<1>b. \A u \in Times : Taken(j, u) \/ started[<<j, u>>] > 0 => u < t /\ u < timer[j].at
  <2>1. ASSUME NEW u \in Times, Taken(j, u) \/ started[<<j, u>>] > 0
        PROVE  u < t /\ u < timer[j].at
    <3>1. u < timer[j].at
      BY <1>0, <1>f, <2>1 DEF Windows
    <3>2. u \in Nat
      BY DEF Times
    <3>3. QED
      BY <1>n, <1>f, <3>1, <3>2
  <2>2. QED
    BY <2>1
<1>c. \A u : Taken(j, u) => u < t
  BY <1>0, <1>n, <1>b, TakenPassed
<1>1. TableShape'
  <2>1. open' \subseteq Jobs \X (0..now)
    BY <1>0, <1>u, <1>f DEF TableShape
  <2>2. QED
    BY <1>0, <1>u, <2>1 DEF TableShape
<1>2. Shapes'
  <2>1. TimersShape'
    BY <1>0, <1>u, <1>r DEF TimersShape
  <2>2. CallsShape'
    <3>1. CASE calls' = calls
      BY <1>0, <1>u, <3>1 DEF CallsShape
    <3>2. CASE ~Busy(j) /\ calls' = calls \cup {k}
      <4>1. calls' \subseteq CallType
        BY <1>0, <1>k, <3>2 DEF CallsShape
      <4>2. \A c \in calls' : c.window <= now /\ (c.checked => c.seen \in Crons)
        BY <1>0, <1>k, <1>f, <1>n, <3>2 DEF CallsShape
      <4>3. ASSUME NEW c \in calls', NEW d \in calls', c.by = d.by, c.by = "boot" \/ c.job = d.job
            PROVE  c = d
        <5>1. \A e \in calls : ~(e.job = j /\ e.by = "timer")
          BY <3>2 DEF Busy
        <5>2. CASE c = k \/ d = k
          BY <1>k, <3>2, <4>3, <5>1, <5>2
        <5>3. CASE c \in calls /\ d \in calls
          BY <1>0, <4>3, <5>3 DEF CallsShape
        <5>4. QED
          BY <3>2, <5>2, <5>3
      <4>4. QED
        BY <1>u, <4>1, <4>2, <4>3 DEF CallsShape
    <3>3. QED
      BY <1>u, <3>1, <3>2
  <2>3. MissedShape' /\ PlanShape'
    BY <1>0, <1>u DEF MissedShape, PlanShape
  <2>4. QED
    BY <2>1, <2>2, <2>3 DEF Shapes
<1>3. Phases'
  BY <1>0, <1>u, <1>p DEF Phases
<1>4. Follows'
  <2>1. ASSUME ~resync, ~behind, sync = "none", NEW i \in Jobs
        PROVE  IF enabled[i] THEN timer'[i] # Unset /\ timer'[i].seen = cron[i]
                             ELSE timer'[i] = Unset
    <3>1. IF enabled[i] THEN timer[i] # Unset /\ timer[i].seen = cron[i] ELSE timer[i] = Unset
      BY <1>0, <1>p, <2>1 DEF Follows
    <3>2. QED
      BY <1>r, <1>f, <3>1
  <2>2. UNCHANGED <<resync, behind, stage, sync, plan, enabled, cron>> /\ Listed' = Listed
    BY <1>u DEF Listed
  <2>3. resync' \/ behind' \/ ~(sync' = "read")
        \/ (DOMAIN plan'.wanted = Listed' /\ \A i \in Listed' : plan'.wanted[i] = cron'[i])
    BY <1>0, <2>2 DEF Follows
  <2>4. QED
    BY <2>1, <2>2, <2>3 DEF Follows
<1>t. \A i, u : Taken(i, u)' => Taken(i, u) \/ (i = j /\ u = t)
  BY <1>u, <1>k DEF Taken
<1>s. \A i, u : Taken(i, u) => Taken(i, u)'
  BY <1>u DEF Taken
<1>5. Windows'
  <2>1. ASSUME NEW c \in calls', NEW d \in calls', c.job = d.job, c.window = d.window
        PROVE  c = d
    <3>1. CASE c \in calls /\ d \in calls
      BY <1>0, <2>1, <3>1 DEF Windows
    <3>2. \A e \in calls : ~(e.job = j /\ e.window = t)
      BY <1>c, <1>n DEF Taken
    <3>3. QED
      BY <1>u, <1>k, <2>1, <3>1, <3>2
  <2>2. ASSUME NEW c \in calls', NEW m \in missed', c.job = m.job PROVE m.window < c.window
    <3>1. CASE c \in calls
      BY <1>0, <1>u, <2>2, <3>1 DEF Windows
    <3>2. CASE c = k
      <4>1. Taken(j, m.window)
        BY <1>u, <1>k, <2>2, <3>2 DEF Taken
      <4>2. QED
        BY <1>c, <1>k, <3>2, <4>1
    <3>3. QED
      BY <1>u, <3>1, <3>2
  <2>3. ASSUME NEW i \in Jobs, NEW u \in Times
        PROVE  /\ Taken(i, u)' /\ u \notin crossed' => started'[<<i, u>>] = 0
               /\ started'[<<i, u>>] > 0 => u <= now'
               /\ timer'[i] # Unset /\ (Taken(i, u)' \/ started'[<<i,
                                                                   u>>] > 0) => u < timer'[i].at
               /\ started'[<<i, u>>] > 0 /\ u \notin crossed' => next'[i] = Unset \/ u < next'[i]
    <3>1. /\ Taken(i, u) /\ u \notin crossed => started[<<i, u>>] = 0
          /\ started[<<i, u>>] > 0 => u <= now
          /\ timer[i] # Unset /\ (Taken(i, u) \/ started[<<i, u>>] > 0) => u < timer[i].at
          /\ started[<<i, u>>] > 0 /\ u \notin crossed => next[i] = Unset \/ u < next[i]
      BY <1>0 DEF Windows
    <3>2. u \in Nat /\ started[<<i, u>>] \in Nat
      BY <1>0 DEF TableShape, Times
    <3>3. i = j /\ u = t => started[<<i, u>>] = 0
      BY <1>b, <1>n, <3>2
    <3>4. i = j /\ (Taken(i, u)' \/ started[<<i, u>>] > 0) => u \in 0..now
      <4>1. Taken(i, u) => u \in 0..now
        BY <1>0, TakenPassed
      <4>2. QED
        BY <1>f, <1>n, <1>t, <3>1, <3>2, <4>1
    <3>5. CASE i = j
      BY <1>u, <1>r, <1>t, <3>1, <3>3, <3>4, <3>5
    <3>6. CASE i # j
      BY <1>u, <1>r, <1>t, <3>1, <3>6
    <3>7. QED
      BY <3>5, <3>6
  <2>4. sync' = "read" =>
          \A i \in DOMAIN plan'.write, u \in 0..now' : plan'.write[i] <= u => u \in crossed'
    BY <1>0, <1>u DEF Windows
  <2>5. QED
    BY <2>1, <2>2, <2>3, <2>4 DEF Windows
<1>6. Decided'
  <2>1. ASSUME NEW w \in open', w[2] \notin crossed' PROVE Owned(w[1], w[2])'
    <3>1. CASE w = <<j, t>> /\ calls' = calls \cup {k}
      BY <1>k, <3>1 DEF Owned, Taken
    <3>2. CASE w \in open /\ w \notin passed
      <4>1. w = <<w[1], w[2]>> /\ w[1] \in Jobs /\ w[2] \in 0..now
        BY <1>0, <3>2 DEF TableShape
      <4>2. w[1] # j
        BY <3>2, <4>1
      <4>3. Owned(w[1], w[2])
        BY <1>0, <1>u, <2>1, <3>2 DEF Decided
      <4>4. timer'[w[1]] = timer[w[1]]
        BY <1>r, <4>1, <4>2
      <4>5. QED
        BY <1>u, <1>s, <4>3, <4>4 DEF Owned
    <3>3. QED
      BY <1>u, <3>1, <3>2
  <2>2. QED
    BY <2>1 DEF Decided
<1>7. OneRunPerWindow'
  BY <1>0, <1>u, OneRunKept
<1>8. QED
  BY <1>1, <1>2, <1>3, <1>4, <1>5, <1>6, <1>7 DEF ScheduleParts

LEMMA CatchUpKeeps ==
    ASSUME ScheduleParts, NEW m \in missed, CatchUp(m) PROVE ScheduleParts'
<1>0. TableShape /\ Shapes /\ Phases /\ Follows /\ Windows /\ Decided /\ OneRunPerWindow
      /\ TimersShape /\ MissedShape /\ CallsShape /\ PlanShape
  BY DEF ScheduleParts, Shapes
<1> DEFINE k == Call(m.job, "boot", m.window)
<1>u. /\ stage = "catch" /\ missed' = missed \ {m} /\ \A c \in calls : c.by # "boot"
      /\ \/ open' = open \ {<<m.job, m.window>>} /\ calls' = calls
         \/ calls' = calls \cup {k} /\ open' = open
      /\ UNCHANGED <<now, enabled, cron, next, active, stage, timer, resync, sync, plan, pressed,
                     started, behind, crossed, scheduleLeft>>
  BY DEF CatchUp, Turn, tableVars, firingVars
<1>n. now \in Nat
  BY <1>0, NowIs
<1>m. m.job \in Jobs /\ m.window \in 0..now /\ m.window \in Nat
  BY <1>0, <1>n DEF MissedShape
<1>k. /\ k.job = m.job /\ k.by = "boot" /\ k.window = m.window /\ k.checked = FALSE
      /\ k.seen = Unset /\ k \in CallType
  BY <1>m DEF Call, CallType
<1> HIDE DEF k
<1>1. TableShape'
  BY <1>0, <1>u DEF TableShape
<1>2. Shapes'
  <2>1. CallsShape'
    <3>1. CASE calls' = calls
      BY <1>0, <1>u, <3>1 DEF CallsShape
    <3>2. CASE calls' = calls \cup {k}
      <4>1. calls' \subseteq CallType
        BY <1>0, <1>k, <3>2 DEF CallsShape
      <4>2. \A c \in calls' : c.window <= now /\ (c.checked => c.seen \in Crons)
        BY <1>0, <1>k, <1>m, <1>n, <3>2 DEF CallsShape
      <4>3. ASSUME NEW c \in calls', NEW d \in calls', c.by = d.by, c.by = "boot" \/ c.job = d.job
            PROVE  c = d
        <5>1. CASE c = k \/ d = k
          BY <1>u, <1>k, <3>2, <4>3, <5>1
        <5>2. CASE c \in calls /\ d \in calls
          BY <1>0, <4>3, <5>2 DEF CallsShape
        <5>3. QED
          BY <3>2, <5>1, <5>2
      <4>4. QED
        BY <1>u, <4>1, <4>2, <4>3 DEF CallsShape
    <3>3. QED
      BY <1>u, <3>1, <3>2
  <2>2. MissedShape'
    BY <1>0, <1>u DEF MissedShape
  <2>3. TimersShape' /\ PlanShape'
    BY <1>0, <1>u DEF TimersShape, PlanShape
  <2>4. QED
    BY <2>1, <2>2, <2>3 DEF Shapes
<1>3. Phases'
  BY <1>0, <1>u DEF Phases
<1>4. Follows'
  BY <1>0, <1>u DEF Follows, Listed
<1>t. \A i, u : Taken(i, u)' => Taken(i, u)
  BY <1>u, <1>k DEF Taken
<1>5. Windows'
  <2>1. ASSUME NEW c \in calls', NEW d \in calls', c.job = d.job, c.window = d.window
        PROVE  c = d
    <3>1. CASE c \in calls /\ d \in calls
      BY <1>0, <2>1, <3>1 DEF Windows
    <3>2. \A e \in calls : ~(e.job = m.job /\ e.window = m.window)
      <4>1. ASSUME NEW e \in calls, e.job = m.job, e.window = m.window PROVE FALSE
        <5>1. m.window < e.window
          BY <1>0, <4>1 DEF Windows
        <5>2. QED
          BY <1>m, <4>1, <5>1
      <4>2. QED
        BY <4>1
    <3>3. QED
      BY <1>u, <1>k, <2>1, <3>1, <3>2
  <2>2. ASSUME NEW c \in calls', NEW n \in missed', c.job = n.job PROVE n.window < c.window
    <3>1. CASE c \in calls
      BY <1>0, <1>u, <2>2, <3>1 DEF Windows
    <3>2. CASE c = k
      BY <1>0, <1>u, <1>k, <2>2, <3>2 DEF MissedShape
    <3>3. QED
      BY <1>u, <3>1, <3>2
  <2>3. ASSUME NEW i \in Jobs, NEW u \in Times
        PROVE  /\ Taken(i, u)' /\ u \notin crossed' => started'[<<i, u>>] = 0
               /\ started'[<<i, u>>] > 0 => u <= now'
               /\ timer'[i] # Unset /\ (Taken(i, u)' \/ started'[<<i,
                                                                   u>>] > 0) => u < timer'[i].at
               /\ started'[<<i, u>>] > 0 /\ u \notin crossed' => next'[i] = Unset \/ u < next'[i]
    <3>1. /\ Taken(i, u) /\ u \notin crossed => started[<<i, u>>] = 0
          /\ started[<<i, u>>] > 0 => u <= now
          /\ timer[i] # Unset /\ (Taken(i, u) \/ started[<<i, u>>] > 0) => u < timer[i].at
          /\ started[<<i, u>>] > 0 /\ u \notin crossed => next[i] = Unset \/ u < next[i]
      BY <1>0 DEF Windows
    <3>2. QED
      BY <1>u, <1>t, <3>1
  <2>4. sync' = "read" =>
          \A i \in DOMAIN plan'.write, u \in 0..now' : plan'.write[i] <= u => u \in crossed'
    BY <1>0, <1>u DEF Windows
  <2>5. QED
    BY <2>1, <2>2, <2>3, <2>4 DEF Windows
<1>6. Decided'
  <2>1. ASSUME NEW w \in open', w[2] \notin crossed' PROVE Owned(w[1], w[2])'
    <3>1. w \in open /\ w = <<w[1], w[2]>>
      BY <1>0, <1>u DEF TableShape
    <3>2. Owned(w[1], w[2])
      BY <1>0, <1>u, <2>1, <3>1 DEF Decided
    <3>3. Taken(w[1], w[2]) => Taken(w[1], w[2])'
      BY <1>u, <1>k, <3>1 DEF Taken
    <3>4. QED
      BY <1>u, <3>2, <3>3 DEF Owned
  <2>2. QED
    BY <2>1 DEF Decided
<1>7. OneRunPerWindow'
  BY <1>0, <1>u, OneRunKept
<1>8. QED
  BY <1>1, <1>2, <1>3, <1>4, <1>5, <1>6, <1>7 DEF ScheduleParts

\* A firing that returns takes its window with it.
LEMMA ReturnDecides ==
    ASSUME TableShape, Decided, NEW c \in calls, Return(c), crossed \subseteq crossed',
           UNCHANGED <<timer, missed, stage, enabled>>,
           stage \in {"down", "collect"} => next' = next
    PROVE  Decided'
<1>1. calls' = calls \ {c} /\ open' = open \ {<<c.job, c.window>>}
  BY DEF Return
<1>2. ASSUME NEW w \in open', w[2] \notin crossed' PROVE Owned(w[1], w[2])'
  <2>1. w \in open /\ w = <<w[1], w[2]>> /\ w # <<c.job, c.window>>
    BY <1>1 DEF TableShape
  <2>2. Owned(w[1], w[2])
    BY <1>2, <2>1 DEF Decided
  <2>3. Taken(w[1], w[2]) => Taken(w[1], w[2])'
    BY <1>1, <2>1 DEF Taken
  <2>4. QED
    BY <2>2, <2>3 DEF Owned
<1>3. QED
  BY <1>2 DEF Decided

\* A firing is refused, or fails.
LEMMA FireEndsKeeps ==
    ASSUME ScheduleParts, NEW c \in calls, FireRefused(c) \/ FireFails(c) PROVE ScheduleParts'
<1>0. TableShape /\ Shapes /\ Phases /\ Follows /\ Windows /\ Decided /\ OneRunPerWindow
      /\ TimersShape /\ MissedShape /\ CallsShape /\ PlanShape
  BY DEF ScheduleParts, Shapes
<1>u. /\ Return(c) /\ calls' \subseteq calls /\ open' \subseteq open
      /\ UNCHANGED <<now, enabled, cron, next, active, stage, timer, resync, sync, plan, missed,
                     pressed, started, behind, crossed>>
  BY DEF FireRefused, FireFails, Return, tableVars, memoryVars, firingVars
<1>1. TableShape'
  <2>1. scheduleLeft' \in [ScheduleEvents -> Nat]
    BY <1>0, ScheduleSpendType DEF ScheduleEvents, TableShape, FireRefused, FireFails
  <2>2. QED
    BY <1>0, <1>u, <2>1 DEF TableShape
<1>2. Shapes'
  BY <1>0, <1>u, ShapesKept
<1>3. Phases'
  <2>1. calls = {} => calls' = {}
    BY <1>u
  <2>2. QED
    BY <1>0, <1>u, <2>1 DEF Phases
<1>4. Follows'
  BY <1>0, <1>u DEF Follows, Listed
<1>5. Windows'
  <2>1. \A k \in Jobs : next'[k] \in {next[k], Unset} /\ (next'[k] = Unset \/ next'[k] \in Nat)
    BY <1>0, <1>u DEF TableShape
  <2>2. QED
    BY <1>0, <1>u, <2>1, WindowsKept
<1>6. Decided'
  BY <1>0, <1>u, ReturnDecides
<1>7. OneRunPerWindow'
  BY <1>0, <1>u, OneRunKept
<1>8. QED
  BY <1>1, <1>2, <1>3, <1>4, <1>5, <1>6, <1>7 DEF ScheduleParts

LEMMA FireCheckKeeps ==
    ASSUME ScheduleParts, NEW c \in calls, FireCheck(c) PROVE ScheduleParts'
<1>0. TableShape /\ Shapes /\ Phases /\ Follows /\ Windows /\ Decided /\ OneRunPerWindow
      /\ TimersShape /\ MissedShape /\ CallsShape /\ PlanShape
  BY DEF ScheduleParts, Shapes
<1> DEFINE k == [c EXCEPT !.checked = TRUE, !.seen = cron[c.job]]
<1>u. /\ calls' = (calls \ {c}) \cup {k}
      /\ UNCHANGED <<now, enabled, cron, next, active, stage, timer, resync, sync, plan, missed,
                     pressed, open, started, behind, crossed, scheduleLeft>>
  BY DEF FireCheck, tableVars, memoryVars, firingVars
<1>c. c \in CallType /\ c.window <= now
  BY <1>0 DEF CallsShape
<1>k. /\ k.job = c.job /\ k.by = c.by /\ k.window = c.window /\ k.seen \in Crons
      /\ k \in CallType
  <2>1. cron[c.job] \in Crons
    BY <1>0, <1>c DEF TableShape, CallType
  <2>2. QED
    BY <1>c, <2>1 DEF CallType
<1> HIDE DEF k
<1>1. TableShape'
  BY <1>0, <1>u DEF TableShape
<1>2. Shapes'
  <2>1. CallsShape'
    <3>1. calls' \subseteq CallType
      BY <1>0, <1>u, <1>k DEF CallsShape
    <3>2. \A d \in calls' : d.window <= now /\ (d.checked => d.seen \in Crons)
      BY <1>0, <1>u, <1>k, <1>c DEF CallsShape
    <3>3. ASSUME NEW d \in calls', NEW e \in calls', d.by = e.by, d.by = "boot" \/ d.job = e.job
          PROVE  d = e
      <4>1. \A x, y \in calls : x.by = y.by /\ (x.by = "boot" \/ x.job = y.job) => x = y
        BY <1>0 DEF CallsShape
      <4>2. CASE d = k /\ e # k
        BY <1>u, <1>k, <3>3, <4>1, <4>2
      <4>3. CASE d # k /\ e = k
        BY <1>u, <1>k, <3>3, <4>1, <4>3
      <4>4. CASE d # k /\ e # k
        BY <1>u, <3>3, <4>1, <4>4
      <4>5. QED
        BY <4>2, <4>3, <4>4
    <3>4. QED
      BY <1>u, <3>1, <3>2, <3>3 DEF CallsShape
  <2>2. TimersShape' /\ MissedShape' /\ PlanShape'
    BY <1>0, <1>u DEF TimersShape, MissedShape, PlanShape
  <2>3. QED
    BY <2>1, <2>2 DEF Shapes
<1>3. Phases'
  BY <1>0, <1>u DEF Phases
<1>4. Follows'
  BY <1>0, <1>u DEF Follows, Listed
<1>t. \A i, u : Taken(i, u)' <=> Taken(i, u)
  BY <1>u, <1>k DEF Taken
<1>5. Windows'
  <2>1. ASSUME NEW d \in calls', NEW e \in calls', d.job = e.job, d.window = e.window
        PROVE  d = e
    <3>1. \A x, y \in calls : x.job = y.job /\ x.window = y.window => x = y
      BY <1>0 DEF Windows
    <3>2. CASE d = k /\ e # k
      BY <1>u, <1>k, <2>1, <3>1, <3>2
    <3>3. CASE d # k /\ e = k
      BY <1>u, <1>k, <2>1, <3>1, <3>3
    <3>4. CASE d # k /\ e # k
      BY <1>u, <2>1, <3>1, <3>4
    <3>5. QED
      BY <3>2, <3>3, <3>4
  <2>2. \A d \in calls', n \in missed' : d.job = n.job => n.window < d.window
    BY <1>0, <1>u, <1>k DEF Windows
  <2>3. ASSUME NEW i \in Jobs, NEW u \in Times
        PROVE  /\ Taken(i, u)' /\ u \notin crossed' => started'[<<i, u>>] = 0
               /\ started'[<<i, u>>] > 0 => u <= now'
               /\ timer'[i] # Unset /\ (Taken(i, u)' \/ started'[<<i,
                                                                   u>>] > 0) => u < timer'[i].at
               /\ started'[<<i, u>>] > 0 /\ u \notin crossed' => next'[i] = Unset \/ u < next'[i]
    <3>1. /\ Taken(i, u) /\ u \notin crossed => started[<<i, u>>] = 0
          /\ started[<<i, u>>] > 0 => u <= now
          /\ timer[i] # Unset /\ (Taken(i, u) \/ started[<<i, u>>] > 0) => u < timer[i].at
          /\ started[<<i, u>>] > 0 /\ u \notin crossed => next[i] = Unset \/ u < next[i]
      BY <1>0 DEF Windows
    <3>2. QED
      BY <1>u, <1>t, <3>1
  <2>4. sync' = "read" =>
          \A i \in DOMAIN plan'.write, u \in 0..now' : plan'.write[i] <= u => u \in crossed'
    BY <1>0, <1>u DEF Windows
  <2>5. QED
    BY <2>1, <2>2, <2>3, <2>4 DEF Windows
<1>6. Decided'
  BY <1>0, <1>u, <1>t DEF Decided, Owned
<1>7. OneRunPerWindow'
  BY <1>0, <1>u, OneRunKept
<1>8. QED
  BY <1>1, <1>2, <1>3, <1>4, <1>5, <1>6, <1>7 DEF ScheduleParts

LEMMA FireCommitKeeps ==
    ASSUME ScheduleParts, NEW c \in calls, FireCommit(c) PROVE ScheduleParts'
<1>0. TableShape /\ Shapes /\ Phases /\ Follows /\ Windows /\ Decided /\ OneRunPerWindow
      /\ TimersShape /\ MissedShape /\ CallsShape /\ PlanShape
  BY DEF ScheduleParts, Shapes
<1>u. /\ Return(c) /\ calls' = calls \ {c} /\ open' \subseteq open /\ c.checked
      /\ active' = [active EXCEPT ![c.job] = @ + 1]
      /\ next' = [next EXCEPT ![c.job] = NextFire(c.seen)]
      /\ started' = [started EXCEPT ![<<c.job, c.window>>] = @ + 1]
      /\ UNCHANGED <<now, enabled, cron, stage, timer, resync, sync, plan, missed, pressed,
                     behind,
                     crossed, scheduleLeft>>
  BY DEF FireCommit, Return, Advanced, memoryVars
<1>c. /\ c.job \in Jobs /\ c.window \in 0..now /\ c.window \in Times /\ c.window \in Nat
      /\ c.seen \in Crons
  <2>1. c \in CallType /\ c.window <= now /\ c.seen \in Crons
    BY <1>0, <1>u DEF CallsShape
  <2>2. c.job \in Jobs /\ c.window \in Nat
    BY <2>1 DEF CallType
  <2>3. QED
    BY <1>0, <2>1, <2>2, NowIs
<1>n. now \in Nat /\ \A u \in 0..now : u \in Nat
  BY <1>0, NowIs
<1>f. NextFire(c.seen) \in Nat /\ NextFire(c.seen) > now
  BY <1>0, <1>c, NextFireOf DEF TableShape
<1>s. /\ started[<<c.job, c.window>>] \in Nat /\ started' \in [Jobs \X Times -> Nat]
      /\ started'[<<c.job, c.window>>] = started[<<c.job, c.window>>] + 1
      /\ \A i \in Jobs, u \in Times :
            <<i, u>> # <<c.job, c.window>> => started'[<<i, u>>] = started[<<i, u>>]
  BY <1>0, <1>u, <1>c DEF TableShape
\* The window is nobody else's, and has no run yet unless it was crossed.
<1>w. /\ Taken(c.job, c.window) /\ ~Taken(c.job, c.window)'
      /\ c.window \notin crossed => started[<<c.job, c.window>>] = 0
      /\ timer[c.job] # Unset => c.window < timer[c.job].at
  <2>1. Taken(c.job, c.window)
    BY DEF Taken
  <2>2. \A d \in calls' : ~(d.job = c.job /\ d.window = c.window)
    BY <1>0, <1>u DEF Windows
  <2>3. ASSUME NEW m \in missed, m.job = c.job, m.window = c.window PROVE FALSE
    <3>1. m.window < c.window
      BY <1>0, <2>3 DEF Windows
    <3>2. QED
      BY <1>c, <2>3, <3>1
  <2>4. ~Taken(c.job, c.window)'
    BY <1>u, <2>2, <2>3 DEF Taken
  <2>5. QED
    BY <1>0, <1>c, <2>1, <2>4 DEF Windows
<1>1. TableShape'
  <2>1. active' \in [Jobs -> Nat]
    <3>1. active[c.job] + 1 \in Nat
      BY <1>0, <1>c DEF TableShape
    <3>2. QED
      BY <1>0, <1>u, <3>1 DEF TableShape
  <2>2. next' \in [Jobs -> Nat \cup {Unset}]
    BY <1>0, <1>u, <1>f DEF TableShape
  <2>3. QED
    BY <1>0, <1>u, <1>s, <2>1, <2>2 DEF TableShape
<1>2. Shapes'
  BY <1>0, <1>u, ShapesKept
<1>3. Phases'
  <2>1. calls = {} => calls' = {}
    BY <1>u
  <2>2. QED
    BY <1>0, <1>u, <2>1 DEF Phases
<1>4. Follows'
  BY <1>0, <1>u DEF Follows, Listed
<1>t. \A i, u : Taken(i, u)' => Taken(i, u)
  BY <1>u DEF Taken
<1>5. Windows'
  <2>1. \A d, e \in calls' : d.job = e.job /\ d.window = e.window => d = e
    BY <1>0, <1>u DEF Windows
  <2>2. \A d \in calls', n \in missed' : d.job = n.job => n.window < d.window
    BY <1>0, <1>u DEF Windows
  <2>3. ASSUME NEW i \in Jobs, NEW u \in Times
        PROVE  /\ Taken(i, u)' /\ u \notin crossed' => started'[<<i, u>>] = 0
               /\ started'[<<i, u>>] > 0 => u <= now'
               /\ timer'[i] # Unset /\ (Taken(i, u)' \/ started'[<<i,
                                                                   u>>] > 0) => u < timer'[i].at
               /\ started'[<<i, u>>] > 0 /\ u \notin crossed' => next'[i] = Unset \/ u < next'[i]
    <3>1. /\ Taken(i, u) /\ u \notin crossed => started[<<i, u>>] = 0
          /\ started[<<i, u>>] > 0 => u <= now
          /\ timer[i] # Unset /\ (Taken(i, u) \/ started[<<i, u>>] > 0) => u < timer[i].at
          /\ started[<<i, u>>] > 0 /\ u \notin crossed => next[i] = Unset \/ u < next[i]
      BY <1>0 DEF Windows
    <3>2. started'[<<i, u>>] > 0 => u <= now
      <4>1. CASE <<i, u>> = <<c.job, c.window>>
        BY <1>c, <4>1
      <4>2. CASE <<i, u>> # <<c.job, c.window>>
        BY <1>s, <3>1, <4>2
      <4>3. QED
        BY <4>1, <4>2
    <3>3. started'[<<i, u>>] > 0 /\ u \notin crossed => next'[i] = Unset \/ u < next'[i]
      <4>1. CASE i = c.job
        <5>1. next'[i] = NextFire(c.seen)
          BY <1>0, <1>u, <4>1 DEF TableShape
        <5>2. u \in Nat
          BY DEF Times
        <5>3. QED
          BY <1>f, <1>n, <3>2, <5>1, <5>2
      <4>2. CASE i # c.job
        <5>1. next'[i] = next[i]
          BY <1>0, <1>u, <4>2 DEF TableShape
        <5>2. QED
          BY <1>s, <3>1, <4>2, <5>1
      <4>3. QED
        BY <4>1, <4>2
    <3>4. CASE <<i, u>> = <<c.job, c.window>>
      BY <1>u, <1>w, <3>2, <3>3, <3>4
    <3>5. CASE <<i, u>> # <<c.job, c.window>>
      BY <1>u, <1>s, <1>t, <3>1, <3>2, <3>3, <3>5
    <3>6. QED
      BY <3>4, <3>5
  <2>4. sync' = "read" =>
          \A i \in DOMAIN plan'.write, u \in 0..now' : plan'.write[i] <= u => u \in crossed'
    BY <1>0, <1>u DEF Windows
  <2>5. QED
    BY <2>1, <2>2, <2>3, <2>4 DEF Windows
<1>6. Decided'
  <2>1. stage \notin {"down", "collect"}
    BY <1>0 DEF Phases
  <2>2. QED
    BY <1>0, <1>u, <2>1, ReturnDecides
<1>7. OneRunPerWindow'
  <2>1. ASSUME NEW w \in Jobs \X Times PROVE started'[w] <= 1 \/ w[2] \in crossed
    <3>1. w = <<w[1], w[2]>> /\ w[1] \in Jobs /\ w[2] \in Times
      OBVIOUS
    <3>2. CASE w = <<c.job, c.window>>
      BY <1>s, <1>w, <3>2
    <3>3. CASE w # <<c.job, c.window>>
      <4>1. started'[w] = started[w]
        BY <1>s, <3>1, <3>3
      <4>2. QED
        BY <1>0, <4>1 DEF OneRunPerWindow
    <3>4. QED
      BY <3>2, <3>3
  <2>2. QED
    BY <1>u, <2>1 DEF OneRunPerWindow
<1>8. QED
  BY <1>1, <1>2, <1>3, <1>4, <1>5, <1>6, <1>7 DEF ScheduleParts

(***************************************************************************)
(* Time and death                                                          *)
(***************************************************************************)
LEMMA TickKeeps ==
    ASSUME ScheduleParts, Tick PROVE ScheduleParts'
<1>0. TableShape /\ Shapes /\ Phases /\ Follows /\ Windows /\ Decided /\ OneRunPerWindow
      /\ TimersShape /\ MissedShape /\ CallsShape /\ PlanShape
  BY DEF ScheduleParts, Shapes
<1>u. /\ now < Horizon /\ now' = now + 1
      /\ open' = open \cup {<<j, now + 1>> : j \in {k \in Jobs : DueAt(k, now + 1)}}
      /\ crossed' = IF sync = "read" THEN crossed \cup {now + 1} ELSE crossed
      /\ UNCHANGED <<enabled, cron, next, active, stage, timer, resync, sync, plan, missed, calls,
                     pressed, started, behind, scheduleLeft>>
  BY DEF Tick, tableVars, memoryVars
<1>n. /\ now \in Nat /\ Horizon \in Nat /\ now + 1 \in 0..Horizon /\ now + 1 \in Times
      /\ now + 1 \in 0..(now + 1) /\ 0..now \subseteq 0..(now + 1)
      /\ \A u \in 0..(now + 1) : u \in 0..now \/ u = now + 1
  BY <1>0, <1>u, NowIs DEF Times
<1>1. TableShape'
  <2>1. open' \subseteq Jobs \X (0..now')
    BY <1>0, <1>u, <1>n DEF TableShape
  <2>2. crossed' \subseteq Times
    BY <1>0, <1>u, <1>n DEF TableShape
  <2>3. QED
    BY <1>0, <1>u, <1>n, <2>1, <2>2 DEF TableShape
<1>2. Shapes'
  <2>1. MissedShape'
    <3>1. \A m \in missed : m.window \in Nat /\ m.late \in Nat /\ m.window + m.late <= now + 1
      BY <1>0, <1>n DEF MissedShape
    <3>2. QED
      BY <1>0, <1>u, <3>1 DEF MissedShape
  <2>2. CallsShape'
    <3>1. \A c \in calls : c.window <= now + 1
      BY <1>0, <1>n DEF CallsShape, CallType
    <3>2. QED
      BY <1>0, <1>u, <3>1 DEF CallsShape
  <2>3. TimersShape' /\ PlanShape'
    BY <1>0, <1>u DEF TimersShape, PlanShape
  <2>4. QED
    BY <2>1, <2>2, <2>3 DEF Shapes
<1>3. Phases'
  BY <1>0, <1>u DEF Phases
<1>4. Follows'
  BY <1>0, <1>u DEF Follows, Listed
<1>t. /\ \A i, u : Taken(i, u)' <=> Taken(i, u)
      /\ crossed \subseteq crossed'
  BY <1>u DEF Taken
<1>5. Windows'
  <2>1. \A d, e \in calls' : d.job = e.job /\ d.window = e.window => d = e
    BY <1>0, <1>u DEF Windows
  <2>2. \A d \in calls', n \in missed' : d.job = n.job => n.window < d.window
    BY <1>0, <1>u DEF Windows
  <2>3. ASSUME NEW i \in Jobs, NEW u \in Times
        PROVE  /\ Taken(i, u)' /\ u \notin crossed' => started'[<<i, u>>] = 0
               /\ started'[<<i, u>>] > 0 => u <= now'
               /\ timer'[i] # Unset /\ (Taken(i, u)' \/ started'[<<i,
                                                                   u>>] > 0) => u < timer'[i].at
               /\ started'[<<i, u>>] > 0 /\ u \notin crossed' => next'[i] = Unset \/ u < next'[i]
    <3>1. /\ Taken(i, u) /\ u \notin crossed => started[<<i, u>>] = 0
          /\ started[<<i, u>>] > 0 => u <= now
          /\ timer[i] # Unset /\ (Taken(i, u) \/ started[<<i, u>>] > 0) => u < timer[i].at
          /\ started[<<i, u>>] > 0 /\ u \notin crossed => next[i] = Unset \/ u < next[i]
      BY <1>0 DEF Windows
    <3>2. u \in Nat
      BY DEF Times
    <3>3. u <= now => u <= now + 1
      BY <1>n, <3>2
    <3>4. QED
      BY <1>u, <1>t, <3>1, <3>3
  <2>4. sync' = "read" =>
          \A i \in DOMAIN plan'.write, u \in 0..now' : plan'.write[i] <= u => u \in crossed'
    <3> SUFFICES ASSUME sync = "read", NEW i \in DOMAIN plan.write, NEW u \in 0..(now + 1),
                        plan.write[i] <= u
                 PROVE  u \in crossed'
      BY <1>u
    <3>1. CASE u = now + 1
      BY <1>u, <3>1
    <3>2. CASE u \in 0..now
      BY <1>0, <1>t, <3>2 DEF Windows
    <3>3. QED
      BY <1>n, <3>1, <3>2
  <2>5. QED
    BY <2>1, <2>2, <2>3, <2>4 DEF Windows
<1>6. Decided'
  <2>1. \A i, u : Owned(i, u) => Owned(i, u)'
    BY <1>u, <1>t DEF Owned
  <2>2. ASSUME NEW j \in Jobs, DueAt(j, now + 1) PROVE Owned(j, now + 1)
    <3>1. CASE stage \in {"down", "collect"}
      BY <2>2, <3>1 DEF DueAt, Owned
    <3>2. CASE stage \notin {"down", "collect"}
      BY <2>2, <3>2 DEF DueAt, Owned
    <3>3. QED
      BY <3>1, <3>2
  <2>3. ASSUME NEW w \in open', w[2] \notin crossed' PROVE Owned(w[1], w[2])'
    <3>1. CASE w \in open
      BY <1>0, <1>t, <2>1, <2>3, <3>1 DEF Decided
    <3>2. CASE w \notin open
      <4>1. PICK j \in Jobs : DueAt(j, now + 1) /\ w = <<j, now + 1>>
        BY <1>u, <3>2
      <4>2. w[1] = j /\ w[2] = now + 1
        BY <4>1
      <4>3. Owned(j, now + 1)
        BY <2>2, <4>1
      <4>4. QED
        BY <2>1, <4>2, <4>3
    <3>3. QED
      BY <3>1, <3>2
  <2>4. QED
    BY <2>3 DEF Decided
<1>7. OneRunPerWindow'
  BY <1>0, <1>u, <1>t, OneRunKept
<1>8. QED
  BY <1>1, <1>2, <1>3, <1>4, <1>5, <1>6, <1>7 DEF ScheduleParts

LEMMA CrashKeeps ==
    ASSUME ScheduleParts, ProcessDies PROVE ScheduleParts'
<1>0. TableShape /\ Shapes /\ Phases /\ Follows /\ Windows /\ Decided /\ OneRunPerWindow
      /\ TimersShape /\ MissedShape /\ CallsShape /\ PlanShape
  BY DEF ScheduleParts, Shapes
<1>u. /\ ScheduleSpend("crash") /\ stage' = "down" /\ timer' = [j \in Jobs |-> Unset]
      /\ resync' = FALSE /\ sync' = "none" /\ plan' = NoPlan /\ missed' = {} /\ calls' = {}
      /\ pressed' = [j \in Jobs |-> 0] /\ behind' = FALSE
      /\ open' = {w \in open : enabled[w[1]] /\ next[w[1]] = w[2]}
      /\ UNCHANGED <<now, enabled, cron, next, active, started, crossed>>
  BY DEF ProcessDies, tableVars
<1>1. TableShape'
  <2>1. scheduleLeft' \in [ScheduleEvents -> Nat]
    BY <1>0, <1>u, ScheduleSpendType DEF ScheduleEvents, TableShape
  <2>2. pressed' \in [Jobs -> Nat]
    BY <1>u
  <2>3. QED
    BY <1>0, <1>u, <2>1, <2>2 DEF TableShape
<1>2. Shapes'
  BY <1>u DEF Shapes, TimersShape, MissedShape, CallsShape, PlanShape, NoPlan
<1>3. Phases'
  BY <1>u DEF Phases
<1>4. Follows'
  BY <1>u DEF Follows
<1>5. Windows'
  <2>1. \A k \in Jobs : next'[k] \in {next[k], Unset} /\ (next'[k] = Unset \/ next'[k] \in Nat)
    BY <1>0, <1>u DEF TableShape
  <2>2. \A k \in Jobs : timer'[k] \in {timer[k], Unset}
    BY <1>u
  <2>3. calls' \subseteq calls /\ missed' \subseteq missed /\ sync' # "read"
    BY <1>u
  <2>4. QED
    BY <1>0, <1>u, <2>1, <2>2, <2>3, WindowsKept
<1>6. Decided'
  BY <1>u DEF Decided, Owned
<1>7. OneRunPerWindow'
  BY <1>0, <1>u, OneRunKept
<1>8. QED
  BY <1>1, <1>2, <1>3, <1>4, <1>5, <1>6, <1>7 DEF ScheduleParts

(***************************************************************************)
(* The theorems                                                            *)
(***************************************************************************)
LEMMA ScheduleStarts == ScheduleInit => ScheduleParts
<1> SUFFICES ASSUME ScheduleInit PROVE ScheduleParts
  OBVIOUS
<1>t. cron \in [Jobs -> Crons]
  BY TablesAssumption DEF ScheduleInit
<1>u. /\ now = 0 /\ enabled = [j \in Jobs |-> TRUE] /\ cron \in [Jobs -> Crons]
      /\ next = [j \in Jobs |-> NextFire(cron[j])] /\ active = [j \in Jobs |-> 0]
      /\ stage = "down" /\ timer = [j \in Jobs |-> Unset]
      /\ resync = FALSE /\ sync = "none" /\ plan = NoPlan /\ missed = {}
      /\ calls = {} /\ pressed = [j \in Jobs |-> 0]
      /\ open = {} /\ started = [w \in Jobs \X Times |-> 0] /\ behind = FALSE
      /\ crossed = {} /\ scheduleLeft \in ScheduleBudgets
  BY <1>t DEF ScheduleInit
<1>1. TableShape
  <2>1. now \in 0..Horizon
    BY <1>u, TimesAssumption
  <2>2. next \in [Jobs -> Nat \cup {Unset}]
    <3>1. \A j \in Jobs : NextFire(cron[j]) \in Nat
      BY <1>u, <2>1, NextFireOf
    <3>2. QED
      BY <1>u, <3>1
  <2>3. scheduleLeft \in [ScheduleEvents -> Nat]
    BY <1>u, ScheduleBudgetsAssumption
  <2>4. /\ enabled \in [Jobs -> BOOLEAN] /\ active \in [Jobs -> Nat] /\ pressed \in [Jobs -> Nat]
        /\ started \in [Jobs \X Times -> Nat]
    BY <1>u
  <2>5. QED
    BY <1>u, <2>1, <2>2, <2>3, <2>4 DEF TableShape
<1>2. Shapes
  BY <1>u DEF Shapes, TimersShape, MissedShape, CallsShape, PlanShape, NoPlan
<1>3. Phases
  BY <1>u DEF Phases
<1>4. Follows
  BY <1>u DEF Follows
<1>s. \A i \in Jobs, u \in Times : started[<<i, u>>] = 0
  BY <1>u
<1>5. Windows
  BY <1>u, <1>s DEF Windows, Taken
<1>6. Decided
  BY <1>u DEF Decided
<1>7. OneRunPerWindow
  <2>1. \A w \in Jobs \X Times : started[w] = 0
    BY <1>u
  <2>2. QED
    BY <2>1 DEF OneRunPerWindow
<1>8. QED
  BY <1>1, <1>2, <1>3, <1>4, <1>5, <1>6, <1>7 DEF ScheduleParts

LEMMA ScheduleStep == ScheduleParts /\ [ScheduleNext]_scheduleVars => ScheduleParts'
<1> SUFFICES ASSUME ScheduleParts, [ScheduleNext]_scheduleVars PROVE ScheduleParts'
  OBVIOUS
<1>1. CASE Requests
  <2>1. PICK j \in Jobs : \/ \E on \in BOOLEAN, c \in Crons : Edit(j, on, c)
                          \/ PressBegin(j) \/ PressCommit(j) \/ RunEnds(j)
    BY <1>1 DEF Requests
  <2>2. QED
    BY <2>1, EditKeeps, RunsKeep
<1>2. CASE Fire
  BY <1>2, FireEndsKeeps, FireCheckKeeps, FireCommitKeeps DEF Fire
<1>3. CASE Launch \/ Started \/ Resync \/ SyncFails
  BY <1>3, PhaseKeeps
<1>4. CASE Collect \/ SyncRead \/ SyncCommit
  BY <1>4, CollectKeeps, SyncReadKeeps, SyncCommitKeeps
<1>5. CASE \E j \in Jobs : TimerFires(j)
  BY <1>5, TimerFiresKeeps
<1>6. CASE \E m \in missed : CatchUp(m)
  BY <1>6, CatchUpKeeps
<1>7. CASE Tick \/ ProcessDies
  BY <1>7, TickKeeps, CrashKeeps
<1>8. CASE UNCHANGED scheduleVars
  <2>0. TableShape /\ Shapes /\ Phases /\ Follows /\ Windows /\ Decided /\ OneRunPerWindow
        /\ TimersShape /\ MissedShape /\ CallsShape /\ PlanShape
    BY DEF ScheduleParts, Shapes
  <2>1. UNCHANGED <<now, enabled, cron, next, active, stage, timer, resync, sync, plan, missed,
                    calls, pressed, open, started, behind, crossed, scheduleLeft>>
    BY <1>8 DEF scheduleVars, tableVars, memoryVars, firingVars
  <2>2. TableShape' /\ Shapes'
    BY <2>0, <2>1, ShapesKept DEF TableShape
  <2>3. Phases' /\ Follows'
    BY <2>0, <2>1 DEF Phases, Follows, Listed
  <2>4. Windows'
    BY <2>0, <2>1 DEF Windows, Taken
  <2>5. Decided' /\ OneRunPerWindow'
    BY <2>0, <2>1, DecidedKept, OneRunKept
  <2>6. QED
    BY <2>2, <2>3, <2>4, <2>5 DEF ScheduleParts
<1>9. QED
  BY <1>1, <1>2, <1>3, <1>4, <1>5, <1>6, <1>7, <1>8 DEF ScheduleNext

\* The inductive invariant, which the theorems below are consequences of.
THEOREM ScheduleInvariance == ScheduleSpec => []ScheduleInv
<1>1. ScheduleInit => ScheduleParts
  BY ScheduleStarts
<1>2. ScheduleParts /\ [ScheduleNext]_scheduleVars => ScheduleParts'
  BY ScheduleStep
<1>3. ScheduleParts => ScheduleInv
  BY Parts
<1>4. QED
  BY <1>1, <1>2, <1>3, PTL DEF ScheduleSpec

\* When no resync is due, under way or lost, each enabled job has a timer for its present
\* expression and no disabled one has any.
THEOREM TimersAgree == ScheduleSpec => []TimersMatchTable
<1>1. ScheduleInv => TimersMatchTable
  BY DEF ScheduleInv, Follows, TimersMatchTable
<1>2. QED
  BY <1>1, ScheduleInvariance, PTL

\* Each firing makes at most one run, however often the process is restarted and the
\* timers are rebuilt, unless its instant came during a rebuild.
THEOREM RunsOnce == ScheduleSpec => []OneRunPerWindow
<1>1. ScheduleInv => OneRunPerWindow
  BY DEF ScheduleInv
<1>2. QED
  BY <1>1, ScheduleInvariance, PTL

\* A firing that was due is started, refused or given up as too late before the
\* scheduler comes to rest, unless its instant came during a rebuild.
THEOREM Remembered == ScheduleSpec => []NothingForgotten
<1>1. ScheduleInv => NothingForgotten
  <2> SUFFICES ASSUME ScheduleInv, Quiet, NEW w \in open, w[2] \notin crossed PROVE FALSE
    BY DEF NothingForgotten
  <2>0. TableShape /\ Phases /\ Decided
    BY DEF ScheduleInv
  <2>1. stage = "up" /\ calls = {} /\ missed = {} /\ \A j \in Jobs : ~Due(j)
    BY <2>0 DEF Quiet, Phases
  <2>2. w[1] \in Jobs /\ w[2] \in 0..now
    BY <2>0 DEF TableShape
  <2>3. timer[w[1]] # Unset /\ timer[w[1]].at = w[2]
    BY <2>0, <2>1 DEF Decided, Owned, Taken
  <2>4. Due(w[1])
    BY <2>0, <2>2, <2>3, NowIs DEF Due
  <2>5. QED
    BY <2>1, <2>2, <2>4
<1>2. QED
  BY <1>1, ScheduleInvariance, PTL

=============================================================================
