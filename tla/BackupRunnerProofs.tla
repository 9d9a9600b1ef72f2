------------------------- MODULE BackupRunnerProofs -------------------------
(***************************************************************************)
(* Theorems about BackupRunner, for every set of runs and guests and every *)
(* budget of faults.                                                       *)
(***************************************************************************)
EXTENDS BackupRunner, FiniteSetTheorems, TLAPS

\* The guest the loop stands at is a guest of the run.
LEMMA KeyInKeys ==
    ASSUME cur \in Runs, pos \in Nat \ {0}, More
    PROVE  Key \in Keys
  BY TargetsAssumption DEF Key, Keys, More

LEMMA TypeInit == Init => TypeOK
<1> SUFFICES ASSUME Init PROVE TypeOK
  OBVIOUS
<1> USE DEF Init
<1>1. /\ run \in [Runs -> {"none"} \cup RunActive \cup RunTerminal]
      /\ ok \in [Runs -> Nat] /\ bad \in [Runs -> Nat]
      /\ row \in [Keys -> {"none", "running"} \cup Closed]
      /\ ref \subseteq Keys
  OBVIOUS
<1>2. /\ call \in [Keys -> {"none", "sent", "accepted", "refused"}]
      /\ task \in [Keys -> {"none", "running"} \cup Terminal]
      /\ vzdumps \in [Keys -> Nat] /\ acked \in [Runs -> {"no", "early", "late", "heard"}]
  OBVIOUS
<1>3. pc \in Pcs /\ left \in [Events -> Nat]
  BY BudgetAssumption DEF Pcs, Events
<1>4. /\ pruned \subseteq Keys /\ kill \subseteq Keys /\ scan \subseteq Keys
      /\ cancelled \subseteq Runs /\ done \subseteq Guests /\ adopt \subseteq Guests
  OBVIOUS
<1>9. /\ cur \in Runs \cup {None} /\ currentRun \in Runs \cup {None}
      /\ currentTask \in Keys \cup {None}
  OBVIOUS
<1>5. pos \in Nat \ {0}
  OBVIOUS
<1>10. stopping \in BOOLEAN
  OBVIOUS
<1>6. api \in {None} \cup [run : Runs, seen : RunActive]
  OBVIOUS
<1>7. /\ Busy \/ pc \in {"claiming", "loading", "erring", "failing"} => cur \in Runs
      /\ pc \in {"opening", "starting", "calling", "saving", "polling"} => More
      /\ ending \in RunTerminal \cup {None}
      /\ pc \in {"recording", "failing"} => ending \in RunTerminal
  BY DEF Busy
<1> HIDE DEF Init
<1>8. QED
  BY <1>1, <1>2, <1>3, <1>4, <1>5, <1>6, <1>7, <1>9, <1>10 DEF TypeOK

\* A process that ends or begins has the memory of a fresh one.
LEMMA MemoryType ==
    ASSUME TypeOK, NEW w \in {"down", "recover"}, Memory(w),
           UNCHANGED <<dbVars, agentVars>>,
           scan' \subseteq Keys, left' \in [Events -> Nat]
    PROVE  TypeOK'
<1> USE DEF Memory
<1>1. (/\ run \in [Runs -> {"none"} \cup RunActive \cup RunTerminal]
       /\ ok \in [Runs -> Nat] /\ bad \in [Runs -> Nat]
       /\ row \in [Keys -> {"none", "running"} \cup Closed]
       /\ ref \subseteq Keys
       /\ call \in [Keys -> {"none", "sent", "accepted", "refused"}]
       /\ task \in [Keys -> {"none", "running"} \cup Terminal]
       /\ pruned \subseteq Keys /\ kill \subseteq Keys
       /\ vzdumps \in [Keys -> Nat])'
  BY DEF TypeOK, dbVars, agentVars
<1>2. acked' \in [Runs -> {"no", "early", "late", "heard"}]
  BY DEF TypeOK
<1>3. pc' \in {"down", "recover"} /\ api' \in {None} \cup [run : Runs, seen : RunActive]
  OBVIOUS
<1>4. (/\ cur \in Runs \cup {None} /\ currentRun \in Runs \cup {None}
       /\ currentTask \in Keys \cup {None})'
  OBVIOUS
<1>9. (cancelled \subseteq Runs /\ done \subseteq Guests /\ adopt \subseteq Guests)'
  OBVIOUS
<1>5. (pos \in Nat \ {0})'
  OBVIOUS
<1>10. (stopping \in BOOLEAN)' /\ (ending \in RunTerminal \cup {None})'
  OBVIOUS
<1>6. pc' \in Pcs /\ ~Busy' /\ pc' \notin {"claiming", "loading", "erring", "failing"}
      /\ pc' \notin {"opening", "starting", "calling", "saving", "polling", "recording"}
  BY <1>3 DEF Pcs, Busy
<1> HIDE DEF Memory
<1>7. QED
  BY <1>1, <1>2, <1>3, <1>4, <1>5, <1>6, <1>9, <1>10 DEF TypeOK

LEMMA TypeCrash == ASSUME TypeOK, Crash PROVE TypeOK'
<1>1. left' \in [Events -> Nat]
  BY DEF TypeOK, Crash, Spend, Events
<1>2. QED
  BY <1>1, MemoryType DEF Crash

\* What is left of a budget stays one.
LEMMA SpendType ==
    ASSUME TypeOK, NEW f \in Events, Spend(f) PROVE left' \in [Events -> Nat]
  BY DEF TypeOK, Spend

\* Closing a row keeps the types of the database.
LEMMA CloseRowType ==
    ASSUME TypeOK, NEW k \in Keys, NEW v \in Terminal, CloseRow(k, v)
    PROVE  /\ (/\ run \in [Runs -> {"none"} \cup RunActive \cup RunTerminal]
                /\ ok \in [Runs -> Nat] /\ bad \in [Runs -> Nat]
                /\ row \in [Keys -> {"none", "running"} \cup Closed]
                /\ ref \subseteq Keys)'
<1>1. k[1] \in Runs
  BY DEF Keys
<1>2. ok' \in [Runs -> Nat] /\ bad' \in [Runs -> Nat]
  BY <1>1 DEF TypeOK, CloseRow, BumpCounters
<1>3. QED
  BY <1>2 DEF TypeOK, CloseRow, Closed

\* The loop moves on to its next guest, or to its end.
LEMMA NextPosType ==
    ASSUME TypeOK, NextPos, cur \in Runs, left' \in [Events -> Nat],
           (/\ run \in [Runs -> {"none"} \cup RunActive \cup RunTerminal]
            /\ ok \in [Runs -> Nat] /\ bad \in [Runs -> Nat]
            /\ row \in [Keys -> {"none", "running"} \cup Closed]
            /\ ref \subseteq Keys)'
    PROVE  TypeOK'
<1>1. (/\ call \in [Keys -> {"none", "sent", "accepted", "refused"}]
       /\ task \in [Keys -> {"none", "running"} \cup Terminal]
       /\ pruned \subseteq Keys /\ kill \subseteq Keys
       /\ vzdumps \in [Keys -> Nat])'
  BY DEF TypeOK, NextPos, agentVars
<1>2. (/\ done \subseteq Guests /\ adopt \subseteq Guests
       /\ cancelled \subseteq Runs /\ scan \subseteq Keys
       /\ acked \in [Runs -> {"no", "early", "late", "heard"}])'
  BY DEF TypeOK, NextPos
<1>3. (/\ cur \in Runs \cup {None} /\ currentRun \in Runs \cup {None}
       /\ currentTask \in Keys \cup {None} /\ pc = "loop" /\ cur \in Runs)'
  BY DEF TypeOK, NextPos
<1>4. (pos \in Nat \ {0})'
  BY DEF TypeOK, NextPos
<1>5. (stopping \in BOOLEAN)' /\ (ending \in RunTerminal \cup {None})'
  BY DEF TypeOK, NextPos
<1>6. (api \in {None} \cup [run : Runs, seen : RunActive])'
  BY DEF TypeOK, NextPos
<1>7. /\ pc' \in Pcs
      /\ pc' \notin {"opening", "starting", "calling", "saving", "polling", "recording", "failing"}
  BY <1>3 DEF Pcs
<1>8. QED
  BY <1>1, <1>2, <1>3, <1>4, <1>5, <1>6, <1>7 DEF TypeOK

\* The loop closes the row of its guest and moves on.
LEMMA EndGuestType ==
    ASSUME TypeOK, cur \in Runs, More, NEW v \in Terminal,
           CloseRow(Key, v), NextPos, left' \in [Events -> Nat]
    PROVE  TypeOK'
<1>1. Key \in Keys
  BY KeyInKeys DEF TypeOK
<1>2. QED
  BY <1>1, CloseRowType, NextPosType

\* Run ids are ordered as numbers are.
LEMMA RunOrder == \A p, q \in Runs : (~(q < p) => p <= q) /\ (p <= q /\ q <= p => p = q)
  BY RunsAssumption

LEMMA SummaryType == \A r \in Runs : Summary(r) \in RunTerminal
  BY DEF Summary, RunTerminal

\* The status decided for a run is a terminal one.
LEMMA DecideType ==
    ASSUME TypeOK, cur \in Runs, NEW s \in RunTerminal, NEW w \in {"recording", "failing"},
           Decide(s, w)
    PROVE  TypeOK'
<1>1. /\ pc' = w /\ pc' \in Pcs /\ ending' \in RunTerminal
      /\ pc' \notin {"opening", "starting", "calling", "saving", "polling"}
  BY DEF Decide, FinalStatus, RunTerminal, Pcs
<1>2. UNCHANGED <<dbVars, agentVars, cur, pos, done, adopt, sharedVars, stopping,
                  scan, api, acked, left>>
  BY DEF Decide
<1>3. QED
  BY <1>1, <1>2 DEF TypeOK, dbVars, agentVars, sharedVars

\* A run that ends gets a terminal status and the registers are cleared.
LEMMA CommitType == ASSUME TypeOK, FinaliseCommit PROVE TypeOK'
<1>0. cur \in Runs /\ ending \in RunTerminal
  BY DEF FinaliseCommit, TypeOK, Busy
<1>1. (/\ run \in [Runs -> {"none"} \cup RunActive \cup RunTerminal]
       /\ cancelled \subseteq Runs)'
  BY <1>0 DEF TypeOK, FinaliseCommit
<1>2. Leave /\ UNCHANGED <<ok, bad, row, ref, agentVars, stopping, scan, api,
                           acked, left>>
  BY DEF FinaliseCommit
<1>3. (pc \in Pcs /\ ~Busy /\ pc = "idle")'
  BY <1>2 DEF Leave, Pcs, Busy
<1>4. QED
  BY <1>1, <1>2, <1>3 DEF TypeOK, Leave, agentVars

\* Every action keeps the types.
LEMMA TypeNext == TypeOK /\ [Next]_vars => TypeOK'
<1> SUFFICES ASSUME TypeOK, [Next]_vars PROVE TypeOK'
  OBVIOUS
<1> USE DEF TypeOK, RunActive, RunTerminal, Terminal, Closed, Busy, More
<1>1. CASE Api
  <2>1. ASSUME NEW r \in Runs, RequestRun(r) PROVE TypeOK'
    <3>1. left' \in [Events -> Nat]
      BY <2>1, SpendType DEF RequestRun, Events
    <3>2. run' \in [Runs -> {"none"} \cup RunActive \cup RunTerminal]
      BY <2>1 DEF RequestRun
    <3>3. UNCHANGED <<ok, bad, row, ref, agentVars, pc, planVars, sharedVars,
                      stopping, scan, api, acked>>
      BY <2>1 DEF RequestRun
    <3>4. QED
      BY <3>1, <3>2, <3>3 DEF agentVars, planVars, sharedVars
  <2>2. ASSUME NEW r \in Runs, CancelRead(r) PROVE TypeOK'
    <3>1. left' \in [Events -> Nat]
      BY <2>2, SpendType DEF CancelRead, Events
    <3>2. api' \in [run : Runs, seen : RunActive]
      BY <2>2 DEF CancelRead, Cancellable
    <3>3. UNCHANGED <<dbVars, agentVars, pc, planVars, sharedVars, stopping, scan, acked>>
      BY <2>2 DEF CancelRead
    <3>4. QED
      BY <3>1, <3>2, <3>3 DEF dbVars, agentVars, planVars, sharedVars
  <2>3. CASE CancelQueued
    BY <2>3 DEF CancelQueued, agentVars, planVars, sharedVars
  <2>4. CASE CancelRunning
    BY <2>4 DEF CancelRunning, dbVars, planVars
  <2>5. QED
    BY ONLY <1>1, <2>1, <2>2, <2>3, <2>4 DEF Api
<1>2. CASE Agent
  <2>1. ASSUME NEW k \in Keys, AgentAccept(k) PROVE TypeOK'
    BY <2>1 DEF AgentAccept, dbVars, planVars, sharedVars
  <2>2. ASSUME NEW k \in Keys, AgentRefuse(k) PROVE TypeOK'
    BY <2>2 DEF AgentRefuse, dbVars, planVars, sharedVars
  <2>3. ASSUME NEW k \in Keys, NEW s \in {"success", "failed", "cancelled"},
               AgentFinish(k, s)
        PROVE  TypeOK'
    BY <2>3 DEF AgentFinish, dbVars, planVars, sharedVars
  <2>4. ASSUME NEW lost \in SUBSET Keys, AgentRestart(lost) PROVE TypeOK'
    <3>1. left' \in [Events -> Nat]
      BY <2>4, SpendType DEF AgentRestart, Events
    <3>2. (task \in [Keys -> {"none", "running"} \cup Terminal])'
      BY <2>4 DEF AgentRestart
    <3>3. (pruned \subseteq Keys)'
      BY <2>4 DEF AgentRestart
    <3>4. UNCHANGED <<dbVars, call, kill, vzdumps, pc, planVars, sharedVars,
                      stopping, scan, api, acked>>
      BY <2>4 DEF AgentRestart
    <3>5. QED
      BY <3>1, <3>2, <3>3, <3>4 DEF dbVars, planVars, sharedVars
  <2>5. QED
    BY ONLY <1>2, <2>1, <2>2, <2>3, <2>4 DEF Agent
<1>3. CASE Boot
  BY <1>3, MemoryType DEF Boot, Orphaned
<1>4. CASE Exit
  BY <1>4, MemoryType DEF Exit
<1>5. CASE UNCHANGED vars
  BY <1>5 DEF vars, dbVars, agentVars, planVars, sharedVars
<1>6. CASE Failure
  <2>1. CASE Crash
    BY <2>1, TypeCrash
  <2>t. Stop \/ ClaimError \/ RunError \/ WorkerDies => left' \in [Events -> Nat]
    BY SpendType DEF Stop, ClaimError, RunError, WorkerDies, Events
  <2>2. CASE Stop
    BY <2>2, <2>t DEF Stop, Pcs, dbVars, agentVars, planVars, sharedVars
  <2>3. CASE ClaimError
    BY <2>3, <2>t DEF ClaimError, Pcs, dbVars, agentVars, sharedVars
  <2>4. CASE RunError
    BY <2>4, <2>t DEF RunError, Pcs, dbVars, agentVars, planVars, sharedVars
  <2>5. CASE WorkerDies
    BY <2>5, <2>t DEF WorkerDies, Pcs, dbVars, agentVars, planVars
  <2>6. QED
    BY ONLY <1>6, <2>1, <2>2, <2>3, <2>4, <2>5 DEF Failure
<1>7. CASE Recover
  <2>1. ASSUME NEW k \in Keys, RecoverUnconfirmed(k) PROVE TypeOK'
    BY <2>1, CloseRowType DEF RecoverUnconfirmed, NextScan, agentVars, planVars, sharedVars
  <2>2. ASSUME NEW k \in Keys, RecoverTask(k) PROVE TypeOK'
    BY <2>2, CloseRowType DEF RecoverTask, NextScan, dbVars, agentVars, planVars, sharedVars
  <2>3. ASSUME NEW k \in Keys, RecoverDeferred(k) PROVE TypeOK'
    BY <2>3, SpendType DEF RecoverDeferred, NextScan, Events, dbVars, agentVars, planVars, sharedVars
  <2>4. CASE RequeueRuns
    BY <2>4 DEF RequeueRuns, Pcs, agentVars, planVars, sharedVars
  <2>5. QED
    BY ONLY <1>7, <2>1, <2>2, <2>3, <2>4 DEF Recover
<1>8. CASE Executor
  <2>1. ASSUME NEW r \in Runs, ClaimRead(r) PROVE TypeOK'
    BY <2>1 DEF ClaimRead, Pcs, dbVars, agentVars, sharedVars
  <2>2. CASE ClaimWrite
    BY <2>2 DEF ClaimWrite, Pcs, agentVars, planVars, sharedVars
  <2>3. CASE LoadPlan
    BY <2>3 DEF LoadPlan, Pcs, Completed, RowsOf, dbVars, agentVars
  <2>4. CASE StopBetweenGuests
    BY <2>4 DEF StopBetweenGuests, Leave, Pcs, dbVars, agentVars
  <2>5. CASE CancelBetweenGuests
    BY <2>5 DEF CancelBetweenGuests, LoopTo, Pcs, dbVars, agentVars, sharedVars
  <2>6. CASE SkipGuest
    BY <2>6 DEF SkipGuest, Proceeds, LoopTo, Pcs, dbVars, agentVars, sharedVars
  <2>7. CASE NextGuest
    BY <2>7 DEF NextGuest, Proceeds, LoopTo, Pcs, dbVars, agentVars, sharedVars
  <2>8. CASE EndOfLoop
    BY <2>8 DEF EndOfLoop, LoopTo, Pcs, dbVars, agentVars, sharedVars
  <2>9. CASE AdoptRow
    BY <2>9, KeyInKeys DEF AdoptRow, Pcs, dbVars, agentVars, planVars
  <2>10. CASE OpenRow
    BY <2>10, KeyInKeys DEF OpenRow, Pcs, agentVars, planVars, sharedVars
  <2>11. CASE SendStart
    BY <2>11, KeyInKeys DEF SendStart, Pcs, dbVars, planVars, sharedVars
  <2>12. CASE StartFails
    BY <2>12, EndGuestType DEF StartFails
  <2>13. CASE StartAccepted
    BY <2>13 DEF StartAccepted, Pcs, dbVars, agentVars, planVars, sharedVars
  <2>14. CASE SaveTaskId
    BY <2>14, KeyInKeys DEF SaveTaskId, Pcs, agentVars, planVars
  <2>15. CASE PollTerminal
    BY <2>15, EndGuestType DEF PollTerminal
  <2>16. CASE PollGivesUp
    <3>1. cur \in Runs /\ More /\ CloseRow(Key, "interrupted") /\ NextPos
      BY <2>16 DEF PollGivesUp
    <3>2. left' \in [Events -> Nat]
      BY <2>16, SpendType DEF PollGivesUp, Events
    <3>3. QED
      BY <3>1, <3>2, EndGuestType
  <2>17. CASE PollStopped
    BY <2>17, NextPosType DEF PollStopped, dbVars
  <2>18. CASE FinaliseRun
    <3>1. cur \in Runs /\ Decide(Summary(cur), "recording")
      BY <2>18 DEF FinaliseRun
    <3>2. QED
      BY <3>1, SummaryType, DecideType
  <2>19. CASE FinaliseError
    <3>1. cur \in Runs /\ Decide("failed", "failing")
      BY <2>19 DEF FinaliseError
    <3>2. QED
      BY <3>1, DecideType
  <2>21. CASE FinaliseCommit
    BY <2>21, CommitType
  <2>20. QED
    BY ONLY <1>8, <2>1, <2>2, <2>3, <2>4, <2>5, <2>6, <2>7, <2>8, <2>9, <2>10, <2>11, <2>12, <2>13, <2>14, <2>15, <2>16, <2>17, <2>18, <2>19, <2>21 DEF Executor
<1>10. CASE Deletions
  <2>1. PICK k \in Keys : DeleteArchive(k)
    BY <1>10 DEF Deletions
  <2>2. left' \in [Events -> Nat]
    BY <2>1, SpendType DEF DeleteArchive, Events
  <2>3. row' \in [Keys -> {"none", "running"} \cup Closed]
    BY <2>1 DEF DeleteArchive, Won
  <2>4. UNCHANGED <<run, ok, bad, ref, agentVars, pc, planVars, sharedVars, stopping,
                    scan, api, acked>>
    BY <2>1 DEF DeleteArchive
  <2>5. QED
    BY <2>2, <2>3, <2>4 DEF agentVars, planVars, sharedVars
<1>9. QED
  BY <1>1, <1>2, <1>3, <1>4, <1>5, <1>6, <1>7, <1>8, <1>10 DEF Next

\* The rows, runs, agent and queue of every behaviour have their types.
THEOREM TypeCorrect == Spec => []TypeOK
<1>1. QED
  BY TypeInit, TypeNext, PTL DEF Spec

-----------------------------------------------------------------------------
(***************************************************************************)
(* The inductive invariant.  A step touches the rows, the requests and the *)
(* host in one of seven ways (lemma Effects), which settles what the rows    *)
(* and the host owe each other.                                            *)
(***************************************************************************)

\* The deletion of an archive touches the row of a success, and nothing else.
LEMMA DeletesOnly ==
    ASSUME TypeOK, Deletions
    PROVE  /\ UNCHANGED <<run, ok, bad, ref, agentVars, pc, planVars, sharedVars, stopping,
                           scan, api, acked>>
           /\ \A j \in Keys : row'[j] = row[j] \/ (row[j] \in Won /\ row'[j] \in Won)
<1>1. PICK k \in Keys : DeleteArchive(k)
  BY DEF Deletions
<1>2. PICK v \in Won : row' = [row EXCEPT ![k] = v]
  BY <1>1 DEF DeleteArchive
<1>3. row[k] \in Won
  BY <1>1 DEF DeleteArchive
<1>4. QED
  BY <1>1, <1>2, <1>3 DEF DeleteArchive, TypeOK

\* A row is closed with a verdict the agent reported, or that claims nothing.
Concludes(k, v) ==
    /\ row[k] = "running" /\ v \in Terminal
    /\ v \in {"success", "cancelled"} => task[k] = v
    /\ row' = [row EXCEPT ![k] = v]
    /\ UNCHANGED <<ref, call, task, vzdumps>>

Effect ==
    \/ UNCHANGED <<row, ref, call, task, vzdumps>>
    \/ \E k \in Keys : AgentAccept(k) \/ AgentRefuse(k)
    \/ /\ task' \in [Keys -> {"none", "running"} \cup Terminal]
       /\ \A k \in Keys : task'[k] # task[k] =>
             task[k] = "running" /\ task'[k] \in Terminal
       /\ UNCHANGED <<row, ref, call, vzdumps>>
    \/ \E k \in Keys, v \in Terminal : Concludes(k, v)
    \/ OpenRow \/ SendStart
    \/ SaveTaskId
    \/ \E k \in Keys : DeleteArchive(k)

LEMMA Effects == ASSUME IInv, [Next]_vars PROVE Effect
<1>1. CASE Api
  BY <1>1 DEF Api, RequestRun, CancelRead, CancelQueued, CancelRunning,
              Effect, dbVars, agentVars
<1>2. CASE Agent
  <2>1. ASSUME NEW k \in Keys, NEW s \in {"success", "failed", "cancelled"},
               AgentFinish(k, s)
        PROVE  Effect
    BY <2>1 DEF AgentFinish, Effect, IInv, TypeOK, Terminal, Closed, Won, dbVars
  <2>2. ASSUME NEW lost \in SUBSET Keys, AgentRestart(lost) PROVE Effect
    BY <2>2 DEF AgentRestart, Effect, IInv, TypeOK, Terminal, Closed, Won, dbVars
  <2>3. QED
    BY <1>2, <2>1, <2>2 DEF Agent, Effect
<1>3. CASE Boot \/ Exit \/ Failure \/ UNCHANGED vars
  BY <1>3 DEF Boot, Exit, Failure, Crash, Stop, ClaimError, RunError,
              WorkerDies, Effect, vars, dbVars, agentVars
<1>4. CASE Recover
  <2>1. ASSUME NEW k \in Keys, NEW v \in Terminal, CloseRow(k, v), NextScan(k),
               k \in scan, pc = "recover",
               v \in {"success", "cancelled"} => task[k] = v
        PROVE  Effect
    BY <2>1 DEF CloseRow, NextScan, Effect, Concludes, IInv, ScanIsRunning,
                agentVars
  <2>2. ASSUME NEW k \in Keys, RecoverUnconfirmed(k) PROVE Effect
    BY <2>1, <2>2 DEF RecoverUnconfirmed, Unconfirmed, Terminal, Closed, Won
  <2>3. ASSUME NEW k \in Keys, RecoverTask(k) PROVE Effect
    <3>1. CASE k \in pruned
      BY <2>1, <2>3, <3>1 DEF RecoverTask, Terminal, Closed, Won
    <3>2. CASE k \notin pruned /\ task[k] \in Terminal
      BY <2>1, <2>3, <3>2 DEF RecoverTask
    <3>3. CASE k \notin pruned /\ task[k] \notin Terminal
      BY <2>3, <3>3 DEF RecoverTask, NextScan, Effect, dbVars, agentVars
    <3>4. QED
      BY <3>1, <3>2, <3>3
  <2>4. CASE (\E k \in Keys : RecoverDeferred(k)) \/ RequeueRuns
    BY <2>4 DEF RecoverDeferred, NextScan, RequeueRuns, Effect, dbVars, agentVars
  <2>5. QED
    BY <1>4, <2>2, <2>3, <2>4 DEF Recover
<1>5. CASE Executor
  <2>1. ASSUME NEW v \in Terminal, CloseRow(Key, v), NextPos,
               pc \in {"starting", "calling", "polling"},
               v \in {"success", "cancelled"} => task[Key] = v
        PROVE  Effect
    <3>1. Key \in Keys
      BY <2>1, KeyInKeys DEF IInv, TypeOK, Busy
    <3>2. row[Key] = "running"
      BY <2>1 DEF IInv, GuestInHand
    <3>3. Concludes(Key, v)
      BY <2>1, <3>2 DEF CloseRow, NextPos, Concludes, agentVars
    <3>4. QED
      BY <3>1, <3>3 DEF Effect
  <2>2. CASE StartFails
    BY <2>1, <2>2 DEF StartFails, Terminal, Closed, Won
  <2>3. CASE PollTerminal
    BY <2>1, <2>3 DEF PollTerminal
  <2>4. CASE PollGivesUp
    BY <2>1, <2>4 DEF PollGivesUp, Terminal, Closed, Won
  <2>5. CASE OpenRow \/ SendStart \/ SaveTaskId
    BY <2>5 DEF Effect
  <2>6. CASE \/ \E r \in Runs : ClaimRead(r)
             \/ ClaimWrite \/ LoadPlan \/ StopBetweenGuests \/ CancelBetweenGuests
             \/ SkipGuest \/ NextGuest \/ EndOfLoop \/ AdoptRow \/ StartAccepted
             \/ PollStopped \/ FinaliseRun \/ FinaliseError \/ FinaliseCommit
    BY <2>6 DEF ClaimRead, ClaimWrite, LoadPlan, StopBetweenGuests,
                CancelBetweenGuests, SkipGuest, NextGuest, EndOfLoop, LoopTo,
                AdoptRow, StartAccepted, PollStopped, NextPos, FinaliseRun,
                FinaliseError, Decide, FinaliseCommit, Effect, dbVars, agentVars
  <2>7. QED
    BY <1>5, <2>2, <2>3, <2>4, <2>5, <2>6 DEF Executor
<1>6. CASE Deletions
  BY <1>6 DEF Deletions, Effect
<1>7. QED
  BY <1>1, <1>2, <1>3, <1>4, <1>5, <1>6 DEF Next

\* A request is sent for a row that is there, and only once.
LEMMA RequestsStep ==
    ASSUME IInv, [Next]_vars PROVE RequestsAccounted' /\ VerdictIsHonest'
<1> USE DEF IInv, TypeOK, RequestsAccounted, VerdictIsHonest, Terminal, Closed, Won
<1>1. CASE UNCHANGED <<row, ref, call, task, vzdumps>>
  BY <1>1
<1>2. ASSUME NEW k \in Keys, AgentAccept(k) \/ AgentRefuse(k)
      PROVE  RequestsAccounted' /\ VerdictIsHonest'
  BY <1>2 DEF AgentAccept, AgentRefuse, dbVars
<1>3. CASE /\ task' \in [Keys -> {"none", "running"} \cup Terminal]
           /\ \A k \in Keys : task'[k] # task[k] =>
                 task[k] = "running" /\ task'[k] \in Terminal
           /\ UNCHANGED <<row, ref, call, vzdumps>>
  BY <1>3
<1>4. ASSUME NEW k \in Keys, NEW v \in Terminal, Concludes(k, v)
      PROVE  RequestsAccounted' /\ VerdictIsHonest'
  BY <1>4 DEF Concludes
<1>5. CASE OpenRow
  BY <1>5 DEF OpenRow, agentVars
<1>6. CASE SendStart
  <2>1. Key \in Keys
    BY <1>6, KeyInKeys DEF SendStart, Busy
  <2>2. row[Key] = "running" /\ call[Key] = "none"
    BY <1>6 DEF SendStart, GuestInHand
  <2>3. QED
    BY <1>6, <2>1, <2>2 DEF SendStart, dbVars
<1>7. CASE SaveTaskId
  BY <1>7 DEF SaveTaskId, agentVars
<1>9. ASSUME NEW k \in Keys, DeleteArchive(k)
      PROVE  RequestsAccounted' /\ VerdictIsHonest'
  <2>1. /\ row[k] \in Won /\ UNCHANGED <<call, task, vzdumps>>
        /\ \E v \in Won : row' = [row EXCEPT ![k] = v]
    BY <1>9 DEF DeleteArchive, agentVars
  <2>2. PICK v \in Won : row' = [row EXCEPT ![k] = v]
    BY <2>1
  <2>3. QED
    BY <2>1, <2>2
<1>8. QED
  BY <1>1, <1>2, <1>3, <1>4, <1>5, <1>6, <1>7, <1>9, Effects DEF Effect

\* The guests of a run are different rows.
LEMMA OtherGuest ==
    ASSUME NEW r \in Runs, NEW i \in DOMAIN Targets[r],
           NEW j \in DOMAIN Targets[r], i # j
    PROVE  /\ <<r, Targets[r][i]>> # <<r, Targets[r][j]>>
           /\ <<r, Targets[r][i]>> \in Keys
  BY TargetsAssumption DEF Keys

\* While a plan is executed, rows change only for the guest in hand.
LEMMA PlanMoves ==
    ASSUME IInv, Busy, cur' = cur, done' = done, adopt' = adopt,
           \A k \in Keys : k # Key => row'[k] = row[k] /\ (k \in ref' <=> k \in ref),
           \A i \in DOMAIN Targets[cur] : Ahead(i)' =>
              Ahead(i) /\ (i # pos \/ UNCHANGED <<row, ref>>)
    PROVE  PlanIsCurrent'
<1>1. cur \in Runs
  BY DEF IInv, TypeOK
<1>2. SUFFICES ASSUME NEW i \in DOMAIN Targets[cur], Ahead(i)'
               PROVE  Known(<<cur, Targets[cur][i]>>)'
  BY DEF PlanIsCurrent
<1>3. Known(<<cur, Targets[cur][i]>>) /\ <<cur, Targets[cur][i]>> \in Keys
  BY <1>1, <1>2, TargetsAssumption DEF IInv, PlanIsCurrent, Keys
<1>4. CASE UNCHANGED <<row, ref>>
  BY <1>3, <1>4 DEF Known
<1>5. CASE i # pos
  <2>1. i > pos /\ pos \in Nat \ {0}
    BY <1>2, <1>5 DEF Ahead, IInv, TypeOK
  <2>2. pos \in DOMAIN Targets[cur]
    BY <1>1, <2>1, TargetsAssumption
  <2>3. <<cur, Targets[cur][i]>> # Key
    BY <1>1, <1>5, <2>2, TargetsAssumption DEF Key
  <2>4. QED
    BY <1>3, <2>3 DEF Known
<1>6. QED
  BY <1>2, <1>4, <1>5

\* The loop never reaches a guest whose row it has neither read nor written.
LEMMA PlanStep == ASSUME IInv, [Next]_vars PROVE PlanIsCurrent'
<1>1. CASE ~Busy'
  BY <1>1 DEF PlanIsCurrent
<1>2. CASE UNCHANGED <<pc, cur, pos, row, done, adopt, ref>>
  BY <1>2 DEF PlanIsCurrent, IInv, Busy, Ahead, Known
<1>3. CASE LoadPlan
  <2>1. cur \in Runs /\ row \in [Keys -> {"none", "running"} \cup Closed]
    BY <1>3 DEF LoadPlan, IInv, TypeOK
  <2>2. SUFFICES ASSUME NEW g \in Guests PROVE Known(<<cur, g>>)'
    BY <1>3, <2>1, TargetsAssumption DEF PlanIsCurrent, LoadPlan
  <2>3. <<cur, g>> \in Keys /\ <<cur, g>>[1] = cur /\ <<cur, g>>[2] = g
    BY <2>1 DEF Keys
  <2>4. row[<<cur, g>>] = "running" => <<cur, g>> \in ref
    BY <1>3, <2>3 DEF LoadPlan, IInv, NobodyResumes
  <2>5. QED
    BY <1>3, <2>1, <2>3, <2>4 DEF LoadPlan, Known, Completed, RowsOf, dbVars
<1>4. ASSUME cur' = cur, done' = done, adopt' = adopt, UNCHANGED <<row, ref>>,
             \/ pc = "loop" /\ pc' \in {"opening", "finalising"} /\ pos' = pos
             \/ pc = "finalising" /\ pc' = "recording" /\ pos' = pos
             \/ pc = "loop" /\ pc' = "loop" /\ pos' = pos + 1
      PROVE  PlanIsCurrent'
  <2>1. Busy /\ pos \in Nat
    BY <1>4 DEF Busy, IInv, TypeOK
  <2>2. ASSUME NEW i \in DOMAIN Targets[cur], Ahead(i)' PROVE Ahead(i)
    <3>1. i \in Nat
      BY <2>1, TargetsAssumption DEF IInv, TypeOK
    <3>2. QED
      BY <1>4, <2>1, <2>2, <3>1 DEF Ahead
  <2>3. QED
    BY <1>4, <2>1, <2>2, PlanMoves
<1>5. ASSUME cur' = cur, done' = done, adopt' = adopt,
             pc \in {"opening", "starting", "calling", "saving", "polling"},
             \A k \in Keys : k # Key => row'[k] = row[k] /\ (k \in ref' <=> k \in ref),
             \/ pc' \in {"starting", "calling", "saving", "polling"} /\ pos' = pos
             \/ pc' = "loop" /\ pos' = pos + 1
      PROVE  PlanIsCurrent'
  <2>1. Busy /\ pos \in Nat
    BY <1>5 DEF Busy, IInv, TypeOK
  <2>2. ASSUME NEW i \in DOMAIN Targets[cur], Ahead(i)' PROVE Ahead(i) /\ i # pos
    <3>1. i \in Nat
      BY <2>1, TargetsAssumption DEF IInv, TypeOK
    <3>2. QED
      BY <1>5, <2>1, <2>2, <3>1 DEF Ahead
  <2>3. QED
    BY <1>5, <2>1, <2>2, PlanMoves
<1>6. CASE Api \/ Agent \/ Stop \/ UNCHANGED vars
  BY <1>2, <1>6 DEF Api, RequestRun, CancelRead, CancelQueued, CancelRunning,
      Agent, AgentAccept, AgentRefuse, AgentFinish, AgentRestart, Stop,
      vars, dbVars, planVars
<1>7. CASE Boot \/ Exit \/ Crash \/ ClaimError \/ RunError \/ WorkerDies
  BY <1>1, <1>7 DEF Boot, Exit, Crash, Memory, ClaimError, RunError,
      WorkerDies, Busy
<1>8. CASE Recover
  BY <1>1, <1>8 DEF Recover, RecoverUnconfirmed, RecoverTask, RecoverDeferred,
      NextScan, RequeueRuns, Busy
<1>9. CASE \/ \E r \in Runs : ClaimRead(r)
           \/ ClaimWrite \/ StopBetweenGuests \/ FinaliseError \/ FinaliseCommit
  BY <1>1, <1>9 DEF ClaimRead, ClaimWrite, StopBetweenGuests, FinaliseError, Decide,
      FinaliseCommit, Leave, Busy
<1>10. CASE CancelBetweenGuests \/ SkipGuest \/ NextGuest \/ EndOfLoop \/ FinaliseRun
  BY <1>4, <1>10 DEF CancelBetweenGuests, SkipGuest, NextGuest, EndOfLoop,
      FinaliseRun, Decide, Proceeds, LoopTo, dbVars
<1>11. CASE AdoptRow \/ SendStart \/ StartAccepted \/ PollStopped
  BY <1>5, <1>11 DEF AdoptRow, SendStart, StartAccepted, PollStopped, NextPos,
      dbVars, planVars
<1>12. CASE OpenRow \/ SaveTaskId
  <2>1. row \in [Keys -> {"none", "running"} \cup Closed]
    BY DEF IInv, TypeOK
  <2>2. QED
    BY <1>5, <1>12, <2>1 DEF OpenRow, SaveTaskId, planVars
<1>13. CASE StartFails \/ PollTerminal \/ PollGivesUp
  <2>1. row \in [Keys -> {"none", "running"} \cup Closed]
    BY DEF IInv, TypeOK
  <2>2. QED
    BY <1>5, <1>13, <2>1 DEF StartFails, PollTerminal, PollGivesUp, CloseRow,
        NextPos
<1>15. CASE Deletions
  <2>1. /\ UNCHANGED <<pc, cur, pos, done, adopt, ref>>
        /\ \A j \in Keys : row'[j] = row[j] \/ (row[j] \in Won /\ row'[j] \in Won)
    BY <1>15, DeletesOnly DEF IInv, planVars
  <2>2. SUFFICES ASSUME Busy, NEW i \in DOMAIN Targets[cur], Ahead(i)
                 PROVE  Known(<<cur, Targets[cur][i]>>)'
    BY <2>1 DEF PlanIsCurrent, Busy, Ahead
  <2>3. <<cur, Targets[cur][i]>> \in Keys /\ Known(<<cur, Targets[cur][i]>>)
    BY <2>2, TargetsAssumption DEF IInv, TypeOK, PlanIsCurrent, Keys
  <2>4. QED
    BY <2>1, <2>3 DEF Known, Won
<1>14. QED
  BY <1>3, <1>6, <1>7, <1>8, <1>9, <1>10, <1>11, <1>12, <1>13, <1>15
     DEF Next, Failure, Executor

\* A row is opened only for a guest that has none.
LEMMA OpeningIsNew ==
    ASSUME IInv, pc = "opening"
    PROVE  /\ Key \in Keys
           /\ Key[2] \in adopt => row[Key] = "running" /\ Key \in ref
           /\ Key[2] \notin adopt => row[Key] = "none"
<1>1. cur \in Runs /\ pos \in DOMAIN Targets[cur]
  BY TargetsAssumption DEF IInv, TypeOK, Busy, More
<1>2. Key \in Keys /\ Known(Key)
  BY <1>1, KeyInKeys DEF IInv, TypeOK, PlanIsCurrent, Ahead, Key, Busy
<1>3. QED
  BY <1>2 DEF Known, IInv, GuestInHand

\* The executor holds the open row of the guest it is at, unasked at `starting`.
LEMMA HandStep == ASSUME IInv, [Next]_vars PROVE GuestInHand'
<1>1. CASE pc' \notin {"opening", "starting", "calling", "saving", "polling"}
  BY <1>1 DEF GuestInHand
<1>2. ASSUME UNCHANGED <<pc, cur, pos, done, ref>>,
             \A k \in Keys : row'[k] = row[k],
             \A k \in Keys : call[k] = "none" => call'[k] = "none"
      PROVE  GuestInHand'
  <2>1. Key' = Key /\ (pc \in {"opening", "starting", "calling", "saving", "polling"} => Key \in Keys)
    BY <1>2, KeyInKeys DEF Key, IInv, TypeOK, Busy
  <2>2. QED
    BY <1>2, <2>1 DEF GuestInHand, IInv
<1>3. CASE Api \/ Stop \/ UNCHANGED vars
  BY <1>2, <1>3 DEF Api, RequestRun, CancelRead, CancelQueued, CancelRunning,
      Stop, vars, dbVars, agentVars, planVars
<1>4. CASE Agent
  <2>1. call \in [Keys -> {"none", "sent", "accepted", "refused"}]
    BY DEF IInv, TypeOK
  <2>2. UNCHANGED <<pc, cur, pos, done, ref, row>>
    BY <1>4 DEF Agent, AgentAccept, AgentRefuse, AgentFinish, AgentRestart,
        dbVars, planVars
  <2>3. \A k \in Keys : call[k] = "none" => call'[k] = "none"
    BY <1>4, <2>1 DEF Agent, AgentAccept, AgentRefuse, AgentFinish, AgentRestart
  <2>4. QED
    BY <1>2, <2>2, <2>3
<1>5. CASE Boot \/ Exit \/ Crash \/ ClaimError \/ RunError \/ WorkerDies
  BY <1>1, <1>5 DEF Boot, Exit, Crash, Memory, ClaimError, RunError, WorkerDies
<1>6. CASE Recover
  BY <1>1, <1>6 DEF Recover, RecoverUnconfirmed, RecoverTask, RecoverDeferred,
      NextScan, RequeueRuns
<1>7. CASE \/ \E r \in Runs : ClaimRead(r)
           \/ ClaimWrite \/ LoadPlan \/ StopBetweenGuests \/ FinaliseRun
           \/ FinaliseError \/ FinaliseCommit \/ CancelBetweenGuests \/ SkipGuest \/ EndOfLoop
           \/ StartFails \/ PollTerminal \/ PollGivesUp \/ PollStopped
  BY <1>1, <1>7 DEF ClaimRead, ClaimWrite, LoadPlan, StopBetweenGuests,
      FinaliseRun, FinaliseError, Decide, FinaliseCommit, Leave, CancelBetweenGuests,
      SkipGuest, EndOfLoop, LoopTo, StartFails, PollTerminal, PollGivesUp,
      PollStopped, NextPos
<1>8. CASE NextGuest
  BY <1>8 DEF NextGuest, LoopTo, GuestInHand, Key
<1>10. CASE AdoptRow
  <2>1. pc = "opening" /\ Key' = Key /\ UNCHANGED <<row, ref, call>>
    BY <1>10 DEF AdoptRow, Key, dbVars, agentVars, planVars
  <2>2. row[Key] = "running" /\ Key \in ref
    BY <1>10, <2>1, OpeningIsNew DEF AdoptRow
  <2>3. QED
    BY <1>10, <2>1, <2>2 DEF AdoptRow, GuestInHand
<1>11. CASE OpenRow
  <2>1. pc = "opening" /\ Key' = Key /\ pc' = "starting" /\ call' = call
    BY <1>11 DEF OpenRow, Key, agentVars, planVars
  <2>2. row[Key] = "none"
    BY <1>11, <2>1, OpeningIsNew DEF OpenRow
  <2>3. row'[Key] = "running" /\ call[Key] = "none"
    BY <1>11, <2>1, <2>2, OpeningIsNew DEF OpenRow, IInv, TypeOK, RequestsAccounted
  <2>4. QED
    BY <2>1, <2>3 DEF GuestInHand
<1>12. CASE SendStart \/ StartAccepted
  <2>1. /\ pc \in {"starting", "calling"} /\ Key' = Key /\ UNCHANGED row
        /\ pc' \in {"calling", "saving"}
    BY <1>12 DEF SendStart, StartAccepted, Key, dbVars, planVars
  <2>2. QED
    BY <2>1 DEF GuestInHand, IInv
<1>13. CASE SaveTaskId
  <2>1. pc = "saving" /\ pc' = "polling" /\ Key' = Key /\ UNCHANGED row
    BY <1>13 DEF SaveTaskId, Key, planVars
  <2>2. QED
    BY <1>13, <2>1 DEF SaveTaskId, GuestInHand, IInv
<1>15. CASE Deletions
  <2>1. /\ UNCHANGED <<pc, cur, pos, done, ref, call>> /\ Key' = Key
        /\ \A j \in Keys : row'[j] = row[j] \/ (row[j] \in Won /\ row'[j] \in Won)
    BY <1>15, DeletesOnly DEF IInv, agentVars, planVars, Key
  <2>2. pc \in {"opening", "starting", "calling", "saving", "polling"} => Key \in Keys
    BY KeyInKeys DEF IInv, TypeOK, Busy
  <2>3. QED
    BY <2>1, <2>2 DEF GuestInHand, IInv, Won
<1>14. QED
  BY <1>3, <1>4, <1>5, <1>6, <1>7, <1>8, <1>10, <1>11, <1>12, <1>13, <1>15
     DEF Next, Failure, Executor

\* What recovery has still to look at is running.
LEMMA ScanStep == ASSUME IInv, [Next]_vars PROVE ScanIsRunning'
<1> USE DEF ScanIsRunning
<1>1. CASE pc' # "recover"
  BY <1>1
<1>2. CASE UNCHANGED <<pc, scan, row>>
  BY <1>2 DEF IInv
<1>3. CASE Boot
  BY <1>3 DEF Boot, Orphaned, dbVars
<1>4. CASE Recover
  <2>1. /\ row \in [Keys -> {"none", "running"} \cup Closed]
        /\ scan \subseteq Keys
        /\ pc = "recover" => \A k \in scan : row[k] = "running"
    BY DEF IInv, TypeOK
  <2>2. QED
    BY <1>4, <2>1 DEF Recover, RecoverUnconfirmed, RecoverTask, RecoverDeferred,
       NextScan, CloseRow, RequeueRuns, dbVars
<1>5. CASE Api \/ Agent \/ Stop \/ UNCHANGED vars
  BY <1>2, <1>5 DEF Api, RequestRun, CancelRead, CancelQueued, CancelRunning,
      Agent, AgentAccept, AgentRefuse, AgentFinish, AgentRestart, Stop,
      vars, dbVars
<1>6. CASE Exit \/ Crash \/ ClaimError \/ RunError \/ WorkerDies
  BY <1>1, <1>6 DEF Exit, Crash, Memory, ClaimError, RunError, WorkerDies
<1>7. CASE Executor
  BY <1>1, <1>7 DEF Executor, ClaimRead, ClaimWrite, LoadPlan,
      StopBetweenGuests, FinaliseRun, FinaliseError, Decide, FinaliseCommit, Leave,
      CancelBetweenGuests, SkipGuest, NextGuest, EndOfLoop, LoopTo, AdoptRow,
      OpenRow, SendStart, StartFails, StartAccepted, SaveTaskId, PollTerminal,
      PollGivesUp, PollStopped, NextPos
<1>9. CASE Deletions
  <2>1. /\ UNCHANGED <<pc, scan>>
        /\ \A j \in Keys : row'[j] = row[j] \/ (row[j] \in Won /\ row'[j] \in Won)
    BY <1>9, DeletesOnly DEF IInv
  <2>2. scan \subseteq Keys
    BY DEF IInv, TypeOK
  <2>3. QED
    BY <2>1, <2>2 DEF IInv, Won
<1>8. QED
  BY <1>3, <1>4, <1>5, <1>6, <1>7, <1>9 DEF Next, Failure

\* A row that is running without a task is in hand, or of a run that ended.
LEMMA ResumeStep == ASSUME IInv, [Next]_vars PROVE NobodyResumes'
<1> USE DEF NobodyResumes
<1>t. /\ row \in [Keys -> {"none", "running"} \cup Closed]
      /\ run \in [Runs -> {"none"} \cup RunActive \cup RunTerminal]
      /\ scan \subseteq Keys /\ ref \subseteq Keys
      /\ \A k \in Keys : k[1] \in Runs
      /\ (Busy \/ pc \in {"claiming", "loading", "erring", "failing"} => cur \in Runs)
      /\ NobodyResumes
  BY DEF IInv, TypeOK, Keys
<1>1. CASE pc' = "down"
  BY <1>1
<1>2. ASSUME UNCHANGED <<pc, cur, pos, row, ref, scan>>,
             \A r \in Runs : run[r] \in RunTerminal => run'[r] \in RunTerminal
      PROVE  NobodyResumes'
  BY <1>t, <1>2 DEF Key
<1>3. CASE Api
  <2>1. UNCHANGED <<pc, cur, pos, row, ref, scan>>
    BY <1>3 DEF Api, RequestRun, CancelRead, CancelQueued, CancelRunning,
        dbVars, planVars
  <2>2. \A r \in Runs : run[r] \in RunTerminal => run'[r] \in RunTerminal
    BY <1>3, <1>t DEF Api, RequestRun, CancelRead, CancelQueued, CancelRunning,
        dbVars, RunTerminal
  <2>3. QED
    BY <1>2, <2>1, <2>2
<1>4. CASE Agent \/ Stop \/ UNCHANGED vars
  BY <1>2, <1>4 DEF Agent, AgentAccept, AgentRefuse, AgentFinish,
      AgentRestart, Stop, vars, dbVars, planVars
<1>5. CASE Boot
  BY <1>5 DEF Boot, Memory, Orphaned, dbVars
<1>6. CASE Exit \/ Crash
  BY <1>1, <1>6 DEF Exit, Crash, Memory
<1>7. CASE Recover
  <2>1. ASSUME NEW k \in Keys, CloseRow(k, "interrupted") \/ row[k] # "running" \/ k \in ref,
               UNCHANGED row \/ \E v \in Terminal : row' = [row EXCEPT ![k] = v],
               pc = "recover", UNCHANGED <<pc, ref>>, scan' = scan \ {k}
        PROVE  NobodyResumes'
    BY <1>t, <2>1 DEF CloseRow, Terminal, Closed, Won
  <2>2. ASSUME NEW k \in Keys, RecoverUnconfirmed(k) PROVE NobodyResumes'
    BY <2>1, <2>2 DEF RecoverUnconfirmed, CloseRow, NextScan, Terminal, Closed, Won
  <2>3. ASSUME NEW k \in Keys, RecoverTask(k) PROVE NobodyResumes'
    <3>1. k \in ref /\ pc = "recover" /\ NextScan(k)
      BY <2>3 DEF RecoverTask, Unconfirmed
    <3>2. UNCHANGED ref /\ (UNCHANGED row \/ \E v \in Terminal : row' = [row EXCEPT ![k] = v])
      BY <2>3 DEF RecoverTask, CloseRow, dbVars, Terminal, Closed, Won
    <3>3. QED
      BY <2>1, <3>1, <3>2 DEF NextScan
  <2>4. ASSUME NEW k \in Keys, RecoverDeferred(k) PROVE NobodyResumes'
    BY <2>1, <2>4 DEF RecoverDeferred, Unconfirmed, NextScan, dbVars
  <2>5. CASE RequeueRuns
    <3>1. \A k \in Keys : row'[k] = "running" => k \in ref'
      BY <1>t, <2>5 DEF RequeueRuns
    <3>2. QED
      BY <3>1
  <2>6. QED
    BY <1>7, <2>2, <2>3, <2>4, <2>5 DEF Recover
<1>8. ASSUME NEW r \in Runs, ClaimRead(r) PROVE NobodyResumes'
  BY <1>t, <1>8 DEF ClaimRead, Oldest, RunTerminal, dbVars
<1>9. CASE ClaimError \/ RunError \/ WorkerDies
  <2>1. pc \in {"starting", "calling", "saving"} => Key[1] = cur
    BY DEF Key
  <2>2. \A k \in Keys : k[1] # None
    BY <1>t, NoneAssumption
  <2>3. QED
    BY <1>t, <1>9, <2>1, <2>2 DEF ClaimError, RunError, WorkerDies, dbVars, planVars
<1>10. CASE ClaimWrite
  BY <1>t, <1>10 DEF ClaimWrite, planVars
<1>11. CASE LoadPlan \/ CancelBetweenGuests \/ SkipGuest \/ NextGuest \/ EndOfLoop
  BY <1>t, <1>11 DEF LoadPlan, CancelBetweenGuests, SkipGuest, NextGuest,
      EndOfLoop, Proceeds, LoopTo, dbVars
<1>12. CASE AdoptRow
  BY <1>t, <1>12 DEF AdoptRow, dbVars, planVars
<1>13. CASE StopBetweenGuests
  <2>1. \A k \in Keys : k[1] # None
    BY <1>t, NoneAssumption
  <2>2. QED
    BY <1>t, <1>13, <2>1 DEF StopBetweenGuests, Leave, dbVars
<1>14. CASE FinaliseCommit
  <2>1. pc \in {"recording", "failing"} /\ cur \in Runs /\ ending \in RunTerminal
    BY <1>14, <1>t DEF FinaliseCommit, Busy, IInv, TypeOK
  <2>3. \A k \in Keys : k[1] # None
    BY <1>t, NoneAssumption
  <2>4. run' = [run EXCEPT ![cur] = ending]
    BY <1>14 DEF FinaliseCommit
  <2>5. pc' = "idle" /\ cur' = None /\ UNCHANGED <<row, ref>>
    BY <1>14 DEF FinaliseCommit, Leave
  <2>6. QED
    BY <1>t, <2>1, <2>3, <2>4, <2>5
<1>21. CASE FinaliseRun \/ FinaliseError
  <2>1. /\ UNCHANGED <<cur, row, ref, run>>
        /\ \/ pc = "finalising" /\ pc' = "recording"
           \/ pc = "erring" /\ pc' = "failing"
    BY <1>21 DEF FinaliseRun, FinaliseError, Decide, dbVars
  <2>2. QED
    BY <1>t, <2>1
<1>22. CASE Deletions
  <2>1. /\ UNCHANGED <<pc, cur, pos, ref, scan, run>> /\ Key' = Key
        /\ \A j \in Keys : row'[j] = row[j] \/ (row[j] \in Won /\ row'[j] \in Won)
    BY <1>22, DeletesOnly DEF IInv, planVars, Key
  <2>2. \A k \in Keys : row'[k] = "running" => row[k] = "running"
    BY <2>1 DEF Won
  <2>3. QED
    BY <1>t, <2>1, <2>2
<1>15. CASE SendStart \/ StartAccepted
  <2>1. Key' = Key
    BY <1>15 DEF SendStart, StartAccepted, Key, planVars
  <2>2. QED
    BY <1>t, <1>15, <2>1 DEF SendStart, StartAccepted, dbVars, planVars
<1>16. CASE OpenRow
  <2>1. Key' = Key /\ Key \in Keys /\ pc = "opening"
    BY <1>16, KeyInKeys DEF OpenRow, Key, planVars, IInv, TypeOK, Busy
  <2>2. QED
    BY <1>t, <1>16, <2>1 DEF OpenRow, planVars
<1>17. CASE SaveTaskId
  BY <1>t, <1>17 DEF SaveTaskId, planVars
<1>18. CASE StartFails \/ PollTerminal \/ PollGivesUp
  <2>1. Key \in Keys
    BY <1>18, KeyInKeys DEF StartFails, PollTerminal, PollGivesUp, IInv, TypeOK, Busy
  <2>2. PICK v \in Terminal : CloseRow(Key, v) /\ NextPos
    BY <1>18 DEF StartFails, PollTerminal, PollGivesUp, Terminal, Closed, Won
  <2>3. pc \in {"starting", "calling", "polling"}
    BY <1>18 DEF StartFails, PollTerminal, PollGivesUp
  <2>4. QED
    BY <1>t, <2>1, <2>2, <2>3 DEF CloseRow, NextPos, Terminal, Closed, Won
<1>19. CASE PollStopped
  BY <1>t, <1>19 DEF PollStopped, NextPos, dbVars
<1>20. QED
  BY <1>3, <1>4, <1>5, <1>6, <1>7, <1>8, <1>9, <1>10, <1>11, <1>12, <1>13,
     <1>14, <1>15, <1>16, <1>17, <1>18, <1>19, <1>21, <1>22 DEF Next, Failure, Executor

\* The invariant holds for every set of runs and guests and every budget of
\* faults: killed processes, lost answers and restarts in any number and order.
THEOREM Invariance == Spec => []IInv
<1>1. Init => IInv
  <2>1. ASSUME Init
        PROVE  RequestsAccounted /\ PlanIsCurrent /\ GuestInHand
               /\ NobodyResumes /\ ScanIsRunning /\ VerdictIsHonest
    BY <2>1 DEF Init, RequestsAccounted, PlanIsCurrent, Busy, GuestInHand,
       NobodyResumes, ScanIsRunning, VerdictIsHonest, Won
  <2>2. QED
    BY <2>1, TypeInit DEF IInv
<1>2. IInv /\ [Next]_vars => IInv'
  BY TypeNext, RequestsStep, PlanStep, HandStep, ResumeStep, ScanStep DEF IInv
<1>3. QED
  BY <1>1, <1>2, PTL DEF Spec

\* No guest of a run is dumped twice, whatever is lost, killed or restarted.
THEOREM OneVzdump == Spec => []AtMostOneVzdump
<1>1. IInv => AtMostOneVzdump
  <2>1. ASSUME IInv, NEW k \in Keys PROVE vzdumps[k] <= 1
    BY <2>1 DEF IInv, RequestsAccounted
  <2>2. QED
    BY <2>1 DEF AtMostOneVzdump
<1>2. QED
  BY <1>1, Invariance, PTL

\* No vzdump exists, or is asked for, that has no row.
THEOREM NoUnrecordedVzdump == Spec => []RowBeforeVzdump
<1>1. IInv => RowBeforeVzdump
  BY DEF IInv, TypeOK, RequestsAccounted, RowBeforeVzdump
<1>2. QED
  BY <1>1, Invariance, PTL

\* `success` and `cancelled` are recorded only of vzdumps that ended so.
THEOREM Honesty == Spec => []VerdictIsHonest
<1>1. QED
  BY Invariance, PTL DEF IInv

\* What changes in the rows is one row that is opened or closed, or an archive that goes.
LEMMA RowEffects ==
    ASSUME IInv, [Next]_vars
    PROVE  \/ UNCHANGED row
           \/ OpenRow
           \/ \E k \in Keys, v \in Terminal : Concludes(k, v)
           \/ Deletions
  BY Effects DEF Effect, AgentAccept, AgentRefuse, SendStart, SaveTaskId, Deletions, dbVars

\* A verdict stays, but for what becomes of the archive of a success.
LEMMA VerdictStays ==
    ASSUME IInv, [Next]_vars
    PROVE  \A k \in Keys : row[k] \in Closed => row'[k] = row[k] \/ {row[k], row'[k]} \subseteq Won
<1>1. row \in [Keys -> {"none", "running"} \cup Closed]
  BY DEF IInv, TypeOK
<1>2. ASSUME NEW k \in Keys, NEW v \in Terminal, Concludes(k, v)
      PROVE  \A j \in Keys : row[j] \in Closed => row'[j] = row[j]
  BY <1>1, <1>2 DEF Concludes, Terminal, Closed
<1>3. CASE OpenRow
  <2>1. Key \in Keys /\ row[Key] = "none"
    BY <1>3, OpeningIsNew DEF OpenRow
  <2>2. QED
    BY <1>1, <1>3, <2>1 DEF OpenRow, Terminal, Closed
<1>4. CASE Deletions
  BY <1>4, DeletesOnly DEF IInv
<1>5. QED
  BY <1>2, <1>3, <1>4, RowEffects

\* What is closed stays closed.
LEMMA ClosedStays ==
    ASSUME IInv, [Next]_vars
    PROVE  \A k \in Keys : row[k] \in Closed => row'[k] \in Closed
  BY VerdictStays DEF Won, Closed, Terminal

\* A committed verdict is never revised, by the executor, by recovery or by a deletion,
\* which only turns a success into one without a copy.
THEOREM Finality == Spec => VerdictsAreFinal
<1>1. ASSUME IInv, [Next]_vars
      PROVE  [\A k \in Keys : row[k] \in Closed =>
                 row'[k] = row[k] \/ {row[k], row'[k]} \subseteq Won]_row
  BY <1>1, VerdictStays
<1>2. QED
  BY <1>1, Invariance, PTL DEF Spec, VerdictsAreFinal

\* Seen from the rows and the host alone, the executor implements the promise.
THEOREM Implements == Spec => KeepsPromise
<1>1. Init => Promise!Init
  BY DEF Init, Promise!Init, Verdict
<1>2. ASSUME IInv, [Next]_vars PROVE [Promise!Next]_(Promise!vars)
  <2>t. /\ Effect /\ row \in [Keys -> {"none", "running"} \cup Closed]
        /\ task \in [Keys -> {"none", "running"} \cup Terminal]
    BY <1>2, Effects DEF IInv, TypeOK
  <2>v. /\ \A k \in Keys : Verdict[k] = IF row[k] = "deleted" THEN "success" ELSE row[k]
        /\ row' = row => Verdict' = Verdict
    BY DEF Verdict
  <2>1. CASE UNCHANGED <<row, task>>
    BY <2>1, <2>v DEF Promise!vars
  <2>2. ASSUME NEW k \in Keys, AgentAccept(k) PROVE Promise!Start(k)
    <3>1. row[k] # "none" /\ task[k] = "none"
      BY <1>2, <2>2 DEF AgentAccept, IInv, RequestsAccounted
    <3>2. QED
      BY <2>2, <2>v, <3>1 DEF AgentAccept, Promise!Start, dbVars
  <2>3. CASE /\ task' \in [Keys -> {"none", "running"} \cup Terminal]
             /\ \A k \in Keys : task'[k] # task[k] =>
                   task[k] = "running" /\ task'[k] \in Terminal
             /\ UNCHANGED <<row, ref, call, vzdumps>>
    BY <2>3, <2>v DEF Promise!End, Promise!Next, Promise!Ends, Terminal
  <2>4. ASSUME NEW k \in Keys, NEW v \in Terminal, Concludes(k, v)
        PROVE  Promise!Conclude(k, v) /\ v \in Promise!Ends
    <3>1. row[k] = "running" /\ row' = [row EXCEPT ![k] = v] /\ v # "deleted" /\ task' = task
      BY <2>4 DEF Concludes, Terminal
    <3>2. Verdict' = [Verdict EXCEPT ![k] = v] /\ Verdict[k] = "running"
      BY <2>t, <3>1 DEF Verdict
    <3>3. QED
      BY <2>4, <3>1, <3>2 DEF Concludes, Promise!Conclude, Promise!Ends, Terminal
  <2>5. CASE OpenRow
    <3>1. Key \in Keys /\ row[Key] = "none"
      BY <1>2, <2>5, OpeningIsNew DEF OpenRow
    <3>2. row' = [row EXCEPT ![Key] = "running"] /\ task' = task
      BY <2>5 DEF OpenRow, agentVars
    <3>3. Verdict' = [Verdict EXCEPT ![Key] = "running"] /\ Verdict[Key] = "none"
      BY <2>t, <3>1, <3>2 DEF Verdict
    <3>4. Promise!Open(Key)
      BY <3>2, <3>3 DEF Promise!Open
    <3>5. QED
      BY <3>1, <3>4 DEF Promise!Next
  <2>7. CASE Deletions
    <3>1. /\ UNCHANGED task
          /\ \A j \in Keys : row'[j] = row[j] \/ (row[j] \in Won /\ row'[j] \in Won)
      BY <1>2, <2>7, DeletesOnly DEF IInv, agentVars
    <3>2. Verdict' = Verdict
      BY <3>1 DEF Verdict, Won
    <3>3. QED
      BY <3>1, <3>2 DEF Promise!vars
  <2>6. QED
    BY <2>t, <2>1, <2>2, <2>3, <2>4, <2>5, <2>7 DEF Effect, AgentRefuse, SendStart,
       SaveTaskId, Deletions, Promise!Next, dbVars, agentVars
<1>3. QED
  BY <1>1, <1>2, Invariance, PTL DEF Spec, KeepsPromise, Promise!Spec

-----------------------------------------------------------------------------
(***************************************************************************)
(* The second invariant: the order of runs and rows, and cancellations.    *)
(***************************************************************************)

\* The six ways in which a step treats the runs.
RunEffect ==
    \/ UNCHANGED run
    \/ \E r \in Runs : RequestRun(r)
    \/ CancelQueued \/ RequeueRuns \/ ClaimWrite \/ FinaliseCommit

LEMMA RunEffects == ASSUME [Next]_vars, TypeOK PROVE RunEffect
<1>1. CASE Api \/ UNCHANGED vars
  BY <1>1 DEF Api, CancelRead, CancelRunning, RunEffect, vars, dbVars
<1>2. CASE Agent \/ Boot \/ Exit \/ Failure
  BY <1>2 DEF Agent, AgentAccept, AgentRefuse, AgentFinish, AgentRestart, Boot,
     Exit, Failure, Crash, Stop, ClaimError, RunError, WorkerDies, RunEffect, dbVars
<1>3. CASE Recover
  BY <1>3 DEF Recover, RecoverUnconfirmed, RecoverTask, RecoverDeferred, CloseRow,
     RunEffect, dbVars
<1>4. CASE Deletions
  BY <1>4, DeletesOnly DEF RunEffect
<1>5. CASE Executor
  BY <1>5 DEF Executor, ClaimRead, LoadPlan, StopBetweenGuests,
     CancelBetweenGuests, SkipGuest, NextGuest, EndOfLoop, LoopTo, AdoptRow, OpenRow,
     SendStart, StartFails, StartAccepted, SaveTaskId, PollTerminal, PollGivesUp,
     PollStopped, CloseRow, FinaliseRun, FinaliseError, Decide, RunEffect, dbVars
<1>6. QED
  BY <1>1, <1>2, <1>3, <1>4, <1>5 DEF Next

\* No run that was made disappears.
LEMMA RunsStay ==
    ASSUME TypeOK, [Next]_vars
    PROVE  \A r \in Runs : run[r] # "none" => run'[r] # "none"
<1>1. run \in [Runs -> {"none"} \cup RunActive \cup RunTerminal]
  BY DEF TypeOK
<1>2. CASE FinaliseCommit
  BY <1>1, <1>2 DEF TypeOK, FinaliseCommit, RunTerminal
<1>3. QED
  BY <1>1, <1>2, RunEffects DEF RunEffect, RequestRun, CancelQueued, RequeueRuns, ClaimWrite

\* Runs are made in order and rows are of guests of runs that were made.
LEMMA RunsAndRowsStep == ASSUME IInv, QueueInv, [Next]_vars PROVE RunsAndRows'
<1>t. /\ TypeOK /\ RunsAndRows
      /\ run \in [Runs -> {"none"} \cup RunActive \cup RunTerminal]
      /\ row \in [Keys -> {"none", "running"} \cup Closed]
      /\ \A r \in Runs : run[r] # "none" => run'[r] # "none"
  BY RunsStay DEF IInv, TypeOK, QueueInv
<1>1. ASSUME NEW p \in Runs, NEW q \in Runs, p < q, run'[q] # "none"
      PROVE  run'[p] # "none"
  <2>1. CASE run[q] # "none"
    BY <1>1, <1>t, <2>1 DEF RunsAndRows
  <2>2. CASE run[q] = "none" /\ FinaliseCommit
    <3>1. cur \in Runs /\ run[cur] # "none"
      BY <2>2, <1>t DEF FinaliseCommit, TypeOK, Busy, QueueInv, RunInHand
    <3>2. QED
      BY <1>1, <1>t, <2>2, <3>1 DEF FinaliseCommit
  <2>3. CASE run[q] = "none" /\ ClaimWrite
    <3>1. cur \in Runs /\ run[cur] # "none"
      BY <2>3, <1>t DEF TypeOK, ClaimWrite, QueueInv, RunInHand
    <3>2. QED
      BY <1>1, <1>t, <2>3, <3>1 DEF ClaimWrite
  <2>4. CASE run[q] = "none" /\ CancelQueued
    <3>1. run[api.run] # "none" /\ api.run \in Runs
      BY <2>4, <1>t DEF TypeOK, CancelQueued, RunsAndRows
    <3>2. QED
      BY <1>1, <1>t, <2>4, <3>1 DEF CancelQueued
  <2>5. CASE run[q] = "none" /\ RequeueRuns
    BY <1>1, <1>t, <2>5 DEF RequeueRuns, ToRequeue
  <2>6. ASSUME run[q] = "none", NEW r \in Runs, RequestRun(r) PROVE run'[p] # "none"
    BY <1>1, <1>t, <2>6 DEF RequestRun
  <2>7. CASE UNCHANGED run
    BY <1>1, <1>t, <2>7 DEF RunsAndRows
  <2>8. QED
    BY <1>t, <2>1, <2>2, <2>3, <2>4, <2>5, <2>6, <2>7, RunEffects DEF RunEffect
<1>2. api' # None => \/ api \in [run : Runs, seen : RunActive] /\ api' = api
                     \/ \E r \in Runs : CancelRead(r)
  <2>0. Deletions => api' = api
    BY <1>t, DeletesOnly
  <2>1. api' = api \/ api' = None \/ \E r \in Runs : CancelRead(r)
    BY <2>0 DEF Next, Api, RequestRun, CancelQueued, CancelRunning, Agent, AgentAccept,
       AgentRefuse, AgentFinish, AgentRestart, Boot, Exit, Failure, Crash, Memory, Stop,
       ClaimError, RunError, WorkerDies, Recover, RecoverUnconfirmed, RecoverTask,
       RecoverDeferred, NextScan, RequeueRuns, Executor, ClaimRead, ClaimWrite, LoadPlan,
       StopBetweenGuests, CancelBetweenGuests, SkipGuest, NextGuest, EndOfLoop, LoopTo,
       AdoptRow, OpenRow, SendStart, StartFails, StartAccepted, SaveTaskId, PollTerminal,
       PollGivesUp, PollStopped, NextPos, FinaliseRun, FinaliseError, Decide,
       FinaliseCommit, vars
  <2>2. QED
    BY <1>t, <2>1 DEF TypeOK
<1>3. api' # None => run'[api'.run] # "none"
  <2>1. ASSUME NEW r \in Runs, CancelRead(r) PROVE run'[api'.run] # "none"
    BY <1>t, <2>1 DEF CancelRead, Cancellable, RunActive, dbVars
  <2>2. QED
    BY <1>t, <1>2, <2>1 DEF RunsAndRows
<1>4. ASSUME NEW k \in Keys, row'[k] # "none"
      PROVE  run'[k[1]] # "none" /\ \E i \in DOMAIN Targets[k[1]] : Targets[k[1]][i] = k[2]
  <2>0. k[1] \in Runs
    BY DEF Keys
  <2>1. CASE row[k] # "none"
    BY <1>t, <2>0, <2>1 DEF RunsAndRows
  <2>2. CASE OpenRow
    <3>1. cur \in Runs /\ Key \in Keys /\ pos \in DOMAIN Targets[cur] /\ run[cur] # "none"
      BY <1>t, <2>2, KeyInKeys, TargetsAssumption
         DEF OpenRow, TypeOK, Busy, More, QueueInv, RunInHand
    <3>2. QED
      BY <1>t, <1>4, <2>1, <2>2, <3>1 DEF OpenRow, Key
  <2>3. ASSUME NEW j \in Keys, NEW v \in Terminal, Concludes(j, v) PROVE row[k] # "none"
    BY <1>t, <1>4, <2>3 DEF Concludes
  <2>4. Deletions => row[k] # "none"
    BY <1>t, <1>4, DeletesOnly DEF Won
  <2>5. QED
    BY <1>4, <2>1, <2>2, <2>3, <2>4, RowEffects
<1>5. QED
  BY <1>1, <1>3, <1>4 DEF RunsAndRows

\* The run in hand is the oldest, and no other is `running` while runs are claimed.
LEMMA RunInHandStep == ASSUME IInv, QueueInv, [Next]_vars PROVE RunInHand'
<1>t. /\ RunsAndRows /\ RunInHand /\ Runs \subseteq Nat
      /\ run \in [Runs -> {"none"} \cup RunActive \cup RunTerminal]
      /\ (Busy \/ pc \in {"claiming", "loading", "erring", "failing"} => cur \in Runs)
      /\ (Busy => pc \notin {"idle", "claiming", "loading", "erring", "failing", "recover", "down", "dead"})
      /\ None \notin Runs
  BY RunsAssumption, NoneAssumption DEF IInv, TypeOK, QueueInv, Busy
<1>1. ASSUME UNCHANGED <<pc, cur, currentRun, run>>, stopping => stopping'
      PROVE  RunInHand'
  BY <1>t, <1>1 DEF RunInHand, InHand, Busy
<1>2. ASSUME NEW r \in Runs, RequestRun(r) PROVE RunInHand'
  <2>1. InHand => cur <= r
    <3>1. InHand => cur \in Runs /\ run[cur] # "none"
      BY <1>t DEF InHand, RunInHand
    <3>2. InHand => ~(r < cur)
      BY <1>2, <1>t, <3>1 DEF RequestRun, RunsAndRows
    <3>3. QED
      BY RunOrder, <3>1, <3>2
  <2>2. /\ UNCHANGED <<pc, cur, currentRun, stopping>> /\ run[r] = "none"
        /\ run' = [run EXCEPT ![r] = "queued"]
    BY <1>2 DEF RequestRun, planVars, sharedVars
  <2>3. InHand' = InHand /\ Busy' = Busy
    BY <2>2 DEF InHand, Busy
  <2>4. QED
    BY <1>t, <2>1, <2>2, <2>3 DEF RunInHand, RunActive, InHand
<1>3. CASE CancelQueued
  <2>1. /\ UNCHANGED <<pc, cur, currentRun, stopping>> /\ InHand' = InHand /\ Busy' = Busy
        /\ run' = [run EXCEPT ![api.run] = "cancelled"]
    BY <1>3 DEF CancelQueued, InHand, Busy, planVars, sharedVars
  <2>2. QED
    BY <1>t, <2>1 DEF RunInHand, RunActive, InHand
<1>4. CASE Boot \/ Exit \/ Crash
  BY <1>4 DEF Boot, Exit, Crash, Memory, RunInHand, InHand, Busy
<1>5. CASE RequeueRuns
  <2>1. pc' = "idle" /\ ~Busy' /\ ~InHand' /\ currentRun' = None
    BY <1>t, <1>5 DEF RequeueRuns, RunInHand, InHand, Busy, sharedVars
  <2>2. \A r \in Runs : run'[r] # "running"
    BY <1>t, <1>5 DEF RequeueRuns, ToRequeue
  <2>3. QED
    BY <2>1, <2>2 DEF RunInHand
<1>6. ASSUME NEW r \in Runs, ClaimRead(r) PROVE RunInHand'
  <2>1. /\ pc = "idle" /\ ~stopping /\ Oldest(r) /\ pc' = "claiming" /\ cur' = r
        /\ UNCHANGED <<run, currentRun>> /\ ~Busy /\ ~InHand
    BY <1>6, <1>t DEF ClaimRead, dbVars, sharedVars, InHand
  <2>2. ~Busy' /\ InHand'
    BY <2>1 DEF Busy, InHand
  <2>3. currentRun = None /\ \A q \in Runs : run[q] # "running"
    BY <1>t, <2>1 DEF RunInHand
  <2>4. \A q \in Runs : run[q] \in RunActive => r <= q
    BY <2>1, <2>3 DEF Oldest, RunActive
  <2>5. QED
    BY <2>1, <2>2, <2>3, <2>4 DEF RunInHand, Oldest
<1>7. CASE ClaimWrite
  <2>1. /\ pc = "claiming" /\ pc' = "loading" /\ UNCHANGED <<cur, currentRun>> /\ cur \in Runs
        /\ run' = [run EXCEPT ![cur] = "running"] /\ ~Busy /\ InHand
    BY <1>7, <1>t DEF ClaimWrite, planVars, sharedVars, InHand
  <2>2. ~Busy' /\ InHand'
    BY <2>1 DEF Busy, InHand
  <2>3. \A q \in Runs : run'[q] \in RunActive => cur <= q
    BY <1>t, <2>1 DEF RunInHand
  <2>4. QED
    BY <1>t, <2>1, <2>2, <2>3 DEF RunInHand, InHand
<1>8. CASE LoadPlan
  <2>1. /\ pc = "loading" /\ pc' = "loop" /\ UNCHANGED <<cur, run>> /\ currentRun' = cur
    BY <1>8 DEF LoadPlan, dbVars
  <2>2. InHand /\ Busy' /\ InHand'
    BY <2>1 DEF Busy, InHand
  <2>3. QED
    BY <1>t, <2>1, <2>2 DEF RunInHand, InHand
<1>9. ASSUME Busy, Busy', UNCHANGED <<cur, currentRun, run, stopping>> PROVE RunInHand'
  <2>1. InHand /\ InHand'
    BY <1>9 DEF InHand
  <2>2. pc' \notin {"idle", "claiming", "loading", "erring", "failing", "recover", "down", "dead"}
    BY <1>9 DEF Busy
  <2>3. QED
    BY <1>t, <1>9, <2>1, <2>2 DEF RunInHand, InHand
<1>10. CASE StopBetweenGuests
  <2>1. pc = "loop" /\ stopping' /\ pc' = "idle" /\ currentRun' = None /\ UNCHANGED run
    BY <1>10 DEF StopBetweenGuests, Leave, dbVars
  <2>2. ~Busy' /\ ~InHand'
    BY <2>1 DEF Busy, InHand
  <2>3. QED
    BY <2>1, <2>2 DEF RunInHand
<1>11. CASE FinaliseCommit
  <2>1. /\ pc' = "idle" /\ currentRun' = None /\ cur \in Runs
        /\ pc \in {"recording", "failing"}
        /\ run' = [run EXCEPT ![cur] = ending] /\ ending \in RunTerminal
    BY <1>t, <1>11 DEF FinaliseCommit, Leave, Busy, IInv, TypeOK
  <2>2. ~Busy' /\ ~InHand'
    BY <2>1 DEF Busy, InHand
  <2>3. \A q \in Runs : run'[q] # "running"
    BY <1>t, <2>1 DEF RunInHand, RunTerminal
  <2>4. QED
    BY <2>1, <2>2, <2>3 DEF RunInHand
<1>12. CASE ClaimError
  <2>1. pc = "claiming" /\ pc' = "idle" /\ UNCHANGED <<run, currentRun>>
    BY <1>12 DEF ClaimError, dbVars, sharedVars
  <2>2. ~Busy' /\ ~InHand' /\ ~Busy
    BY <2>1 DEF Busy, InHand
  <2>3. QED
    BY <1>t, <2>1, <2>2 DEF RunInHand
<1>13. CASE RunError
  <2>1. /\ pc \in {"loading", "opening", "starting", "calling", "saving", "polling",
                   "finalising", "recording"}
        /\ pc' = "erring" /\ UNCHANGED <<run, currentRun, cur>>
    BY <1>13 DEF RunError, dbVars, sharedVars, planVars
  <2>2. ~Busy' /\ InHand' /\ (Busy \/ pc = "loading") /\ InHand
    BY <2>1 DEF Busy, InHand
  <2>3. QED
    BY <1>t, <2>1, <2>2 DEF RunInHand, InHand
<1>14. CASE WorkerDies
  <2>1. pc' = "dead" /\ UNCHANGED run /\ currentRun' = None
    BY <1>14 DEF WorkerDies, dbVars
  <2>2. ~Busy' /\ ~InHand'
    BY <2>1 DEF Busy, InHand
  <2>3. QED
    BY <2>1, <2>2 DEF RunInHand
<1>15. CASE Api
  <2>1. CASE (\E r \in Runs : CancelRead(r)) \/ CancelRunning
    BY <1>1, <2>1 DEF CancelRead, CancelRunning, dbVars, planVars, sharedVars
  <2>2. QED
    BY <1>2, <1>3, <1>15, <2>1 DEF Api
<1>16. CASE Agent \/ Stop \/ UNCHANGED vars
  BY <1>1, <1>16 DEF Agent, AgentAccept, AgentRefuse, AgentFinish, AgentRestart, Stop,
     vars, dbVars, planVars, sharedVars
<1>17. CASE Recover
  <2>1. ASSUME NEW k \in Keys, RecoverUnconfirmed(k) \/ RecoverTask(k) \/ RecoverDeferred(k)
        PROVE  RunInHand'
    BY <1>1, <2>1 DEF RecoverUnconfirmed, RecoverTask, RecoverDeferred, NextScan, CloseRow,
       dbVars, planVars, sharedVars
  <2>2. QED
    BY <1>5, <1>17, <2>1 DEF Recover
<1>18. CASE FinaliseError
  <2>1. pc = "erring" /\ pc' = "failing" /\ UNCHANGED <<run, currentRun, cur>>
    BY <1>18 DEF FinaliseError, Decide, dbVars, sharedVars
  <2>2. ~Busy' /\ InHand' /\ ~Busy /\ InHand
    BY <2>1 DEF Busy, InHand
  <2>3. QED
    BY <1>t, <2>1, <2>2 DEF RunInHand, InHand
<1>21. CASE Deletions
  BY <1>1, <1>21, DeletesOnly DEF IInv, planVars, sharedVars
<1>19. CASE \/ FinaliseRun \/ CancelBetweenGuests \/ SkipGuest \/ NextGuest \/ EndOfLoop \/ AdoptRow
            \/ OpenRow \/ SendStart \/ StartFails \/ StartAccepted \/ SaveTaskId
            \/ PollTerminal \/ PollGivesUp \/ PollStopped
  <2>1. UNCHANGED <<cur, currentRun, run, stopping>>
    BY <1>19 DEF FinaliseRun, Decide, CancelBetweenGuests, SkipGuest, NextGuest, EndOfLoop, LoopTo, AdoptRow,
       OpenRow, SendStart, StartFails, StartAccepted, SaveTaskId, PollTerminal,
       PollGivesUp, PollStopped, NextPos, CloseRow, dbVars, planVars, sharedVars
  <2>2. Busy /\ Busy'
    BY <1>19 DEF FinaliseRun, Decide, CancelBetweenGuests, SkipGuest, NextGuest, EndOfLoop, LoopTo, Proceeds,
       AdoptRow, OpenRow, SendStart, StartFails, StartAccepted, SaveTaskId, PollTerminal,
       PollGivesUp, PollStopped, NextPos, Busy
  <2>3. QED
    BY <1>9, <2>1, <2>2
<1>20. QED
  BY <1>4, <1>6, <1>7, <1>8, <1>10, <1>11, <1>12, <1>13, <1>14, <1>15, <1>16, <1>17, <1>18,
     <1>19, <1>21
     DEF Next, Failure, Executor

\* The places of the executor between two guests, and at one.
AtGuest == pc \in {"opening", "starting", "calling", "saving", "polling"}

\* How the executor goes on with the run in hand.
LEMMA LoopMoves ==
    ASSUME IInv, [Next]_vars, Busy'
    PROVE  \/ UNCHANGED <<pc, cur, pos, done>> /\ (stopping => stopping')
           \/ LoadPlan
           \/ /\ UNCHANGED <<cur, done>> /\ stopping' = stopping /\ Busy
              /\ \/ SkipGuest
                 \/ NextGuest
                 \/ AtGuest /\ AtGuest' /\ pos' = pos
                 \/ pc' \in {"finalising", "recording"}
                 \/ AtGuest /\ pos' = pos + 1 /\ pc' = "loop"
                    /\ \/ stopping
                       \/ \E v \in Terminal : CloseRow(Key, v)
<1>1. CASE Api \/ Agent \/ Stop \/ UNCHANGED vars
  BY <1>1 DEF Api, RequestRun, CancelRead, CancelQueued, CancelRunning, Agent, AgentAccept,
     AgentRefuse, AgentFinish, AgentRestart, Stop, vars, planVars
<1>2. CASE Boot \/ Exit \/ Crash \/ ClaimError \/ RunError \/ WorkerDies
  BY <1>2 DEF Boot, Exit, Crash, Memory, ClaimError, RunError, WorkerDies, Busy
<1>3. CASE Recover
  <2>1. pc = "recover" /\ (UNCHANGED pc \/ pc' = "idle")
    BY <1>3 DEF Recover, RecoverUnconfirmed, RecoverTask, RecoverDeferred, NextScan, RequeueRuns
  <2>2. QED
    BY <2>1 DEF Busy
<1>4. CASE \/ \E r \in Runs : ClaimRead(r)
           \/ ClaimWrite \/ StopBetweenGuests \/ FinaliseError \/ FinaliseCommit
  BY <1>4 DEF ClaimRead, ClaimWrite, StopBetweenGuests, FinaliseError, Decide,
     FinaliseCommit, Leave, Busy
<1>5. CASE CancelBetweenGuests \/ SkipGuest \/ NextGuest \/ EndOfLoop \/ FinaliseRun
  BY <1>5 DEF FinaliseRun, Decide, CancelBetweenGuests, SkipGuest, NextGuest, EndOfLoop, Proceeds, LoopTo, Busy
<1>6. CASE AdoptRow \/ OpenRow \/ SendStart \/ StartAccepted \/ SaveTaskId
  BY <1>6 DEF AdoptRow, OpenRow, SendStart, StartAccepted, SaveTaskId, AtGuest, Busy, planVars
<1>7. CASE StartFails \/ PollTerminal \/ PollGivesUp \/ PollStopped
  BY <1>7 DEF StartFails, PollTerminal, PollGivesUp, PollStopped, NextPos, AtGuest, Busy,
     Terminal, Closed, Won
<1>8. CASE LoadPlan
  BY <1>8
<1>9. CASE Deletions
  BY <1>9, DeletesOnly DEF IInv, planVars
<1>10. QED
  BY <1>1, <1>2, <1>3, <1>4, <1>5, <1>6, <1>7, <1>8, <1>9 DEF Next, Failure, Executor

\* The plan of a run names rows, each once.
LEMMA PlanType ==
    \A r \in Runs :
       /\ DOMAIN Targets[r] = 1 .. Len(Targets[r]) /\ Len(Targets[r]) \in Nat
       /\ \A i \in DOMAIN Targets[r] : <<r, Targets[r][i]>> \in Keys /\ i \in Nat
       /\ \A i, j \in DOMAIN Targets[r] : Targets[r][i] = Targets[r][j] => i = j
<1>1. ASSUME NEW r \in Runs
      PROVE  /\ DOMAIN Targets[r] = 1 .. Len(Targets[r]) /\ Len(Targets[r]) \in Nat
             /\ \A i \in DOMAIN Targets[r] : Targets[r][i] \in Guests /\ i \in Nat
  <2>1. Targets[r] \in Seq(Guests)
    BY TargetsAssumption
  <2>2. QED
    BY <2>1
<1>2. QED
  BY <1>1, TargetsAssumption DEF Keys

\* Rows are opened in the order of the plan.
LEMMA RowsInOrderStep == ASSUME IInv, QueueInv, [Next]_vars PROVE RowsInOrder'
<1>p. \A r \in Runs :
         /\ DOMAIN Targets[r] = 1 .. Len(Targets[r])
         /\ \A m \in DOMAIN Targets[r] : <<r, Targets[r][m]>> \in Keys /\ m \in Nat
         /\ \A m, n \in DOMAIN Targets[r] : Targets[r][m] = Targets[r][n] => m = n
  BY PlanType
<1>q. /\ TypeOK /\ RowsInOrder /\ pos \in Nat /\ done \subseteq Guests
      /\ row \in [Keys -> {"none", "running"} \cup Closed]
      /\ (Busy \/ pc = "loading" => cur \in Runs)
  BY DEF IInv, TypeOK, QueueInv
<1>t. \A k \in Keys : row[k] \in Closed => row'[k] \in Closed
  BY ClosedStays
<1> USE <1>p, <1>q
<1>1. ASSUME NEW r \in Runs, NEW i \in DOMAIN Targets[r], NEW j \in DOMAIN Targets[r],
             i < j, row'[<<r, Targets[r][j]>>] # "none"
      PROVE  row'[<<r, Targets[r][i]>>] \in Closed
  <2>1. CASE row[<<r, Targets[r][j]>>] # "none"
    BY <1>t, <1>1, <2>1 DEF RowsInOrder
  <2>2. CASE row[<<r, Targets[r][j]>>] = "none"
    <3>1. OpenRow /\ <<r, Targets[r][j]>> = Key
      <4>1. ASSUME NEW k \in Keys, NEW v \in Terminal, Concludes(k, v)
            PROVE  row'[<<r, Targets[r][j]>>] = "none"
        BY <1>t, <2>2, <4>1 DEF Concludes
      <4>0. Deletions => row'[<<r, Targets[r][j]>>] = "none"
        BY <1>1, <2>2, DeletesOnly DEF Won
      <4>2. OpenRow
        BY <1>1, <2>2, <4>0, <4>1, RowEffects
      <4>3. QED
        BY <1>t, <1>1, <2>2, <4>2 DEF OpenRow
    <3>2. r = cur /\ j = pos
      <4>1. pos \in DOMAIN Targets[cur] /\ cur \in Runs
        BY <1>t, <3>1 DEF OpenRow, TypeOK, Busy, More
      <4>2. r = cur /\ Targets[r][j] = Targets[cur][pos]
        BY <3>1 DEF Key
      <4>3. QED
        BY <1>t, <4>1, <4>2
    <3>3. row[<<r, Targets[r][i]>>] \in Closed
      BY <1>t, <1>1, <3>1, <3>2 DEF RowsInOrder, OpenRow
    <3>4. QED
      BY <1>t, <3>3
  <2>3. QED
    BY <2>1, <2>2
<1>2. ASSUME Busy', NEW g \in done' PROVE row'[<<cur', g>>] \in Closed
  <2>1. CASE LoadPlan
    BY <1>t, <1>2, <2>1 DEF LoadPlan, Completed, RowsOf, dbVars
  <2>2. CASE UNCHANGED <<cur, done>> /\ Busy
    <3>1. g \in Guests /\ cur \in Runs /\ <<cur, g>> \in Keys
      BY <1>t, <1>2, <2>2 DEF Keys
    <3>2. row[<<cur, g>>] \in Closed
      BY <1>t, <1>2, <2>2 DEF RowsInOrder
    <3>3. QED
      BY <1>t, <2>2, <3>1, <3>2
  <2>3. LoadPlan \/ (UNCHANGED <<cur, done>> /\ Busy)
    <3>1. UNCHANGED pc => Busy
      BY <1>2 DEF Busy
    <3>2. QED
      BY <1>2, <3>1, LoopMoves
  <2>4. QED
    BY <2>1, <2>2, <2>3
<1>3. ASSUME (pc \in {"opening", "starting", "calling", "saving", "polling"})'
             \/ (pc = "loop" /\ ~stopping)',
             NEW i \in DOMAIN Targets[cur'], i < pos'
      PROVE  row'[<<cur', Targets[cur'][i]>>] \in Closed
  <2>0. Busy'
    BY <1>3 DEF Busy
  <2>1. CASE LoadPlan
    <3>1. pos' = 1 /\ cur' = cur /\ cur \in Runs
      BY <1>t, <2>1 DEF LoadPlan
    <3>2. i \in 1 .. Len(Targets[cur])
      BY <1>t, <1>3, <3>1
    <3>3. QED
      BY <1>3, <3>1, <3>2
  <2>2. ASSUME UNCHANGED cur, Busy,
               AtGuest \/ (pc = "loop" /\ ~stopping), i < pos
        PROVE  row'[<<cur', Targets[cur'][i]>>] \in Closed
    <3>1. row[<<cur, Targets[cur][i]>>] \in Closed
      BY <1>t, <1>3, <2>2 DEF RowsInOrder, AtGuest
    <3>2. QED
      BY <1>t, <1>3, <2>2, <3>1
  <2>3. CASE UNCHANGED <<pc, cur, pos, done>> /\ (stopping => stopping')
    <3>1. Busy /\ i < pos /\ UNCHANGED cur
      BY <1>3, <2>0, <2>3 DEF Busy
    <3>2. AtGuest \/ (pc = "loop" /\ ~stopping)
      BY <1>3, <2>3 DEF AtGuest
    <3>3. QED
      BY <2>2, <3>1, <3>2
  <2>4. CASE NextGuest /\ UNCHANGED cur /\ Busy
    BY <1>3, <2>2, <2>4 DEF NextGuest, Proceeds, LoopTo
  <2>5. CASE AtGuest /\ AtGuest' /\ pos' = pos /\ UNCHANGED cur /\ Busy
    BY <1>3, <2>2, <2>5 DEF AtGuest
  <2>6. CASE SkipGuest /\ UNCHANGED cur /\ Busy
    <3>1. pc = "loop" /\ ~stopping /\ pos' = pos + 1 /\ Targets[cur][pos] \in done /\ UNCHANGED row
      BY <2>6 DEF SkipGuest, Proceeds, LoopTo, Key, dbVars
    <3>2. CASE i = pos
      BY <1>t, <2>6, <3>1, <3>2 DEF RowsInOrder
    <3>3. CASE i < pos
      BY <2>2, <2>6, <3>1, <3>3
    <3>4. i \in Nat
      BY <1>t, <1>3, <2>6
    <3>5. QED
      BY <1>3, <1>t, <3>1, <3>2, <3>3, <3>4
  <2>7. ASSUME AtGuest, pos' = pos + 1, pc' = "loop", UNCHANGED <<cur, stopping>>, Busy,
               NEW v \in Terminal, CloseRow(Key, v)
        PROVE  row'[<<cur', Targets[cur'][i]>>] \in Closed
    <3>1. i \in Nat /\ <<cur, Targets[cur][i]>> \in Keys
      BY <1>t, <1>3, <2>7
    <3>2. CASE i = pos
      <4>1. row' = [row EXCEPT ![<<cur, Targets[cur][i]>>] = v]
        BY <2>7, <3>2 DEF CloseRow, Key
      <4>2. v \in Closed
        BY <2>7 DEF Closed
      <4>3. QED
        BY <1>t, <2>7, <3>1, <4>1, <4>2
    <3>3. CASE i < pos
      BY <2>2, <2>7, <3>3 DEF AtGuest
    <3>4. QED
      BY <1>3, <1>t, <2>7, <3>1, <3>2, <3>3
  <2>8. QED
    BY <1>3, <2>0, <2>1, <2>3, <2>4, <2>5, <2>6, <2>7, LoopMoves DEF AtGuest
<1>4. QED
  BY <1>1, <1>2, <1>3 DEF RowsInOrder

\* The rows that count are those of the oldest run, which is the one in hand.
LEMMA RunningRowsFirstStep == ASSUME IInv, QueueInv, [Next]_vars PROVE RunningRowsFirst'
<1>t. /\ TypeOK /\ RunsAndRows /\ RunInHand /\ RunningRowsFirst
      /\ run \in [Runs -> {"none"} \cup RunActive \cup RunTerminal]
      /\ row \in [Keys -> {"none", "running"} \cup Closed]
      /\ (InHand => cur \in Runs) /\ \A k \in Keys : k[1] \in Runs
  BY DEF IInv, TypeOK, QueueInv, InHand, Keys
<1>1. ASSUME \A k \in Keys : row'[k] = "running" => row[k] = "running",
             \A r \in Runs : run'[r] \in RunActive => run[r] \in RunActive,
             InHand' => InHand /\ cur' = cur
      PROVE  RunningRowsFirst'
  BY <1>t, <1>1 DEF RunningRowsFirst
<1>2. CASE Api
  <2>1. ASSUME NEW r \in Runs, RequestRun(r) PROVE RunningRowsFirst'
    <3>1. /\ UNCHANGED <<row, pc, cur>> /\ run[r] = "none"
          /\ run' = [run EXCEPT ![r] = "queued"]
      BY <2>1 DEF RequestRun, planVars
    <3>2. InHand' = InHand
      BY <3>1 DEF InHand, Busy
    <3>3. \A q \in Runs : q # r => run'[q] = run[q]
      BY <1>t, <3>1
    <3>4. ASSUME NEW k \in Keys, row'[k] = "running", run'[k[1]] \in RunActive
          PROVE  /\ \A q \in Runs : run'[q] \in RunActive => k[1] <= q
                 /\ InHand' => k[1] = cur'
      <4>1. row[k] = "running" /\ k[1] \in Runs /\ run[k[1]] # "none"
        BY <1>t, <3>1, <3>4 DEF RunsAndRows
      <4>2. run[k[1]] \in RunActive
        BY <3>1, <3>3, <3>4, <4>1
      <4>3. k[1] <= r
        BY <1>t, RunOrder, <3>1, <4>1 DEF RunsAndRows
      <4>4. QED
        BY <1>t, <3>1, <3>2, <3>3, <4>1, <4>2, <4>3 DEF RunningRowsFirst
    <3>5. QED
      BY <3>4 DEF RunningRowsFirst
  <2>2. CASE (\E r \in Runs : CancelRead(r)) \/ CancelQueued \/ CancelRunning
    <3>1. UNCHANGED <<row, pc, cur>> /\ (UNCHANGED run \/ run' = [run EXCEPT ![api.run] = "cancelled"])
      BY <2>2 DEF CancelRead, CancelQueued, CancelRunning, dbVars, planVars
    <3>2. InHand' = InHand
      BY <3>1 DEF InHand, Busy
    <3>3. \A r \in Runs : run'[r] \in RunActive => run[r] \in RunActive
      BY <1>t, <3>1 DEF RunActive
    <3>4. QED
      BY <1>1, <3>1, <3>2, <3>3
  <2>3. QED
    BY <1>2, <2>1, <2>2 DEF Api
<1>3. CASE Agent \/ Stop \/ UNCHANGED vars
  <2>1. UNCHANGED <<row, run, pc, cur>>
    BY <1>3 DEF Agent, AgentAccept, AgentRefuse, AgentFinish, AgentRestart, Stop, vars,
       dbVars, planVars
  <2>2. InHand' = InHand
    BY <2>1 DEF InHand, Busy
  <2>3. QED
    BY <1>1, <2>1, <2>2
<1>4. CASE Boot \/ Exit \/ Crash \/ ClaimError \/ WorkerDies \/ StopBetweenGuests
  <2>1. UNCHANGED <<row, run>> /\ pc' \in {"recover", "down", "idle", "dead"}
    BY <1>4 DEF Boot, Exit, Crash, Memory, ClaimError, WorkerDies, StopBetweenGuests, Leave,
       dbVars
  <2>2. ~InHand'
    BY <2>1 DEF InHand, Busy
  <2>3. QED
    BY <1>1, <2>1, <2>2
<1>5. CASE Recover
  <2>1. pc' \in {"recover", "idle"} /\ \A r \in Runs : run'[r] \in RunActive => run[r] \in RunActive
    BY <1>t, <1>5 DEF Recover, RecoverUnconfirmed, RecoverTask, RecoverDeferred, CloseRow,
       NextScan, RequeueRuns, ToRequeue, RunActive, dbVars
  <2>2. ~InHand'
    BY <2>1 DEF InHand, Busy
  <2>3. ~OpenRow
    BY <1>5 DEF Recover, RecoverUnconfirmed, RecoverTask, RecoverDeferred, RequeueRuns, OpenRow
  <2>4. \A k \in Keys : row'[k] = "running" => row[k] = "running"
    BY <1>t, <2>3, RowEffects, DeletesOnly DEF Concludes, Terminal, Closed, Won
  <2>5. QED
    BY <1>1, <2>1, <2>2, <2>4
<1>6. CASE FinaliseCommit
  <2>1. /\ pc' = "idle" /\ UNCHANGED row
        /\ run' = [run EXCEPT ![cur] = ending] /\ ending \in RunTerminal
    BY <1>t, <1>6 DEF FinaliseCommit, Leave, TypeOK
  <2>2. ~InHand'
    BY <2>1 DEF InHand, Busy
  <2>3. \A r \in Runs : run'[r] \in RunActive => run[r] \in RunActive
    BY <1>t, <2>1 DEF RunActive, RunTerminal
  <2>4. QED
    BY <1>1, <2>1, <2>2, <2>3
<1>7. ASSUME NEW r \in Runs, ClaimRead(r) PROVE RunningRowsFirst'
  <2>1. /\ pc = "idle" /\ ~stopping /\ Oldest(r) /\ pc' = "claiming" /\ cur' = r
        /\ UNCHANGED <<run, row>>
    BY <1>7 DEF ClaimRead, dbVars
  <2>2. ~InHand
    BY <2>1 DEF InHand, Busy
  <2>3. \A q \in Runs : run[q] # "running"
    BY <2>1, <2>2, <1>t DEF RunInHand
  <2>4. ASSUME NEW k \in Keys, row[k] = "running", run[k[1]] \in RunActive PROVE k[1] = r
    <3>1. k[1] <= r
      BY <1>t, <2>1, <2>4 DEF RunningRowsFirst, Oldest, RunActive
    <3>2. r <= k[1]
      BY <1>t, <2>1, <2>3, <2>4 DEF Oldest, RunActive
    <3>3. QED
      BY <1>t, RunOrder, <3>1, <3>2
  <2>5. QED
    BY <1>t, <2>1, <2>4 DEF RunningRowsFirst
<1>8. CASE ClaimWrite
  <2>1. /\ pc = "claiming" /\ pc' = "loading" /\ UNCHANGED <<cur, row>>
        /\ run' = [run EXCEPT ![cur] = "running"]
    BY <1>8 DEF ClaimWrite, planVars
  <2>2. InHand /\ cur \in Runs /\ \A q \in Runs : run[q] \in RunActive => cur <= q
    BY <1>t, <2>1 DEF InHand, RunInHand
  <2>3. cur <= cur
    BY <2>2, RunsAssumption
  <2>4. QED
    BY <1>t, <2>1, <2>2, <2>3 DEF RunningRowsFirst
<1>9. CASE OpenRow
  <2>1. /\ pc = "opening" /\ pc' = "starting" /\ UNCHANGED <<cur, run>>
        /\ row' = [row EXCEPT ![Key] = "running"]
    BY <1>9 DEF OpenRow, planVars
  <2>2. InHand /\ Key[1] = cur /\ cur \in Runs
    BY <1>t, <2>1 DEF InHand, Busy, Key
  <2>3. \A q \in Runs : run[q] \in RunActive => cur <= q
    BY <1>t, <2>2 DEF RunInHand
  <2>4. QED
    BY <1>t, <2>1, <2>2, <2>3 DEF RunningRowsFirst
<1>10. CASE \/ LoadPlan \/ CancelBetweenGuests \/ SkipGuest \/ NextGuest \/ EndOfLoop
            \/ AdoptRow \/ SendStart \/ StartFails \/ StartAccepted \/ SaveTaskId
            \/ PollTerminal \/ PollGivesUp \/ PollStopped \/ RunError
            \/ FinaliseRun \/ FinaliseError
  <2>1. UNCHANGED <<cur, run>>
    BY <1>10 DEF FinaliseRun, FinaliseError, Decide, LoadPlan, CancelBetweenGuests, SkipGuest, NextGuest, EndOfLoop, LoopTo,
       AdoptRow, SendStart, StartFails, StartAccepted, SaveTaskId, PollTerminal, PollGivesUp,
       PollStopped, NextPos, CloseRow, RunError, dbVars, planVars
  <2>2. InHand
    BY <1>10 DEF FinaliseRun, FinaliseError, LoadPlan, CancelBetweenGuests, SkipGuest, NextGuest, EndOfLoop, Proceeds,
       AdoptRow, SendStart, StartFails, StartAccepted, SaveTaskId, PollTerminal, PollGivesUp,
       PollStopped, RunError, InHand, Busy
  <2>3. OpenRow => RunningRowsFirst'
    BY <1>9
  <2>4. ~OpenRow => \A k \in Keys : row'[k] = "running" => row[k] = "running"
    BY <1>t, RowEffects, DeletesOnly DEF Concludes, Terminal, Closed, Won
  <2>5. QED
    BY <1>1, <2>1, <2>2, <2>3, <2>4
<1>11. CASE Deletions
  <2>1. /\ UNCHANGED <<run, pc, cur>>
        /\ \A j \in Keys : row'[j] = row[j] \/ (row[j] \in Won /\ row'[j] \in Won)
    BY <1>11, DeletesOnly DEF IInv, planVars
  <2>2. InHand' = InHand /\ \A k \in Keys : row'[k] = "running" => row[k] = "running"
    BY <2>1 DEF InHand, Busy, Won
  <2>3. QED
    BY <1>1, <2>1, <2>2
<1>12. QED
  BY <1>2, <1>3, <1>4, <1>5, <1>6, <1>7, <1>8, <1>9, <1>10, <1>11 DEF Next, Failure, Executor

\* Nobody forgets a cancellation that was heard.
LEMMA HeardIsKeptStep == ASSUME IInv, QueueInv, [Next]_vars PROVE HeardIsKept'
<1>t. /\ RunInHand /\ HeardIsKept /\ None \notin Runs
      /\ run \in [Runs -> {"none"} \cup RunActive \cup RunTerminal]
      /\ acked \in [Runs -> {"no", "early", "late", "heard"}]
      /\ (InHand => cur \in Runs)
      /\ (Busy => pc \notin {"idle", "claiming", "loading", "erring", "failing", "recover", "down", "dead"})
      /\ api \in {None} \cup [run : Runs, seen : RunActive]
      /\ stopping \in BOOLEAN
  BY NoneAssumption DEF IInv, TypeOK, QueueInv, InHand, Busy
<1>1. ASSUME UNCHANGED <<pc, cur, ending, currentRun, run, acked, cancelled>>, stopping => stopping'
      PROVE  HeardIsKept'
  <2>1. InHand' = InHand
    BY <1>1 DEF InHand, Busy
  <2>2. QED
    BY <1>t, <1>1, <2>1 DEF HeardIsKept
<1>2. ASSUME NEW r \in Runs, RequestRun(r) PROVE HeardIsKept'
  <2>1. /\ UNCHANGED <<pc, cur, ending, currentRun, acked, cancelled, stopping>> /\ run[r] = "none"
        /\ run' = [run EXCEPT ![r] = "queued"]
    BY <1>2 DEF RequestRun, planVars, sharedVars
  <2>2. InHand' = InHand
    BY <2>1 DEF InHand, Busy
  <2>3. QED
    BY <1>t, <2>1, <2>2 DEF HeardIsKept
<1>3. CASE CancelQueued
  <2>1. /\ UNCHANGED <<pc, cur, ending, currentRun, acked, cancelled, stopping>>
        /\ run' = [run EXCEPT ![api.run] = "cancelled"]
    BY <1>3 DEF CancelQueued, planVars, sharedVars
  <2>2. InHand' = InHand
    BY <2>1 DEF InHand, Busy
  <2>3. QED
    BY <1>t, <2>1, <2>2 DEF HeardIsKept
<1>4. CASE CancelRunning
  <2>1. /\ UNCHANGED <<pc, cur, ending, currentRun, run, stopping>> /\ api.run \in Runs
        /\ cancelled' = cancelled \cup {api.run}
        /\ acked' = [acked EXCEPT ![api.run] =
                        IF api.run # currentRun THEN "early"
                        ELSE IF pc = "recording" \/ pc = "failing"
                               THEN IF @ = "heard" THEN "heard" ELSE "late"
                        ELSE "heard"]
    BY <1>t, <1>4 DEF CancelRunning, planVars, dbVars
  <2>2. InHand' = InHand /\ Busy' = Busy
    BY <2>1 DEF InHand, Busy
  <2>3. currentRun \in Runs => pc \notin {"down", "recover"}
    BY <1>t DEF RunInHand, Busy
  <2>4. ASSUME NEW r \in Runs, acked'[r] = "heard"
        PROVE  /\ pc \notin {"down", "recover"}
               /\ IF r = currentRun THEN r \in cancelled'
                  ELSE run[r] = "cancelled" \/ (run[r] = "running" /\ (stopping \/ pc = "dead"))
    BY <1>t, <2>1, <2>3, <2>4 DEF HeardIsKept
  <2>5. InHand /\ currentRun = None => acked'[cur] # "heard"
    BY <1>t, <2>1 DEF HeardIsKept
  <2>6. pc \in {"recording", "failing"} /\ acked'[cur] = "heard" => ending = "cancelled"
    BY <1>t, <2>1 DEF HeardIsKept
  <2>7. QED
    BY <2>1, <2>2, <2>4, <2>5, <2>6 DEF HeardIsKept
<1>5. CASE Boot \/ Exit \/ Crash
  <2>1. pc' \in {"down", "recover"} /\ \A r \in Runs : acked'[r] # "heard"
    BY <1>t, <1>5 DEF Boot, Exit, Crash, Memory
  <2>2. ~InHand'
    BY <2>1 DEF InHand, Busy
  <2>3. QED
    BY <2>1, <2>2 DEF HeardIsKept
<1>6. CASE RequeueRuns
  <2>1. pc = "recover" /\ pc' = "idle" /\ UNCHANGED acked
    BY <1>6 DEF RequeueRuns
  <2>2. ~InHand' /\ \A r \in Runs : acked[r] # "heard"
    BY <1>t, <2>1 DEF InHand, Busy, HeardIsKept
  <2>3. QED
    BY <2>1, <2>2 DEF HeardIsKept
<1>7. ASSUME NEW r \in Runs, ClaimRead(r) PROVE HeardIsKept'
  <2>1. /\ pc = "idle" /\ ~stopping /\ run[r] = "queued" /\ pc' = "claiming" /\ cur' = r
        /\ UNCHANGED <<run, currentRun, acked, cancelled, stopping>>
    BY <1>7 DEF ClaimRead, Oldest, dbVars, sharedVars
  <2>2. currentRun = None /\ acked[r] # "heard"
    BY <1>t, <2>1 DEF RunInHand, HeardIsKept
  <2>3. QED
    BY <1>t, <2>1, <2>2 DEF HeardIsKept
<1>8. CASE ClaimWrite
  <2>1. /\ pc = "claiming" /\ pc' = "loading" /\ UNCHANGED <<cur, currentRun, acked, cancelled, stopping>>
        /\ run' = [run EXCEPT ![cur] = "running"] /\ InHand
    BY <1>8 DEF ClaimWrite, planVars, sharedVars, InHand
  <2>2. currentRun = None
    BY <1>t, <2>1 DEF RunInHand
  <2>3. QED
    BY <1>t, <2>1, <2>2 DEF HeardIsKept
<1>9. CASE LoadPlan
  <2>1. /\ pc = "loading" /\ pc' = "loop" /\ UNCHANGED <<cur, acked, run, stopping>> /\ InHand
        /\ currentRun' = cur /\ cancelled' = cancelled \ {cur}
    BY <1>9 DEF LoadPlan, dbVars, InHand
  <2>2. currentRun = None /\ cur \in Runs
    BY <1>t, <2>1 DEF RunInHand
  <2>3. QED
    BY <1>t, <2>1, <2>2 DEF HeardIsKept
<1>10. CASE StopBetweenGuests
  <2>1. /\ pc = "loop" /\ stopping /\ stopping' /\ pc' = "idle" /\ currentRun' = None /\ UNCHANGED <<run, acked>>
    BY <1>t, <1>10 DEF StopBetweenGuests, Leave, dbVars
  <2>2. ~InHand' /\ Busy
    BY <2>1 DEF Busy, InHand
  <2>3. currentRun = cur /\ run[cur] \in {"running", "cancelled"}
    BY <1>t, <2>1, <2>2 DEF RunInHand
  <2>4. QED
    BY <1>t, <2>1, <2>2, <2>3 DEF HeardIsKept
<1>11. CASE FinaliseCommit
  <2>1. /\ pc' = "idle" /\ currentRun' = None /\ UNCHANGED <<acked, stopping>>
        /\ pc \in {"recording", "failing"} /\ run' = [run EXCEPT ![cur] = ending]
    BY <1>11 DEF FinaliseCommit, Leave
  <2>2. ~InHand' /\ InHand /\ cur \in Runs
    BY <1>t, <2>1 DEF Busy, InHand
  <2>3. currentRun = cur \/ currentRun = None
    BY <1>t, <2>1 DEF RunInHand
  <2>4. acked[cur] = "heard" => ending = "cancelled"
    BY <1>t, <2>1 DEF HeardIsKept
  <2>5. QED
    BY <1>t, <2>1, <2>2, <2>3, <2>4 DEF HeardIsKept
<1>12. CASE ClaimError
  <2>1. pc = "claiming" /\ pc' = "idle" /\ UNCHANGED <<run, currentRun, acked, cancelled, stopping>>
    BY <1>12 DEF ClaimError, dbVars, sharedVars
  <2>2. ~InHand'
    BY <2>1 DEF Busy, InHand
  <2>3. QED
    BY <1>t, <2>1, <2>2 DEF HeardIsKept
<1>13. CASE WorkerDies
  <2>1. pc \in {"erring", "failing"} /\ pc' = "dead" /\ UNCHANGED <<run, acked>> /\ currentRun' = None
    BY <1>13 DEF WorkerDies, dbVars
  <2>2. ~InHand' /\ InHand
    BY <2>1 DEF Busy, InHand
  <2>3. run[cur] \in {"running", "cancelled"} /\ (currentRun = cur \/ currentRun = None)
    BY <1>t, <2>1 DEF RunInHand
  <2>4. QED
    BY <1>t, <2>1, <2>2, <2>3 DEF HeardIsKept
<1>14. ASSUME InHand, InHand', pc' \notin {"down", "recover", "recording", "failing"}, pc # "dead",
              UNCHANGED <<cur, currentRun, run, acked, cancelled, stopping>>
       PROVE  HeardIsKept'
  BY <1>t, <1>14 DEF HeardIsKept
<1>15. CASE (\E r \in Runs : CancelRead(r)) \/ Agent \/ Stop \/ UNCHANGED vars
  BY <1>1, <1>15 DEF CancelRead, Agent, AgentAccept, AgentRefuse, AgentFinish, AgentRestart,
     Stop, vars, dbVars, planVars, sharedVars
<1>16. CASE Recover
  <2>1. ASSUME NEW k \in Keys, RecoverUnconfirmed(k) \/ RecoverTask(k) \/ RecoverDeferred(k)
        PROVE  HeardIsKept'
    BY <1>1, <2>1 DEF RecoverUnconfirmed, RecoverTask, RecoverDeferred, NextScan, CloseRow,
       dbVars, planVars, sharedVars
  <2>2. QED
    BY <1>6, <1>16, <2>1 DEF Recover
<1>17. CASE FinaliseRun \/ FinaliseError
  <2>1. /\ UNCHANGED <<cur, currentRun, run, acked, cancelled, stopping>>
        /\ pc \in {"finalising", "erring"} /\ pc' \in {"recording", "failing"}
        /\ cur \in cancelled => ending' = "cancelled"
    BY <1>17 DEF FinaliseRun, FinaliseError, Decide, FinalStatus, dbVars, sharedVars
  <2>2. InHand /\ InHand'
    BY <2>1 DEF InHand, Busy
  <2>3. currentRun = cur \/ currentRun = None
    BY <1>t, <2>1 DEF RunInHand
  <2>4. acked[cur] = "heard" => ending' = "cancelled"
    BY <1>t, <2>1, <2>2, <2>3 DEF HeardIsKept
  <2>5. QED
    BY <1>t, <2>1, <2>2, <2>4 DEF HeardIsKept
<1>20. CASE Deletions
  BY <1>1, <1>20, DeletesOnly DEF IInv, planVars, sharedVars
<1>18. CASE \/ CancelBetweenGuests \/ SkipGuest \/ NextGuest \/ EndOfLoop \/ AdoptRow
            \/ OpenRow \/ SendStart \/ StartFails \/ StartAccepted \/ SaveTaskId
            \/ PollTerminal \/ PollGivesUp \/ PollStopped \/ RunError
  <2>1. UNCHANGED <<cur, currentRun, run, acked, cancelled, stopping>>
    BY <1>18 DEF CancelBetweenGuests, SkipGuest, NextGuest, EndOfLoop, LoopTo, AdoptRow,
       OpenRow, SendStart, StartFails, StartAccepted, SaveTaskId, PollTerminal,
       PollGivesUp, PollStopped, NextPos, CloseRow, RunError, dbVars, planVars, sharedVars
  <2>2. /\ pc \in {"loading", "loop", "opening", "starting", "calling", "saving", "polling",
                   "finalising", "recording"}
        /\ pc' \in {"loop", "opening", "starting", "calling", "saving", "polling",
                    "finalising", "erring"}
    BY <1>18 DEF CancelBetweenGuests, SkipGuest, NextGuest, EndOfLoop, LoopTo, Proceeds,
       AdoptRow, OpenRow, SendStart, StartFails, StartAccepted, SaveTaskId, PollTerminal,
       PollGivesUp, PollStopped, NextPos, RunError
  <2>3. InHand /\ InHand'
    BY <2>2 DEF InHand, Busy
  <2>4. QED
    BY <1>14, <2>1, <2>2, <2>3
<1>19. QED
  BY <1>2, <1>3, <1>4, <1>5, <1>7, <1>8, <1>9, <1>10, <1>11, <1>12, <1>13, <1>15, <1>16, <1>17,
     <1>18, <1>20
     DEF Next, Failure, Executor, Api

\* The second invariant holds for any number of runs, cancellations and faults.
THEOREM QueueInvariance == Spec => []QueueInv
<1>1. Init => QueueInv
  <2>1. ASSUME Init PROVE RunsAndRows /\ RunInHand /\ RowsInOrder /\ RunningRowsFirst /\ HeardIsKept
    BY <2>1, PlanType DEF Init, RunsAndRows, RunInHand, RowsInOrder, RunningRowsFirst,
       HeardIsKept, InHand, Busy
  <2>2. QED
    BY <2>1 DEF QueueInv
<1>2. IInv /\ QueueInv /\ [Next]_vars => QueueInv'
  BY RunsAndRowsStep, RunInHandStep, RowsInOrderStep, RunningRowsFirstStep, HeardIsKeptStep
     DEF QueueInv
<1>3. QED
  BY <1>1, <1>2, Invariance, PTL DEF Spec

\* Runs, rows, the executor and the host agree, whatever is killed, lost or cancelled:
\* both invariants together, as the run checks them.
THEOREM Consistency == Spec => []Consistent
<1>1. IInv /\ QueueInv => Consistent
  BY DEF Consistent
<1>2. QED
  BY <1>1, Invariance, QueueInvariance, PTL

\* A cancellation that reached the executor while it had the run decides how it ends.
THEOREM CancelWins == Spec => []HeardCancelWins
<1>1. IInv /\ QueueInv => HeardCancelWins
  <2>1. ASSUME IInv, QueueInv, NEW r \in Runs, acked[r] = "heard", run[r] \in RunTerminal
        PROVE  run[r] = "cancelled"
    <3>1. CASE r = currentRun
      <4>1. currentRun # None
        BY <3>1, NoneAssumption
      <4>2. run[r] \in {"running", "cancelled"}
        BY <2>1, <3>1, <4>1 DEF QueueInv, RunInHand
      <4>3. QED
        BY <2>1, <4>2 DEF RunTerminal
    <3>2. CASE r # currentRun
      BY <2>1, <3>2 DEF QueueInv, HeardIsKept, RunTerminal
    <3>3. QED
      BY <3>1, <3>2
  <2>2. QED
    BY <2>1 DEF HeardCancelWins
<1>2. QED
  BY <1>1, Invariance, QueueInvariance, PTL

\* One guest at a time: of the runs that go on, at most one row is running, however
\* many runs are queued again after however many crashes.
THEOREM OneAtATime == Spec => []Serialised
<1>1. IInv /\ QueueInv => Serialised
  <2> SUFFICES ASSUME IInv, QueueInv PROVE Serialised
    OBVIOUS
  <2> DEFINE S == {k \in Keys : row[k] = "running" /\ run[k[1]] \in RunActive}
  <2>1. ASSUME NEW k \in S, NEW l \in S PROVE k = l
    <3>1. k[1] \in Runs /\ l[1] \in Runs
      BY DEF Keys
    <3>2. k[1] = l[1]
      <4>1. k[1] <= l[1] /\ l[1] <= k[1]
        BY <3>1 DEF QueueInv, RunningRowsFirst
      <4>2. QED
        BY <3>1, <4>1, RunOrder
    <3>3. PICK i \in DOMAIN Targets[k[1]] : Targets[k[1]][i] = k[2]
      BY DEF QueueInv, RunsAndRows
    <3>4. PICK j \in DOMAIN Targets[k[1]] : Targets[k[1]][j] = l[2]
      BY <3>2 DEF QueueInv, RunsAndRows
    <3>5. /\ k = <<k[1], Targets[k[1]][i]>> /\ l = <<k[1], Targets[k[1]][j]>>
          /\ i \in Nat /\ j \in Nat
      BY <3>1, <3>2, <3>3, <3>4, PlanType DEF Keys
    <3>6. row[k] = "running" /\ row[l] = "running"
      OBVIOUS
    <3>7. ~(i < j) /\ ~(j < i)
      BY <3>1, <3>5, <3>6 DEF QueueInv, RowsInOrder, Terminal, Closed, Won
    <3>8. QED
      BY <3>5, <3>7
  <2>2. CASE S = {}
    BY <2>2, FS_EmptySet DEF Serialised
  <2>3. CASE S # {}
    <3>1. PICK k \in S : TRUE
      BY <2>3
    <3>2. S = {k}
      BY <2>1, <3>1
    <3>3. QED
      BY <3>2, FS_Singleton DEF Serialised
  <2>4. QED
    BY <2>2, <2>3
<1>2. QED
  BY <1>1, Invariance, QueueInvariance, PTL

\* A run that has ended is not executed again, unless it was cancelled between the
\* read and the write of its claim.
THEOREM StaysEnded == Spec => NotReopened
<1>1. ASSUME IInv, QueueInv, [Next]_vars
      PROVE  [\A r \in Runs : run[r] \in RunTerminal /\ run'[r] \in RunActive =>
                 run[r] = "cancelled" /\ pc = "claiming" /\ cur = r]_run
  <2>1. TypeOK /\ RunInHand /\ run \in [Runs -> {"none"} \cup RunActive \cup RunTerminal]
    BY <1>1 DEF IInv, TypeOK, QueueInv
  <2>2. ASSUME NEW r \in Runs, run[r] \in RunTerminal, run'[r] \in RunActive
        PROVE  run[r] = "cancelled" /\ pc = "claiming" /\ cur = r
    <3>0. run'[r] # run[r]
      BY <2>2 DEF RunActive, RunTerminal
    <3>1. CASE ClaimWrite
      BY <2>1, <2>2, <3>0, <3>1 DEF ClaimWrite, RunInHand, TypeOK, RunTerminal
    <3>2. CASE RequeueRuns \/ CancelQueued \/ \E q \in Runs : RequestRun(q)
      BY <2>1, <2>2, <3>0, <3>2 DEF RequeueRuns, ToRequeue, CancelQueued, RequestRun,
         RunActive, RunTerminal
    <3>3. CASE FinaliseCommit
      BY <2>1, <2>2, <3>0, <3>3 DEF FinaliseCommit, TypeOK, RunTerminal, RunActive
    <3>4. QED
      BY <1>1, <2>1, <3>0, <3>1, <3>2, <3>3, RunEffects DEF RunEffect
  <2>3. QED
    BY <2>2
<1>2. QED
  BY <1>1, Invariance, QueueInvariance, PTL DEF Spec, NotReopened

-----------------------------------------------------------------------------
(***************************************************************************)
(* The counters of a run.  Nothing says that there are finitely many       *)
(* guests; that the rows counted are finitely many is part of the          *)
(* invariant.                                                              *)
(***************************************************************************)
Counted ==
    \A r \in Runs :
       /\ IsFiniteSet(RowsOf(r, Won)) /\ IsFiniteSet(RowsOf(r, Closed \ Won))
       /\ ok[r] = Cardinality(RowsOf(r, Won))
       /\ bad[r] = Cardinality(RowsOf(r, Closed \ Won))

\* A step that does not touch the counters closes no row, and one that does closes one.
LEMMA CountEffects ==
    ASSUME IInv, [Next]_vars
    PROVE  \/ UNCHANGED <<ok, bad>> /\ (UNCHANGED row \/ OpenRow)
           \/ \E k \in Keys, v \in Terminal : row[k] = "running" /\ CloseRow(k, v)
           \/ Deletions
<1>1. CASE Api \/ Agent \/ Boot \/ Exit \/ Failure \/ UNCHANGED vars
  BY <1>1 DEF Api, RequestRun, CancelRead, CancelQueued, CancelRunning, Agent, AgentAccept,
     AgentRefuse, AgentFinish, AgentRestart, Boot, Exit, Failure, Crash, Stop, ClaimError,
     RunError, WorkerDies, vars, dbVars
<1>2. CASE Recover
  <2>1. \A k \in scan : pc = "recover" => row[k] = "running"
    BY DEF IInv, ScanIsRunning
  <2>2. QED
    BY <1>2, <2>1 DEF Recover, RecoverUnconfirmed, Unconfirmed, RecoverTask, RecoverDeferred,
       RequeueRuns, Terminal, Closed, Won, dbVars
<1>3. CASE StartFails \/ PollTerminal \/ PollGivesUp
  <2>1. Key \in Keys /\ row[Key] = "running"
    BY <1>3, KeyInKeys DEF StartFails, PollTerminal, PollGivesUp, IInv, TypeOK, Busy, GuestInHand
  <2>2. QED
    BY <1>3, <2>1 DEF StartFails, PollTerminal, PollGivesUp, Terminal, Closed, Won
<1>4. CASE Executor /\ ~(StartFails \/ PollTerminal \/ PollGivesUp)
  BY <1>4 DEF Executor, ClaimRead, ClaimWrite, LoadPlan, StopBetweenGuests,
     CancelBetweenGuests, SkipGuest, NextGuest, EndOfLoop, LoopTo, AdoptRow, OpenRow,
     SendStart, StartAccepted, SaveTaskId, PollStopped, FinaliseRun, FinaliseError, Decide,
     FinaliseCommit,     dbVars
<1>5. QED
  BY <1>1, <1>2, <1>3, <1>4 DEF Next

\* A row that is closed is counted once.
LEMMA CountedStep == ASSUME IInv, Counted, [Next]_vars PROVE Counted'
<1>t. /\ row \in [Keys -> {"none", "running"} \cup Closed]
      /\ ok \in [Runs -> Nat] /\ bad \in [Runs -> Nat]
      /\ \A r \in Runs, g \in Guests : <<r, g>> \in Keys
  BY DEF IInv, TypeOK, Keys
<1>1. ASSUME UNCHANGED <<ok, bad>>, UNCHANGED row \/ OpenRow PROVE Counted'
  <2>1. OpenRow => Key \in Keys /\ row[Key] = "none"
    BY OpeningIsNew DEF OpenRow
  <2>2. ASSUME NEW r \in Runs
        PROVE  /\ RowsOf(r, Won)' = RowsOf(r, Won)
               /\ RowsOf(r, Closed \ Won)' = RowsOf(r, Closed \ Won)
    BY <1>t, <1>1, <2>1 DEF RowsOf, OpenRow, Terminal, Closed, Won
  <2>3. QED
    BY <1>1, <2>2 DEF Counted
<1>2. ASSUME NEW k \in Keys, NEW v \in Terminal, row[k] = "running", CloseRow(k, v)
      PROVE  Counted'
  <2>0. PICK q \in Runs, h \in Guests : k = <<q, h>>
    BY DEF Keys
  <2>1. /\ row' = [row EXCEPT ![<<q, h>>] = v] /\ row[<<q, h>>] = "running"
        /\ IF v = "success" THEN ok' = [ok EXCEPT ![q] = @ + 1] /\ UNCHANGED bad
           ELSE bad' = [bad EXCEPT ![q] = @ + 1] /\ UNCHANGED ok
    BY <1>2, <2>0 DEF CloseRow, BumpCounters
  <2>2. ASSUME NEW S, "running" \notin S, NEW r \in Runs
        PROVE  RowsOf(r, S)' = IF r = q /\ v \in S THEN RowsOf(r, S) \cup {h}
                               ELSE RowsOf(r, S)
    <3>1. ASSUME NEW g \in Guests
          PROVE  row'[<<r, g>>] = IF r = q /\ g = h THEN v ELSE row[<<r, g>>]
      BY <1>t, <2>1
    <3>2. QED
      BY <2>1, <2>2, <3>1 DEF RowsOf
  <2>3. ASSUME NEW S, "running" \notin S, IsFiniteSet(RowsOf(q, S))
        PROVE  /\ IsFiniteSet(RowsOf(q, S)')
               /\ Cardinality(RowsOf(q, S)') = IF v \in S THEN Cardinality(RowsOf(q, S)) + 1
                                               ELSE Cardinality(RowsOf(q, S))
    <3>1. h \notin RowsOf(q, S)
      BY <2>1, <2>3 DEF RowsOf
    <3>2. RowsOf(q, S)' = IF v \in S THEN RowsOf(q, S) \cup {h} ELSE RowsOf(q, S)
      BY <2>2, <2>3
    <3>3. QED
      BY <2>3, <3>1, <3>2, FS_AddElement
  <2>4. ASSUME NEW r \in Runs, r # q, NEW S, "running" \notin S
        PROVE  RowsOf(r, S)' = RowsOf(r, S)
    BY <2>2, <2>4
  <2>5. /\ "running" \notin Won /\ "running" \notin Closed \ Won
        /\ v \in Won <=> v = "success"
        /\ v \in Closed \ Won <=> v # "success"
    BY <1>2 DEF Terminal, Closed, Won
  <2>6. /\ IsFiniteSet(RowsOf(q, Won)') /\ IsFiniteSet(RowsOf(q, Closed \ Won)')
        /\ ok'[q] = Cardinality(RowsOf(q, Won)')
        /\ bad'[q] = Cardinality(RowsOf(q, Closed \ Won)')
    <3>1. /\ IsFiniteSet(RowsOf(q, Won)) /\ IsFiniteSet(RowsOf(q, Closed \ Won))
          /\ ok[q] = Cardinality(RowsOf(q, Won))
          /\ bad[q] = Cardinality(RowsOf(q, Closed \ Won))
      BY DEF Counted
    <3>2. /\ IsFiniteSet(RowsOf(q, Won)')
          /\ Cardinality(RowsOf(q, Won)') =
                IF v = "success" THEN ok[q] + 1 ELSE ok[q]
      BY <2>3, <2>5, <3>1
    <3>3. /\ IsFiniteSet(RowsOf(q, Closed \ Won)')
          /\ Cardinality(RowsOf(q, Closed \ Won)') =
                IF v = "success" THEN bad[q] ELSE bad[q] + 1
      BY <2>3, <2>5, <3>1
    <3>4. QED
      BY <1>t, <2>1, <3>2, <3>3
  <2>7. ASSUME NEW r \in Runs, r # q
        PROVE  ok'[r] = ok[r] /\ bad'[r] = bad[r]
    BY <1>t, <2>1, <2>7
  <2>8. QED
    BY <2>4, <2>5, <2>6, <2>7 DEF Counted
<1>3. CASE Deletions
  <2>1. /\ UNCHANGED <<ok, bad>>
        /\ \A j \in Keys : row'[j] = row[j] \/ (row[j] \in Won /\ row'[j] \in Won)
    BY <1>3, DeletesOnly DEF IInv
  <2>2. ASSUME NEW r \in Runs
        PROVE  RowsOf(r, Won)' = RowsOf(r, Won) /\ RowsOf(r, Closed \ Won)' = RowsOf(r, Closed \ Won)
    BY <1>t, <2>1 DEF RowsOf
  <2>3. QED
    BY <2>1, <2>2 DEF Counted
<1>4. QED
  BY <1>1, <1>2, <1>3, CountEffects

\* A run whose successes are as many as its guests has a success for each guest.
LEMMA AllWon ==
    ASSUME NEW r \in Runs, RunsAndRows, IsFiniteSet(RowsOf(r, {"success"})),
           Cardinality(RowsOf(r, {"success"})) = Len(Targets[r])
    PROVE  \A i \in DOMAIN Targets[r] : row[<<r, Targets[r][i]>>] = "success"
<1> DEFINE n == Len(Targets[r])
           won == RowsOf(r, {"success"})
           named == {Targets[r][i] : i \in 1 .. n}
           f == [i \in 1 .. n |-> Targets[r][i]]
<1>1. DOMAIN Targets[r] = 1 .. n /\ n \in Nat
  BY PlanType
<1>2. IsFiniteSet(1 .. n) /\ Cardinality(1 .. n) = n
  BY <1>1, FS_Interval
<1>3. f \in Surjection(1 .. n, named)
  BY DEF Surjection
<1>4. IsFiniteSet(named) /\ Cardinality(named) <= n
  BY <1>2, <1>3, FS_Surjection
<1>5. won \subseteq named
  BY <1>1 DEF RunsAndRows, RowsOf, Keys
<1>6. Cardinality(won) <= Cardinality(named) /\ (Cardinality(named) = Cardinality(won) => named = won)
  BY <1>4, <1>5, FS_Subset
<1>7. Cardinality(named) \in Nat
  BY <1>4, FS_CardinalityType
<1>8. named = won
  BY <1>1, <1>4, <1>6, <1>7
<1>9. QED
  BY <1>1, <1>8 DEF RowsOf

\* A run is about to be called a success only when each of its guests was backed up.
EndingIsEarned ==
    pc \in {"recording", "failing"} /\ ending = "success" =>
       \A i \in DOMAIN Targets[cur] : task[<<cur, Targets[cur][i]>>] = "success"

\* What the host has backed up stays so.
LEMMA SuccessStays ==
    ASSUME IInv, [Next]_vars PROVE \A k \in Keys : task[k] = "success" => task'[k] = "success"
<1>1. ASSUME NEW k \in Keys, AgentAccept(k)
      PROVE  \A l \in Keys : task[l] = "success" => task'[l] = "success"
  BY <1>1 DEF AgentAccept, IInv, TypeOK, RequestsAccounted
<1>2. QED
  BY <1>1, Effects DEF Effect, AgentRefuse, Concludes, OpenRow, SendStart, SaveTaskId,
     DeleteArchive, agentVars

\* The status of a run is decided in one step, from its rows.
LEMMA DecisionStep ==
    ASSUME IInv, QueueInv, Counted, EndingIsEarned, [Next]_vars PROVE EndingIsEarned'
<1>t. TypeOK /\ \A r \in Runs : \A i \in DOMAIN Targets[r] : <<r, Targets[r][i]>> \in Keys
  BY PlanType DEF IInv
<1>1. CASE FinaliseRun
  <2>1. cur \in Runs /\ UNCHANGED <<cur, task>> /\ (ending' = "success" => Summary(cur) = "success")
    BY <1>t, <1>1 DEF FinaliseRun, Decide, FinalStatus, agentVars, TypeOK, Busy
  <2>2. ASSUME ending' = "success", NEW i \in DOMAIN Targets[cur]
        PROVE  task[<<cur, Targets[cur][i]>>] = "success"
    <3>1. Cardinality(RowsOf(cur, {"success"})) = Len(Targets[cur])
      BY <2>1, <2>2 DEF Summary
    <3>2. IsFiniteSet(RowsOf(cur, {"success"}))
      <4>1. RowsOf(cur, {"success"}) \subseteq RowsOf(cur, Won) /\ IsFiniteSet(RowsOf(cur, Won))
        BY <2>1 DEF RowsOf, Won, Counted
      <4>2. QED
        BY <4>1, FS_Subset
    <3>3. row[<<cur, Targets[cur][i]>>] = "success"
      BY <2>1, <3>1, <3>2, AllWon DEF QueueInv
    <3>4. QED
      BY <1>t, <2>1, <2>2, <3>3 DEF IInv, VerdictIsHonest, Won
  <2>3. QED
    BY <2>1, <2>2 DEF EndingIsEarned
<1>2. CASE FinaliseError
  BY <1>2 DEF FinaliseError, Decide, FinalStatus, EndingIsEarned
<1>3. CASE UNCHANGED <<pc, cur, ending>>
  <2>1. pc \in {"recording", "failing"} => cur \in Runs
    BY <1>t DEF TypeOK, Busy
  <2>2. QED
    BY <1>t, <1>3, <2>1, SuccessStays DEF EndingIsEarned
<1>4. CASE pc' \notin {"recording", "failing"}
  BY <1>4 DEF EndingIsEarned
<1>5. CASE Api \/ Agent \/ Stop \/ UNCHANGED vars
  BY <1>3, <1>5 DEF Api, RequestRun, CancelRead, CancelQueued, CancelRunning, Agent,
     AgentAccept, AgentRefuse, AgentFinish, AgentRestart, Stop, vars, planVars
<1>6. CASE Deletions
  BY <1>t, <1>3, <1>6, DeletesOnly DEF planVars
<1>7. CASE Boot \/ Exit \/ Crash \/ ClaimError \/ RunError \/ WorkerDies \/ Recover
  BY <1>4, <1>7 DEF Boot, Exit, Crash, Memory, ClaimError, RunError, WorkerDies, Recover,
     RecoverUnconfirmed, RecoverTask, RecoverDeferred, NextScan, RequeueRuns
<1>8. CASE Executor /\ ~FinaliseRun /\ ~FinaliseError
  BY <1>4, <1>8 DEF Executor, ClaimRead, ClaimWrite, LoadPlan, StopBetweenGuests,
     CancelBetweenGuests, SkipGuest, NextGuest, EndOfLoop, LoopTo, AdoptRow, OpenRow,
     SendStart, StartFails, StartAccepted, SaveTaskId, PollTerminal, PollGivesUp,
     PollStopped, NextPos, FinaliseCommit, Leave
<1>9. QED
  BY <1>1, <1>2, <1>5, <1>6, <1>7, <1>8 DEF Next, Failure

\* A run is called a success only when each guest is, and stays one.
LEMMA CompleteStep ==
    ASSUME IInv, QueueInv, EndingIsEarned, SuccessIsComplete, [Next]_vars
    PROVE  SuccessIsComplete'
<1>t. TypeOK /\ run \in [Runs -> {"none"} \cup RunActive \cup RunTerminal]
  BY DEF IInv, TypeOK
<1>2. \A r \in Runs : \A i \in DOMAIN Targets[r] : <<r, Targets[r][i]>> \in Keys
  BY PlanType
<1>3. ASSUME NEW r \in Runs, run'[r] = "success", NEW i \in DOMAIN Targets[r]
      PROVE  task[<<r, Targets[r][i]>>] = "success"
  <2>1. CASE run[r] = "success"
    BY <2>1 DEF SuccessIsComplete
  <2>2. CASE run[r] # "success" /\ FinaliseCommit
    <3>1. r = cur /\ ending = "success" /\ pc \in {"recording", "failing"}
      BY <1>t, <1>3, <2>2 DEF FinaliseCommit
    <3>2. QED
      BY <3>1 DEF EndingIsEarned
  <2>4. CASE UNCHANGED run
    BY <1>3, <2>1, <2>4
  <2>5. CASE \/ \E q \in Runs : RequestRun(q)
             \/ CancelQueued \/ RequeueRuns \/ ClaimWrite
    BY <1>t, <1>3, <2>1, <2>5 DEF RequestRun, CancelQueued, RequeueRuns, ClaimWrite
  <2>7. QED
    BY <1>t, <2>1, <2>2, <2>4, <2>5, RunEffects DEF RunEffect
<1>4. QED
  BY <1>2, <1>3, SuccessStays DEF SuccessIsComplete

\* What a run says of itself agrees with its rows and with the host: each row is
\* counted once, and a success has an archive for each of its guests.
THEOREM AddsUp == Spec => []RunAddsUp
<1>1. Init => Counted /\ SuccessIsComplete /\ EndingIsEarned
  <2>1. ASSUME Init, NEW r \in Runs
        PROVE  RowsOf(r, Won) = {} /\ RowsOf(r, Closed \ Won) = {}
    BY <2>1 DEF Init, RowsOf, Terminal, Closed, Won, Keys
  <2>2. ASSUME Init PROVE Counted
    BY <2>1, <2>2, FS_EmptySet DEF Init, Counted
  <2>3. ASSUME Init PROVE SuccessIsComplete
    BY <2>3 DEF Init, SuccessIsComplete
  <2>4. Init => EndingIsEarned
    BY DEF Init, EndingIsEarned
  <2>5. QED
    BY <2>2, <2>3, <2>4
<1>2. IInv /\ QueueInv /\ Counted /\ EndingIsEarned /\ SuccessIsComplete /\ [Next]_vars
      => Counted' /\ EndingIsEarned' /\ SuccessIsComplete'
  BY CountedStep, DecisionStep, CompleteStep
<1>3. Counted /\ SuccessIsComplete => RunAddsUp
  BY DEF Counted, RunAddsUp, CountersMatchRows
<1>4. QED
  BY <1>1, <1>2, <1>3, Invariance, QueueInvariance, PTL DEF Spec

=============================================================================
