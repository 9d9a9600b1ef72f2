---------------------------- MODULE RestoreProofs ----------------------------
(***************************************************************************)
(* Theorems about RestoreFlow, for every set of restores and backups and   *)
(* every budget of faults; and, in the second half, about RestoreTarget,   *)
(* for every set of restores and every budget of what the operator, the    *)
(* disk and the network do.                                                *)
(***************************************************************************)
EXTENDS RestoreFlow, RestoreTarget, FiniteSetTheorems, SequenceTheorems, TLAPS

\* The three parts of the type invariant: what the rows say, what the host does,
\* and what the dashboard process remembers.
RowsType ==
    /\ row \in [Restores -> Statuses] /\ source \in [Restores -> Places]
    /\ ref \subseteq Restores /\ late \subseteq Restores
    /\ gone \subseteq Backups \X Places

HostType ==
    /\ copies \in [Backups -> SUBSET Places]
    /\ fetch \in [Restores -> Requests] /\ job \in [Restores -> Requests]
    /\ pruned \subseteq Restores /\ kill \subseteq Restores
    /\ rebuilds \in [Restores -> Nat]
    /\ strays \in [Backups \X Places -> Nat] /\ struck \subseteq Backups \X Places

WorkerType ==
    /\ pc \in {"down", "recover", "loop", "claim", "claiming", "erring", "dead"}
             \cup Executing
    /\ cur \in Restores \cup {None} /\ resume \in Seq(Restores)
    /\ currentTask \in Restores \cup {None}
    /\ pc \in Executing \cup {"claiming", "erring"} => cur \in Restores
    /\ pc = "polling" => currentTask = cur

LanesType ==
    /\ stopping \in BOOLEAN
    /\ api \in {None} \cup [op : {"create", "confirm", "cancel"},
                             id : Restores, place : Places]
    /\ deletion \in {None} \cup [backup : Backups, place : Places,
                                  deleted : BOOLEAN]
    /\ left \in [Events -> Nat]

LEMMA TypeParts ==
    /\ TypeOK <=> RowsType /\ HostType /\ WorkerType /\ LanesType
    /\ TypeOK' <=> RowsType' /\ HostType' /\ WorkerType' /\ LanesType'
  BY DEF TypeOK, RowsType, HostType, WorkerType, LanesType

LEMMA TypeInit == Init => TypeOK
<1> SUFFICES ASSUME Init PROVE RowsType /\ HostType /\ WorkerType /\ LanesType
  BY TypeParts
<1>1. RowsType
  BY DEF Init, RowsType, Statuses, Places
<1>2. HostType
  BY DEF Init, HostType, Requests
<1>3. WorkerType
  BY DEF Init, WorkerType, Executing
<1>4. LanesType
  BY BudgetAssumption DEF Init, LanesType
<1>5. QED
  BY <1>1, <1>2, <1>3, <1>4

\* What each action leaves alone keeps its type; what it changes is below.
LEMMA SpendType == ASSUME TypeOK, NEW f \in Events, Spend(f) PROVE left' \in [Events -> Nat]
  BY DEF TypeOK, Spend

\* A preflight names places.
LEMMA AvailableType == \A r \in Restores : Preflight(r) \subseteq Places
  BY DEF Preflight, Available, Places

\* A handler between its checks and its commit.
LEMMA HandleType ==
    ASSUME TypeOK, NEW op \in {"create", "confirm", "cancel"}, NEW r \in Restores,
           NEW place \in Places, Handle(op, r, place), left' \in [Events -> Nat]
    PROVE  TypeOK'
<1>t. RowsType /\ HostType /\ WorkerType /\ LanesType
  BY TypeParts
<1>1. RowsType'
  BY <1>t DEF Handle, RowsType, dbVars
<1>2. HostType'
  BY <1>t DEF Handle, HostType, agentVars
<1>3. WorkerType'
  BY <1>t DEF Handle, WorkerType, workVars
<1>4. LanesType'
  BY <1>t DEF Handle, LanesType
<1>5. QED
  BY <1>1, <1>2, <1>3, <1>4, TypeParts

LEMMA CommitType ==
    ASSUME TypeOK, CreateCommit \/ ConfirmCommit \/ CancelCommit
    PROVE  TypeOK'
<1>t. RowsType /\ HostType /\ WorkerType /\ LanesType
  BY TypeParts
<1>1. api \in [op : {"create", "confirm", "cancel"}, id : Restores, place : Places]
  BY <1>t DEF CreateCommit, ConfirmCommit, CancelCommit, Commit, LanesType
<1>2. api.id \in Restores /\ api.place \in Places
  BY <1>1
<1>3. RowsType'
  BY <1>t, <1>2 DEF CreateCommit, ConfirmCommit, CancelCommit, Commit, RowsType,
     Statuses, Terminal, TaskEnds
<1>4. HostType'
  BY <1>t DEF CreateCommit, ConfirmCommit, CancelCommit, Commit, HostType, agentVars
<1>5. WorkerType'
  BY <1>t DEF CreateCommit, ConfirmCommit, CancelCommit, Commit, WorkerType, workVars
<1>6. LanesType'
  BY <1>t DEF CreateCommit, ConfirmCommit, CancelCommit, Commit, LanesType
<1>7. QED
  BY <1>3, <1>4, <1>5, <1>6, TypeParts

\* A deletion that nobody waits for any more is counted as a stray.
LEMMA AbandonedType == ASSUME TypeOK PROVE Abandoned \in [Backups \X Places -> Nat]
<1>1. /\ strays \in [Backups \X Places -> Nat]
      /\ deletion # None => deletion \in [backup : Backups, place : Places,
                                            deleted : BOOLEAN]
  BY DEF TypeOK
<1>2. deletion # None => <<deletion.backup, deletion.place>> \in Backups \X Places
  BY <1>1
<1>3. QED
  BY <1>1, <1>2 DEF Abandoned

LEMMA DeleteType == ASSUME TypeOK, Delete PROVE TypeOK'
<1>t. RowsType /\ HostType /\ WorkerType /\ LanesType
  BY TypeParts
<1>1. ASSUME NEW b \in Backups, NEW place \in Places, DeleteBegin(b, place)
      PROVE  TypeOK'
  <2>1. RowsType' /\ HostType'
    BY <1>t, <1>1 DEF DeleteBegin, RowsType, HostType, dbVars, agentVars
  <2>2. WorkerType'
    BY <1>t, <1>1 DEF DeleteBegin, WorkerType, workVars
  <2>3. LanesType'
    BY <1>t, <1>1 DEF DeleteBegin, LanesType
  <2>4. QED
    BY <2>1, <2>2, <2>3, TypeParts
<1>2. ASSUME deletion # None, DeleteFile \/ DeleteRecord \/ DeleteFails \/ DeleteTimesOut
      PROVE  TypeOK'
  <2>1. deletion \in [backup : Backups, place : Places, deleted : BOOLEAN]
    BY <1>t, <1>2 DEF LanesType
  <2>2. deletion.backup \in Backups /\ deletion.place \in Places
    BY <2>1
  <2>3. RowsType'
    BY <1>t, <1>2, <2>2 DEF DeleteFile, DeleteRecord, DeleteFails, DeleteTimesOut, RowsType, dbVars
  <2>4. HostType'
    <3>1. <<deletion.backup, deletion.place>> \in Backups \X Places
      BY <2>2
    <3>2. CASE DeleteTimesOut
      BY <1>t, <3>1, <3>2, AbandonedType DEF DeleteTimesOut, HostType
    <3>3. QED
      BY <1>t, <1>2, <2>2, <3>2 DEF DeleteFile, DeleteRecord, DeleteFails, HostType, agentVars
  <2>5. WorkerType'
    BY <1>t, <1>2 DEF DeleteFile, DeleteRecord, DeleteFails, DeleteTimesOut, WorkerType, workVars
  <2>6. LanesType'
    <3>1. CASE DeleteTimesOut
      BY <1>t, <3>1, SpendType DEF DeleteTimesOut, Events, LanesType
    <3>2. QED
      BY <1>t, <1>2, <2>1, <3>1 DEF DeleteFile, DeleteRecord, DeleteFails, LanesType
  <2>7. QED
    BY <2>3, <2>4, <2>5, <2>6, TypeParts
<1>3. QED
  BY <1>1, <1>2 DEF Delete, DeleteFile, DeleteRecord, DeleteFails, DeleteTimesOut

\* The agent touches only what is on its host.
LEMMA AgentType == ASSUME TypeOK, Agent PROVE TypeOK'
<1>t. RowsType /\ HostType /\ WorkerType /\ LanesType
  BY TypeParts
<1> DEFINE Ends == {"success", "failed", "cancelled"}
<1>1. ASSUME NEW r \in Restores,
             \/ RestoreAccept(r) \/ RestoreRefuse(r) \/ DownloadAccept(r)
             \/ DownloadRefuse(r)
             \/ \E state \in Ends : RestoreFinish(r, state) \/ DownloadFinish(r, state)
      PROVE  TypeOK'
  <2>1. AgentStep
    BY <1>1 DEF RestoreAccept, RestoreRefuse, RestoreFinish, DownloadAccept,
       DownloadRefuse, DownloadFinish
  <2>2. RowsType' /\ kill' \subseteq Restores
    BY <1>t, <2>1 DEF AgentStep, RowsType, HostType, dbVars
  <2>3. WorkerType'
    BY <1>t, <2>1 DEF AgentStep, WorkerType, workVars
  <2>4. LanesType'
    BY <1>t, <2>1 DEF AgentStep, LanesType
  <2>5. job' \in [Restores -> Requests] /\ fetch' \in [Restores -> Requests]
    BY <1>t, <1>1 DEF RestoreAccept, RestoreRefuse, RestoreFinish, DownloadAccept,
       DownloadRefuse, DownloadFinish, SetJob, SetFetch, HostType, Requests, TaskEnds
  <2>6. rebuilds' \in [Restores -> Nat] /\ pruned' \subseteq Restores
    BY <1>t, <1>1 DEF RestoreAccept, RestoreRefuse, RestoreFinish, DownloadAccept,
       DownloadRefuse, DownloadFinish, SetJob, SetFetch, HostType
  <2>9. strays' \in [Backups \X Places -> Nat] /\ struck' \subseteq Backups \X Places
    BY <1>t, <1>1, <2>1 DEF RestoreAccept, RestoreRefuse, RestoreFinish, DownloadAccept,
       DownloadRefuse, DownloadFinish, AgentStep, HostType
  <2>7. copies' \in [Backups -> SUBSET Places]
    <3>1. "host" \in Places
      BY DEF Places
    <3>2. CASE \E state \in Ends : DownloadFinish(r, state)
      BY <1>t, <3>1, <3>2, SourceAssumption DEF DownloadFinish, HostType
    <3>3. CASE UNCHANGED copies
      BY <1>t, <3>3 DEF HostType
    <3>4. QED
      BY <1>1, <3>2, <3>3 DEF RestoreAccept, RestoreRefuse, RestoreFinish,
         DownloadAccept, DownloadRefuse
  <2>8. QED
    BY <2>2, <2>3, <2>4, <2>5, <2>6, <2>7, <2>9, TypeParts DEF HostType
<1>2. ASSUME NEW lost \in SUBSET Restores, AgentRestart(lost) PROVE TypeOK'
  <2>1. RowsType'
    BY <1>t, <1>2 DEF AgentRestart, StrayDeletes, StrayFails, StrayEnds, RowsType, dbVars
  <2>2. WorkerType'
    BY <1>t, <1>2 DEF AgentRestart, StrayDeletes, StrayFails, StrayEnds, WorkerType, workVars
  <2>3. LanesType'
    <3>1. left' \in [Events -> Nat]
      BY <1>2, SpendType DEF AgentRestart, StrayDeletes, StrayFails, StrayEnds, Events
    <3>2. QED
      BY <1>t, <1>2, <3>1 DEF AgentRestart, StrayDeletes, StrayFails, StrayEnds, LanesType
  <2>4. HostType'
    BY <1>t, <1>2 DEF AgentRestart, StrayDeletes, StrayFails, StrayEnds, HostType, Requests,
       TaskEnds
  <2>5. QED
    BY <2>1, <2>2, <2>3, <2>4, TypeParts
<1>4. ASSUME NEW k \in Backups \X Places, StrayDeletes(k) \/ StrayFails(k) PROVE TypeOK'
  <2>1. StrayEnds(k) /\ RowsType'
    BY <1>t, <1>4 DEF StrayDeletes, StrayFails, StrayEnds, RowsType, dbVars
  <2>2. WorkerType' /\ LanesType'
    BY <1>t, <2>1 DEF StrayEnds, WorkerType, LanesType, workVars
  <2>3. strays' \in [Backups \X Places -> Nat]
    BY <1>t, <2>1 DEF StrayEnds, HostType
  <2>4. copies' \in [Backups -> SUBSET Places] /\ struck' \subseteq Backups \X Places
    <3>1. k[1] \in Backups
      OBVIOUS
    <3>2. QED
      BY <1>t, <1>4, <3>1 DEF StrayDeletes, StrayFails, HostType
  <2>5. HostType'
    BY <1>t, <2>1, <2>3, <2>4 DEF StrayEnds, HostType
  <2>6. QED
    BY <2>1, <2>2, <2>5, TypeParts
<1>3. QED
  BY <1>1, <1>2, <1>4 DEF Agent, AgentEnds

\* The process: start, crash, shutdown and recovery.
LEMMA MemoryType ==
    ASSUME TypeOK, NEW w \in {"down", "recover"}, Memory(w), left' \in [Events -> Nat]
    PROVE  TypeOK'
<1>t. RowsType /\ HostType
  BY TypeParts
<1>1. RowsType'
  BY <1>t DEF Memory, RowsType, dbVars
<1>2. HostType'
  BY <1>t, AbandonedType DEF Memory, HostType
<1>3. WorkerType'
  BY DEF Memory, WorkerType, Executing
<1>4. LanesType'
  BY DEF Memory, LanesType
<1>5. QED
  BY <1>1, <1>2, <1>3, <1>4, TypeParts

\* Closing a row with a verdict.
LEMMA CloseType ==
    ASSUME RowsType, NEW r \in Restores, NEW v \in Statuses, Close(r, v)
    PROVE  RowsType'
  BY DEF RowsType, Close

LEMMA LeaveType == ASSUME WorkerType, Leave PROVE WorkerType'
  BY DEF WorkerType, Leave, Executing

LEMMA CloseCurType ==
    ASSUME TypeOK, cur \in Restores, NEW v \in Statuses, CloseCur(v),
           left' \in [Events -> Nat]
    PROVE  TypeOK'
<1>t. RowsType /\ HostType /\ WorkerType /\ LanesType
  BY TypeParts
<1>1. RowsType' /\ WorkerType'
  BY <1>t, CloseType, LeaveType DEF CloseCur
<1>2. HostType'
  BY <1>t DEF CloseCur, HostType, agentVars
<1>3. LanesType'
  BY <1>t DEF CloseCur, WorkerStep, LanesType
<1>4. QED
  BY <1>1, <1>2, <1>3, TypeParts

LEMMA ProcessType == ASSUME TypeOK, Boot \/ Exit \/ Crash \/ Stop \/ Recover PROVE TypeOK'
<1>t. RowsType /\ HostType /\ WorkerType /\ LanesType
  BY TypeParts
<1>1. CASE Boot \/ Exit
  BY <1>t, <1>1, MemoryType DEF Boot, Exit, LanesType
<1>2. CASE Crash
  BY <1>2, MemoryType, SpendType DEF Crash, Events
<1>3. CASE Stop
  <2>1. RowsType' /\ HostType'
    BY <1>t, <1>3 DEF Stop, RowsType, HostType, dbVars, agentVars
  <2>2. WorkerType'
    BY <1>t, <1>3 DEF Stop, WorkerType, workVars
  <2>3. left' \in [Events -> Nat]
    BY <1>3, SpendType DEF Stop, Events
  <2>4. LanesType'
    BY <1>t, <1>3, <2>3 DEF Stop, LanesType
  <2>5. QED
    BY <2>1, <2>2, <2>4, TypeParts
<1>4. ASSUME NEW r \in Restores, RecoverOrphan(r) PROVE TypeOK'
  <2>1. RowsType'
    BY <1>t, <1>4, CloseType DEF RecoverOrphan, OrphanVerdict, Statuses, Terminal, TaskEnds
  <2>2. HostType'
    BY <1>t, <1>4 DEF RecoverOrphan, HostType, agentVars
  <2>3. WorkerType'
    BY <1>t, <1>4 DEF RecoverOrphan, WorkerType, workVars
  <2>4. LanesType'
    BY <1>t, <1>4 DEF RecoverOrphan, LanesType
  <2>5. QED
    BY <2>1, <2>2, <2>3, <2>4, TypeParts
<1>5. CASE Recovered
  <2>1. RowsType' /\ HostType'
    BY <1>t, <1>5 DEF Recovered, RowsType, HostType, dbVars, agentVars
  <2>2. LanesType'
    BY <1>t, <1>5 DEF Recovered, LanesType
  <2>3. resume' \in Seq(Restores)
    <3>1. Adoptable \subseteq Restores
      BY DEF Adoptable, Running
    <3>2. PICK n \in 0..Cardinality(Adoptable) : resume' \in [1..n -> Adoptable]
      BY <1>5 DEF Recovered, InOrder
    <3>3. n \in Nat
      BY <3>2
    <3>4. resume' \in [1..n -> Restores]
      BY <3>1, <3>2
    <3>5. QED
      BY <3>3, <3>4, SeqDef
  <2>4. WorkerType'
    BY <1>t, <1>5, <2>3 DEF Recovered, WorkerType, Executing
  <2>5. QED
    BY <2>1, <2>2, <2>4, TypeParts
<1>6. QED
  BY <1>1, <1>2, <1>3, <1>4, <1>5 DEF Recover

\* The worker.
LEMMA GotoType ==
    ASSUME TypeOK, NEW w \in {"loop", "claim", "erring"} \cup Executing, Goto(w),
           w # "polling", w \in Executing \cup {"erring"} => cur \in Restores
    PROVE  WorkerType'
  BY DEF TypeOK, WorkerType, Goto, Executing

LEMMA WorkerTypeNext == ASSUME TypeOK, Worker PROVE TypeOK'
<1>t. RowsType /\ HostType /\ WorkerType /\ LanesType
  BY TypeParts
<1>h. pc \in Executing \cup {"claiming", "erring"} => cur \in Restores
  BY <1>t DEF WorkerType
<1>1. CASE Expire \/ ClaimNone \/ StartDownload \/ DownloadAccepted \/ DownloadDone
           \/ MarkLocalCopyPresent \/ StartRestore \/ StartAccepted \/ ClaimWrite
  <2> USE DEF Expire, ClaimNone, StartDownload, DownloadAccepted, DownloadDone,
          MarkLocalCopyPresent, StartRestore, StartAccepted, ClaimWrite
  <2>1. PICK w \in {"loop", "claim"} \cup Executing :
             Goto(w) /\ w # "polling" /\ (w \in Executing => cur \in Restores)
    BY <1>1, <1>h DEF Executing
  <2>2. WorkerType'
    BY <2>1, GotoType DEF Executing
  <2>3. LanesType'
    BY <1>t, <1>1 DEF WorkerStep, LanesType
  <2>4. HostType'
    <3>1. CASE StartDownload \/ StartRestore
      BY <1>t, <3>1 DEF SetJob, SetFetch, HostType, Requests
    <3>2. CASE UNCHANGED agentVars
      BY <1>t, <3>2 DEF HostType, agentVars
    <3>3. QED
      BY <1>1, <3>1, <3>2
  <2>5. RowsType'
    <3>1. CASE ClaimWrite
      BY <1>t, <1>h, <3>1, CloseType DEF Statuses
    <3>2. CASE Expire
      BY <1>t, <3>2 DEF RowsType, Statuses, Terminal
    <3>3. CASE MarkLocalCopyPresent
      BY <1>t, <3>3 DEF RowsType
    <3>4. CASE UNCHANGED dbVars
      BY <1>t, <3>4 DEF RowsType, dbVars
    <3>5. QED
      BY <1>1, <3>1, <3>2, <3>3, <3>4
  <2>6. QED
    BY <2>2, <2>3, <2>4, <2>5, TypeParts
<1>2. CASE Adopt \/ (\E r \in Restores : ClaimRead(r))
  <2>1. RowsType' /\ HostType'
    BY <1>t, <1>2 DEF Adopt, ClaimRead, RowsType, HostType, dbVars, agentVars
  <2>2. LanesType'
    BY <1>t, <1>2 DEF Adopt, ClaimRead, WorkerStep, LanesType
  <2>3. WorkerType'
    <3>1. CASE Adopt
      <4>1. Head(resume) \in Restores /\ Tail(resume) \in Seq(Restores)
        BY <1>t, <3>1, HeadTailProperties DEF Adopt, WorkerType
      <4>2. QED
        BY <1>t, <3>1, <4>1 DEF Adopt, WorkerType, Executing
    <3>2. CASE \E r \in Restores : ClaimRead(r)
      BY <1>t, <3>2 DEF ClaimRead, WorkerType, Executing
    <3>3. QED
      BY <1>2, <3>1, <3>2
  <2>4. QED
    BY <2>1, <2>2, <2>3, TypeParts
<1>3. CASE AttachTask
  <2>1. cur \in Restores
    BY <1>h, <1>3 DEF AttachTask, Executing
  <2>2. RowsType' /\ HostType'
    BY <1>t, <1>3, <2>1 DEF AttachTask, RowsType, HostType, agentVars
  <2>3. WorkerType'
    BY <1>t, <1>3, <2>1 DEF AttachTask, WorkerType, Executing
  <2>4. LanesType'
    BY <1>t, <1>3 DEF AttachTask, WorkerStep, LanesType
  <2>5. QED
    BY <2>2, <2>3, <2>4, TypeParts
<1>4. CASE DownloadNotStarted \/ DownloadFailed \/ StartRefused \/ StartUnreachable
           \/ RecordOutcome \/ PollGivesUp \/ CloseAfterError
  <2> USE DEF DownloadNotStarted, DownloadFailed, StartRefused, StartUnreachable,
          RecordOutcome, PollGivesUp, CloseAfterError
  <2>1. PICK v \in Statuses : CloseCur(v)
    BY <1>4 DEF UnreachableVerdict, Statuses, Terminal, TaskEnds
  <2>2. cur \in Restores
    BY <1>4, <1>h DEF Executing
  <2>3. left' \in [Events -> Nat]
    BY <1>4, <1>t, SpendType DEF LanesType, Events
  <2>4. QED
    BY <2>1, <2>2, <2>3, CloseCurType
<1>5. CASE PollStopped
  <2>1. RowsType' /\ HostType'
    BY <1>t, <1>5 DEF PollStopped, RowsType, HostType, dbVars, agentVars
  <2>2. WorkerType'
    BY <1>t, <1>5, LeaveType DEF PollStopped
  <2>3. LanesType'
    BY <1>t, <1>5 DEF PollStopped, WorkerStep, LanesType
  <2>4. QED
    BY <2>1, <2>2, <2>3, TypeParts
<1>6. QED
  BY <1>1, <1>2, <1>3, <1>4, <1>5 DEF Worker

LEMMA ErrorType == ASSUME TypeOK, ClaimError \/ WorkError \/ WorkerDies PROVE TypeOK'
<1>t. RowsType /\ HostType /\ WorkerType /\ LanesType
  BY TypeParts
<1>1. RowsType' /\ HostType'
  BY <1>t DEF ClaimError, WorkError, WorkerDies, RowsType, HostType, dbVars, agentVars
<1>2. left' \in [Events -> Nat]
  BY SpendType DEF ClaimError, WorkError, WorkerDies, Events
<1>3. LanesType'
  BY <1>t, <1>2 DEF ClaimError, WorkError, WorkerDies, WorkerStep, LanesType
<1>4. CASE ClaimError
  BY <1>t, <1>1, <1>3, <1>4, LeaveType, TypeParts DEF ClaimError
<1>5. CASE WorkError
  <2>1. cur \in Restores
    BY <1>t, <1>5 DEF WorkError, WorkerType
  <2>2. WorkerType'
    BY <1>5, <2>1, GotoType DEF WorkError
  <2>3. QED
    BY <1>1, <1>3, <2>2, TypeParts
<1>6. CASE WorkerDies
  <2>1. WorkerType'
    BY <1>t, <1>6 DEF WorkerDies, WorkerType, Executing
  <2>2. QED
    BY <1>1, <1>3, <2>1, TypeParts
<1>7. QED
  BY <1>4, <1>5, <1>6

LEMMA TypeNext == TypeOK /\ [Next]_vars => TypeOK'
<1> SUFFICES ASSUME TypeOK, [Next]_vars PROVE TypeOK'
  OBVIOUS
<1>1. CASE Api
  <2>1. ASSUME NEW op \in {"create", "confirm", "cancel"}, NEW r \in Restores,
               NEW place \in Places, Handle(op, r, place),
               left' \in [Events -> Nat]
        PROVE  TypeOK'
    BY <2>1, HandleType
  <2>2. ASSUME NEW r \in Restores, CancelRunning(r) PROVE TypeOK'
    <3>1. RowsType' /\ HostType'
      BY <2>2, TypeParts DEF CancelRunning, RowsType, HostType, dbVars
    <3>2. WorkerType'
      BY <2>2, TypeParts DEF CancelRunning, WorkerType, workVars
    <3>3. LanesType'
      BY <2>2, TypeParts DEF CancelRunning, LanesType
    <3>4. QED
      BY <3>1, <3>2, <3>3, TypeParts
  <2>3. ASSUME NEW r \in Restores, CreateBegin(r) \/ ConfirmBegin(r) \/ CancelBegin(r)
        PROVE  TypeOK'
    <3>1. left' \in [Events -> Nat]
      BY <2>3, SpendType, TypeParts DEF CreateBegin, ConfirmBegin, CancelBegin, LanesType, Events
    <3>2. QED
      BY <2>1, <2>3, <3>1, AvailableType DEF CreateBegin, ConfirmBegin, CancelBegin, Places
  <2>4. QED
    BY <1>1, <2>2, <2>3, CommitType DEF Api
<1>2. ASSUME NEW r \in Restores, Elapse(r) PROVE TypeOK'
  <2>1. RowsType' /\ HostType'
    BY <1>2, TypeParts DEF Elapse, RowsType, HostType, agentVars
  <2>2. WorkerType'
    BY <1>2, TypeParts DEF Elapse, WorkerType, workVars
  <2>3. LanesType'
    BY <1>2, TypeParts DEF Elapse, LanesType
  <2>4. QED
    BY <2>1, <2>2, <2>3, TypeParts
<1>3. CASE UNCHANGED vars
  <2>1. RowsType' /\ HostType'
    BY <1>3, TypeParts DEF vars, RowsType, HostType, dbVars, agentVars
  <2>2. WorkerType'
    BY <1>3, TypeParts DEF vars, WorkerType, workVars
  <2>3. LanesType'
    BY <1>3, TypeParts DEF vars, LanesType
  <2>4. QED
    BY <2>1, <2>2, <2>3, TypeParts
<1>4. QED
  BY <1>1, <1>2, <1>3, DeleteType, AgentType, ProcessType, WorkerTypeNext, ErrorType
     DEF Next, Failure

\* Every variable keeps its type, and the worker's registers agree with its place.
THEOREM TypeCorrect == Spec => []TypeOK
  BY TypeInit, TypeNext, PTL DEF Spec

(***************************************************************************)
(* What a step can do to the rows and to the host                          *)
(***************************************************************************)
\* The worker gives the restore in hand a verdict that the host bears out.
Concludes(v) ==
    /\ pc \in Executing \cup {"erring"} /\ cur \in Restores
    /\ CloseCur(v)
    /\ v \in {"success", "cancelled"} => job[cur] = v
    /\ v = "failed" => job[cur] \in {"none", "refused", "failed"}

\* Restores end on the host.
JobsEnd ==
    /\ job' \in [Restores -> Requests]
    /\ \A r \in Restores : job'[r] # job[r] => job[r] = "running" /\ job'[r] \in TaskEnds
    /\ UNCHANGED <<dbVars, copies, rebuilds, workVars, api, deletion>>

Effect ==
    \/ UNCHANGED <<row, source, job, rebuilds>>
    \/ CreateCommit \/ ConfirmCommit \/ CancelCommit \/ Expire \/ ClaimWrite
    \/ StartRestore \/ JobsEnd
    \/ \E r \in Restores : RecoverOrphan(r) \/ RestoreAccept(r) \/ RestoreRefuse(r)
    \/ \E v \in TaskEnds : Concludes(v)

\* Every step has one of these effects.
LEMMA FlowEffects == ASSUME IInv, [Next]_vars PROVE Effect
<1>t. /\ job \in [Restores -> Requests]
      /\ pc \in Executing \cup {"claiming", "erring"} => cur \in Restores
  BY DEF IInv, TypeOK
<1>h. pc \in {"loaded", "fetching", "fetchpoll", "marking", "start"} => job[cur] = "none"
  BY DEF IInv, RestoreInHand
<1>1. CASE Api
  BY <1>1 DEF Api, CreateBegin, ConfirmBegin, CancelBegin, CancelRunning, Handle,
     Effect, dbVars, agentVars
<1>2. CASE Delete \/ \E r \in Restores : Elapse(r)
  BY <1>2 DEF Delete, DeleteBegin, DeleteFile, DeleteRecord, DeleteFails, DeleteTimesOut, Elapse,
     Effect, dbVars, agentVars
<1>3. CASE Agent
  <2>1. ASSUME NEW r \in Restores, NEW s \in {"success", "failed", "cancelled"},
               RestoreFinish(r, s)
        PROVE  JobsEnd
    BY <2>1, <1>t DEF RestoreFinish, SetJob, AgentStep, JobsEnd, Requests, TaskEnds, dbVars,
       workVars
  <2>2. ASSUME NEW lost \in SUBSET Restores, AgentRestart(lost) PROVE JobsEnd
    BY <2>2, <1>t DEF AgentRestart, StrayDeletes, StrayFails, StrayEnds, JobsEnd, Requests,
       TaskEnds, dbVars, workVars
  <2>3. ASSUME NEW r \in Restores,
               \/ DownloadAccept(r) \/ DownloadRefuse(r)
               \/ \E s \in {"success", "failed"} : DownloadFinish(r, s)
        PROVE  UNCHANGED <<row, source, job, rebuilds>>
    BY <2>3 DEF DownloadAccept, DownloadRefuse, DownloadFinish, SetFetch, AgentStep, dbVars
  <2>5. ASSUME NEW k \in Backups \X Places, StrayDeletes(k) \/ StrayFails(k)
        PROVE  UNCHANGED <<row, source, job, rebuilds>>
    BY <2>5 DEF StrayDeletes, StrayFails, StrayEnds, dbVars
  <2>4. QED
    BY <1>3, <2>1, <2>2, <2>3, <2>5 DEF Agent, AgentEnds, Effect
<1>4. CASE Boot \/ Exit \/ Crash \/ Stop
  BY <1>4 DEF Boot, Exit, Crash, Stop, Memory, Effect, dbVars, agentVars
<1>5. CASE Recover
  BY <1>5 DEF Recover, Recovered, Effect, dbVars, agentVars
<1>6. CASE Worker
  <2>1. CASE DownloadNotStarted \/ DownloadFailed \/ StartRefused \/ StartUnreachable
             \/ RecordOutcome \/ PollGivesUp \/ CloseAfterError
    <3>1. PICK v \in TaskEnds : Concludes(v)
      BY <2>1, <1>t, <1>h DEF DownloadNotStarted, DownloadFailed, StartRefused,
         StartUnreachable, RecordOutcome, PollGivesUp, CloseAfterError,
         UnreachableVerdict, Concludes, Executing, TaskEnds
    <3>2. QED
      BY <3>1 DEF Effect
  <2>2. CASE Adopt \/ (\E r \in Restores : ClaimRead(r)) \/ ClaimNone \/ StartDownload
             \/ DownloadAccepted \/ DownloadDone \/ MarkLocalCopyPresent \/ StartAccepted
             \/ AttachTask \/ PollStopped
    BY <2>2 DEF Adopt, ClaimRead, ClaimNone, StartDownload, DownloadAccepted,
       DownloadDone, MarkLocalCopyPresent, StartAccepted, AttachTask, PollStopped,
       SetFetch, Effect, dbVars, agentVars
  <2>3. QED
    BY <1>6, <2>1, <2>2 DEF Worker, Effect
<1>7. CASE ClaimError \/ WorkError \/ WorkerDies
  BY <1>7 DEF ClaimError, WorkError, WorkerDies, Effect, dbVars, agentVars
<1>8. CASE UNCHANGED vars
  BY <1>8 DEF vars, dbVars, agentVars, Effect
<1>9. QED
  BY <1>1, <1>2, <1>3, <1>4, <1>5, <1>6, <1>7, <1>8 DEF Next, Failure

\* Who moves what: the handlers, the deletions and the worker each have registers of
\* their own, which others at most clear.
LEMMA Moves ==
    ASSUME [Next]_vars
    PROVE  /\ Api \/ api' = None \/ UNCHANGED api
           /\ Delete \/ deletion' = None \/ UNCHANGED deletion
           /\ AttachTask \/ UNCHANGED ref
           /\ Recovered \/ Adopt \/ resume' = <<>> \/ UNCHANGED resume
<1>1. CASE Api
  BY <1>1 DEF Api, CreateBegin, ConfirmBegin, CancelBegin, Handle, CancelRunning,
     CreateCommit, ConfirmCommit, CancelCommit, Commit, dbVars, workVars
<1>2. CASE Delete \/ \E r \in Restores : Elapse(r)
  BY <1>2 DEF Delete, DeleteBegin, DeleteFile, DeleteRecord, DeleteFails, DeleteTimesOut, Elapse,
     dbVars,
     workVars
<1>3. CASE Agent
  BY <1>3 DEF Agent, AgentEnds, RestoreAccept, RestoreRefuse, RestoreFinish,
     DownloadAccept, DownloadRefuse, DownloadFinish, AgentRestart, StrayDeletes, StrayFails,
     StrayEnds, AgentStep, dbVars,
     workVars
<1>4. CASE Boot \/ Exit \/ Crash \/ Stop \/ Recover
  BY <1>4 DEF Boot, Exit, Crash, Stop, Memory, Recover, RecoverOrphan, Recovered, Close,
     dbVars, workVars
<1>5. CASE Worker
  BY <1>5 DEF Worker, Expire, Adopt, ClaimRead, ClaimNone, ClaimWrite, StartDownload,
     DownloadNotStarted, DownloadAccepted, DownloadDone, DownloadFailed,
     MarkLocalCopyPresent, StartRestore, StartRefused, StartUnreachable, StartAccepted,
     AttachTask, RecordOutcome, PollGivesUp, PollStopped, CloseAfterError, CloseCur,
     Close, Leave, Goto, WorkerStep, dbVars
<1>6. CASE ClaimError \/ WorkError \/ WorkerDies
  BY <1>6 DEF ClaimError, WorkError, WorkerDies, Leave, Goto, WorkerStep, dbVars
<1>7. CASE UNCHANGED vars
  BY <1>7 DEF vars, dbVars, workVars
<1>8. QED
  BY <1>1, <1>2, <1>3, <1>4, <1>5, <1>6, <1>7 DEF Next, Failure

\* The handler under way: what it found, of the row it is about to change.
LEMMA HandlingKept ==
    ASSUME IInv, CreateCommit \/ ConfirmCommit \/ CancelCommit
    PROVE  /\ api.id \in Restores /\ api.place \in Places
           /\ row[api.id] \in {"none", "pending", "confirmed"}
           /\ CreateCommit => row[api.id] = "none"
           /\ ConfirmCommit => /\ row[api.id] = "pending"
                               /\ \A r \in Restores : row[r] \notin InFlight
           /\ pc # "claiming" /\ deletion = None
<1>1. api \in [op : {"create", "confirm", "cancel"}, id : Restores, place : Places]
  BY DEF IInv, TypeOK, CreateCommit, ConfirmCommit, CancelCommit, Commit
<1>2. QED
  BY <1>1 DEF IInv, HandlerIsCurrent, CreateCommit, ConfirmCommit, CancelCommit, Commit

LEMMA RequestsStep == ASSUME IInv, [Next]_vars PROVE RequestsAccounted'
<1>t. /\ row \in [Restores -> Statuses] /\ job \in [Restores -> Requests]
      /\ rebuilds \in [Restores -> Nat] /\ RequestsAccounted /\ RowInHand
  BY DEF IInv, TypeOK
<1> USE DEF RequestsAccounted
<1>1. CASE UNCHANGED <<row, source, job, rebuilds>>
  BY <1>t, <1>1
<1>2. CASE CreateCommit \/ ConfirmCommit \/ CancelCommit
  BY <1>t, <1>2, HandlingKept DEF CreateCommit, ConfirmCommit, CancelCommit, Commit, agentVars
<1>3. CASE Expire
  BY <1>t, <1>3 DEF Expire, Expired, agentVars
<1>4. CASE ClaimWrite
  BY <1>t, <1>4 DEF ClaimWrite, Close, agentVars
<1>5. CASE StartRestore
  <2>1. row[cur] = "running" /\ job[cur] = "none" /\ cur \in Restores
    BY <1>5, <1>t DEF StartRestore, RowInHand, Executing, IInv, RestoreInHand, TypeOK
  <2>2. QED
    BY <1>t, <1>5, <2>1 DEF StartRestore, SetJob, dbVars
<1>6. CASE JobsEnd
  BY <1>t, <1>6 DEF JobsEnd, dbVars, TaskEnds
<1>7. ASSUME NEW r \in Restores, RecoverOrphan(r) PROVE RequestsAccounted'
  BY <1>t, <1>7 DEF RecoverOrphan, Orphans, Running, OrphanVerdict, Close, agentVars
<1>8. ASSUME NEW r \in Restores, RestoreAccept(r) \/ RestoreRefuse(r)
      PROVE  RequestsAccounted'
  BY <1>t, <1>8 DEF RestoreAccept, RestoreRefuse, SetJob, AgentStep, dbVars
<1>9. ASSUME NEW v \in TaskEnds, Concludes(v) PROVE RequestsAccounted'
  BY <1>t, <1>9 DEF Concludes, CloseCur, Close, RowInHand, agentVars, TaskEnds
<1>10. QED
  BY <1>1, <1>2, <1>3, <1>4, <1>5, <1>6, <1>7, <1>8, <1>9, FlowEffects DEF Effect

LEMMA InFlightStep == ASSUME IInv, [Next]_vars PROVE OneInFlight'
<1>t. row \in [Restores -> Statuses] /\ OneInFlight /\ RowInHand
  BY DEF IInv, TypeOK
<1> USE DEF OneInFlight, InFlight
<1>1. CASE UNCHANGED row
  BY <1>t, <1>1
<1>2. CASE CreateCommit \/ ConfirmCommit \/ CancelCommit
  BY <1>t, <1>2, HandlingKept DEF CreateCommit, ConfirmCommit, CancelCommit, Commit
<1>3. CASE Expire
  BY <1>t, <1>3 DEF Expire
<1>4. CASE ClaimWrite
  BY <1>t, <1>4 DEF ClaimWrite, Close, IInv, RestoreInHand, TypeOK
<1>5. ASSUME NEW r \in Restores, RecoverOrphan(r) PROVE OneInFlight'
  BY <1>t, <1>5 DEF RecoverOrphan, OrphanVerdict, Close
<1>6. ASSUME NEW v \in TaskEnds, Concludes(v) PROVE OneInFlight'
  BY <1>t, <1>6 DEF Concludes, CloseCur, Close, TaskEnds
<1>7. QED
  BY <1>1, <1>2, <1>3, <1>4, <1>5, <1>6, FlowEffects DEF Effect, StartRestore, JobsEnd,
     RestoreAccept, RestoreRefuse, AgentStep, dbVars

LEMMA KnownStep == ASSUME IInv, [Next]_vars PROVE FailedIsKnown'
<1>t. /\ row \in [Restores -> Statuses] /\ job \in [Restores -> Requests]
      /\ RequestsAccounted /\ RowInHand /\ FailedIsKnown
  BY DEF IInv, TypeOK
<1> USE DEF FailedIsKnown
<1>1. CASE UNCHANGED <<row, source, job, rebuilds>>
  BY <1>t, <1>1
<1>2. CASE CreateCommit \/ ConfirmCommit \/ CancelCommit
  BY <1>t, <1>2, HandlingKept DEF CreateCommit, ConfirmCommit, CancelCommit, Commit, agentVars
<1>3. CASE Expire
  BY <1>t, <1>3 DEF Expire, agentVars
<1>4. CASE ClaimWrite
  BY <1>t, <1>4 DEF ClaimWrite, Close, agentVars
<1>5. CASE StartRestore
  BY <1>t, <1>5 DEF StartRestore, SetJob, RowInHand, Executing, dbVars
<1>6. CASE JobsEnd
  BY <1>t, <1>6 DEF JobsEnd, dbVars, TaskEnds
<1>7. ASSUME NEW r \in Restores, RecoverOrphan(r) PROVE FailedIsKnown'
  BY <1>t, <1>7 DEF RecoverOrphan, OrphanVerdict, Close, agentVars
<1>8. ASSUME NEW r \in Restores, RestoreAccept(r) \/ RestoreRefuse(r)
      PROVE  FailedIsKnown'
  BY <1>t, <1>8 DEF RestoreAccept, RestoreRefuse, SetJob, AgentStep, dbVars,
     RequestsAccounted
<1>9. ASSUME NEW v \in TaskEnds, Concludes(v) PROVE FailedIsKnown'
  BY <1>t, <1>9 DEF Concludes, CloseCur, Close, agentVars, TaskEnds
<1>10. QED
  BY <1>1, <1>2, <1>3, <1>4, <1>5, <1>6, <1>7, <1>8, <1>9, FlowEffects DEF Effect

\* What the agent does to a copy: downloads bring it, abandoned deletions take it.
LEMMA AgentHost ==
    ASSUME TypeOK, Agent
    PROVE  \A b \in Backups :
              /\ OnHost(b) => OnHost(b)'
              /\ \A p \in copies[b] : p \in copies'[b] \/ strays[<<b, p>>] > 0
<1>t. copies \in [Backups -> SUBSET Places] /\ \A r \in Restores : Source[r] \in Backups
  BY SourceAssumption DEF TypeOK
<1>1. CASE UNCHANGED <<copies, struck>>
  BY <1>1 DEF OnHost
<1>2. ASSUME NEW r \in Restores, NEW s, DownloadFinish(r, s)
      PROVE  \A b \in Backups : (OnHost(b) => OnHost(b)') /\ copies[b] \subseteq copies'[b]
  <2>1. CASE s # "success"
    BY <1>2, <2>1 DEF DownloadFinish, OnHost
  <2>2. CASE s = "success"
    <3>1. /\ copies' = [copies EXCEPT ![Source[r]] = @ \cup {"host"}]
          /\ struck' = struck \ {<<Source[r], "host">>}
      BY <1>2, <2>2 DEF DownloadFinish
    <3>2. ASSUME NEW b \in Backups
          PROVE  copies'[b] = IF b = Source[r] THEN copies[b] \cup {"host"} ELSE copies[b]
      BY <1>t, <3>1
    <3>3. QED
      BY <3>1, <3>2 DEF OnHost
  <2>3. QED
    BY <2>1, <2>2
<1>3. ASSUME NEW k \in Backups \X Places, StrayDeletes(k)
      PROVE  \A b \in Backups :
                /\ OnHost(b) => OnHost(b)'
                /\ \A p \in copies[b] : p \in copies'[b] \/ strays[<<b, p>>] > 0
  <2>1. PICK c \in Backups, place \in Places : k = <<c, place>>
    OBVIOUS
  <2>2. /\ strays[<<c, place>>] > 0 /\ struck' = struck \cup {<<c, place>>}
        /\ copies' = [copies EXCEPT ![c] = @ \ {place}]
    BY <1>3, <2>1 DEF StrayDeletes, StrayEnds
  <2>3. ASSUME NEW b \in Backups
        PROVE  copies'[b] = IF b = c THEN copies[b] \ {place} ELSE copies[b]
    BY <1>t, <2>2
  <2>4. QED
    BY <2>2, <2>3 DEF OnHost
<1>4. QED
  BY <1>1, <1>2, <1>3 DEF Agent, AgentEnds, RestoreAccept, RestoreRefuse, RestoreFinish,
     DownloadAccept, DownloadRefuse, AgentRestart, StrayFails

\* While somebody is between a check and a commit, nobody else moves a row, claims a
\* restore or begins another such transaction; copies go only by that deletion, or by one that was abandoned.
LEMMA Guarded ==
    ASSUME IInv, [Next]_vars
    PROVE  /\ api # None /\ api' # None =>
                /\ api' = api /\ UNCHANGED row /\ pc' # "claiming" /\ deletion' = None
                /\ \A b \in Backups : OnHost(b) => OnHost(b)'
           /\ deletion # None /\ deletion' # None =>
                /\ deletion'.backup = deletion.backup /\ UNCHANGED row
                /\ pc' # "claiming" /\ api' = None
<1>t. /\ api # None => pc # "claiming" /\ deletion = None
      /\ deletion # None => pc # "claiming" /\ api = None
      /\ copies \in [Backups -> SUBSET Places]
  BY DEF IInv, HandlerIsCurrent, DeletionIsOfUnnamed, TypeOK
<1>0. UNCHANGED <<copies, struck>> => \A b \in Backups : OnHost(b) => OnHost(b)'
  BY DEF OnHost
<1>1. CASE Api
  BY <1>0, <1>1, <1>t DEF Api, CreateBegin, ConfirmBegin, CancelBegin, CancelRunning, Handle,
     Free, CreateCommit, ConfirmCommit, CancelCommit, Commit
<1>2. CASE Delete \/ \E r \in Restores : Elapse(r)
  <2>1. deletion # None => deletion \in [backup : Backups, place : Places,
                                         deleted : BOOLEAN]
    BY DEF IInv, TypeOK
  <2>2. QED
    BY <1>0, <1>2, <1>t, <2>1 DEF Delete, DeleteBegin, DeleteFile, DeleteRecord, DeleteFails,
       DeleteTimesOut,
       Free, Elapse, dbVars, agentVars, workVars
<1>3. CASE Agent
  <2>1. UNCHANGED <<row, pc, api, deletion>>
    BY <1>3 DEF Agent, AgentEnds, RestoreAccept, RestoreRefuse, RestoreFinish,
       DownloadAccept, DownloadRefuse, DownloadFinish, AgentRestart, StrayDeletes, StrayFails,
       StrayEnds, AgentStep, dbVars,
       workVars
  <2>2. \A b \in Backups : OnHost(b) => OnHost(b)'
    BY <1>3, AgentHost DEF IInv
  <2>3. QED
    BY <1>t, <2>1, <2>2
<1>4. CASE Boot \/ Exit \/ Crash \/ Stop \/ Recover
  BY <1>0, <1>4, <1>t DEF Boot, Exit, Crash, Stop, Memory, Recover, RecoverOrphan, Recovered,
     Free, dbVars, agentVars, workVars
<1>5. CASE Worker
  <2>1. UNCHANGED <<api, deletion, copies, struck>>
    BY <1>5 DEF Worker, Expire, Adopt, ClaimRead, ClaimNone, ClaimWrite, StartDownload,
       DownloadNotStarted, DownloadAccepted, DownloadDone, DownloadFailed,
       MarkLocalCopyPresent, StartRestore, StartRefused, StartUnreachable,
       StartAccepted, AttachTask, RecordOutcome, PollGivesUp, PollStopped,
       CloseAfterError, CloseCur, WorkerStep, agentVars
  <2>2. api # None \/ deletion # None => UNCHANGED row /\ pc' # "claiming"
    BY <1>5, <1>t DEF Worker, Expire, Adopt, ClaimRead, ClaimNone, ClaimWrite,
       StartDownload, DownloadNotStarted, DownloadAccepted, DownloadDone,
       DownloadFailed, MarkLocalCopyPresent, StartRestore, StartRefused,
       StartUnreachable, StartAccepted, AttachTask, RecordOutcome, PollGivesUp,
       PollStopped, CloseAfterError, CloseCur, Goto, Leave, Free, dbVars
  <2>3. QED
    BY <1>0, <1>t, <2>1, <2>2
<1>6. CASE ClaimError \/ WorkError \/ WorkerDies
  BY <1>0, <1>6, <1>t DEF ClaimError, WorkError, WorkerDies, WorkerStep, Goto, Leave, dbVars,
     agentVars
<1>7. CASE UNCHANGED vars
  BY <1>0, <1>7, <1>t DEF vars, dbVars, agentVars, workVars
<1>8. QED
  BY <1>1, <1>2, <1>3, <1>4, <1>5, <1>6, <1>7 DEF Next, Failure

LEMMA LanesStep ==
    ASSUME IInv, [Next]_vars PROVE HandlerIsCurrent' /\ DeletionIsOfUnnamed'
<1>1. HandlerIsCurrent'
  <2>1. CASE api # None /\ api' # None
    <3>1. api \in [op : {"create", "confirm", "cancel"}, id : Restores, place : Places]
      BY <2>1 DEF IInv, TypeOK
    <3>2. Source[api.id] \in Backups
      BY <3>1, SourceAssumption
    <3>3. QED
      BY <2>1, <3>1, <3>2, Guarded DEF IInv, HandlerIsCurrent
  <2>2. CASE api = None /\ api' # None
    <3>1. PICK op \in {"create", "confirm", "cancel"}, r \in Restores, place \in Places :
             /\ Handle(op, r, place)
             /\ op = "create" => row[r] = "none" /\ place \in Preflight(r)
             /\ op = "confirm" => row[r] = "pending" /\ place \in Preflight(r)
             /\ op = "cancel" => row[r] \in {"pending", "confirmed"}
      <4>1. CASE Api
        <5>1. PICK r \in Restores : CreateBegin(r) \/ ConfirmBegin(r) \/ CancelBegin(r)
          BY <2>2, <4>1 DEF Api, CancelRunning, CreateCommit, ConfirmCommit,
             CancelCommit, Commit
        <5>2. CASE CreateBegin(r)
          BY <5>2, AvailableType DEF CreateBegin
        <5>3. CASE ConfirmBegin(r)
          BY <5>3, AvailableType DEF ConfirmBegin
        <5>4. CASE CancelBegin(r)
          BY <5>4 DEF CancelBegin, Cancellable, Active, InFlight, Places
        <5>5. QED
          BY <5>1, <5>2, <5>3, <5>4
      <4>2. CASE ~Api
        BY <2>2, <4>2, Moves
      <4>3. QED
        BY <4>1, <4>2
    <3>2. UNCHANGED <<row, copies, struck, pc, deletion>> /\ Free
          /\ api' = [op |-> op, id |-> r, place |-> place]
      BY <3>1 DEF Handle, dbVars, agentVars, workVars
    <3>3. \A p \in Preflight(r) :
             /\ \A q \in Restores : row[q] \notin InFlight
             /\ p = "host" => "host" \in copies[Source[r]]
      BY DEF Preflight, Available
    <3>4. QED
      BY <3>1, <3>2, <3>3 DEF HandlerIsCurrent, Free, OnHost
  <2>3. CASE api' = None
    BY <2>3 DEF HandlerIsCurrent
  <2>4. QED
    BY <2>1, <2>2, <2>3
<1>2. DeletionIsOfUnnamed'
  <2>1. CASE deletion # None /\ deletion' # None
    BY <2>1, Guarded DEF IInv, DeletionIsOfUnnamed, Unnamed
  <2>2. CASE deletion = None /\ deletion' # None
    <3>1. PICK b \in Backups, place \in Places : DeleteBegin(b, place)
      <4>1. CASE Delete
        BY <2>2, <4>1 DEF Delete, DeleteFile, DeleteRecord, DeleteFails, DeleteTimesOut
      <4>2. CASE ~Delete
        BY <2>2, <4>2, Moves
      <4>3. QED
        BY <4>1, <4>2
    <3>2. QED
      BY <3>1 DEF DeleteBegin, Free, DeletionIsOfUnnamed, Unnamed, dbVars, workVars
  <2>3. CASE deletion' = None
    BY <2>3 DEF DeletionIsOfUnnamed
  <2>4. QED
    BY <2>1, <2>2, <2>3
<1>3. QED
  BY <1>1, <1>2

\* A step that does not move the worker leaves it what it holds.
LEMMA HandKept ==
    ASSUME IInv, [Next]_vars, UNCHANGED <<pc, cur>>
    PROVE  RowInHand' /\ RestoreInHand'
<1>t. /\ row \in [Restores -> Statuses] /\ job \in [Restores -> Requests]
      /\ pc \in Executing \cup {"claiming", "erring"} => cur \in Restores
      /\ RowInHand /\ RestoreInHand
  BY DEF IInv, TypeOK
<1> USE DEF RowInHand, RestoreInHand
<1>1. CASE UNCHANGED <<row, source, job, rebuilds>>
  BY <1>t, <1>1
<1>2. CASE CreateCommit \/ ConfirmCommit \/ CancelCommit
  BY <1>t, <1>2, HandlingKept DEF CreateCommit, ConfirmCommit, CancelCommit, Commit,
     agentVars, Executing
<1>3. CASE Expire \/ ClaimWrite \/ StartRestore \/ \E v \in TaskEnds : Concludes(v)
  BY <1>3 DEF Expire, ClaimWrite, StartRestore, Concludes, CloseCur, Leave, Goto, Executing
<1>4. CASE JobsEnd
  BY <1>t, <1>4 DEF JobsEnd, dbVars, Executing, TaskEnds
<1>5. ASSUME NEW r \in Restores, RecoverOrphan(r) PROVE RowInHand' /\ RestoreInHand'
  BY <1>t, <1>5 DEF RecoverOrphan, Executing
<1>6. ASSUME NEW r \in Restores, RestoreAccept(r) \/ RestoreRefuse(r)
      PROVE  RowInHand' /\ RestoreInHand'
  BY <1>t, <1>6 DEF RestoreAccept, RestoreRefuse, SetJob, AgentStep, dbVars, Executing
<1>7. QED
  BY <1>1, <1>2, <1>3, <1>4, <1>5, <1>6, FlowEffects DEF Effect

LEMMA HandStep == ASSUME IInv, [Next]_vars PROVE RowInHand' /\ RestoreInHand'
<1>t. /\ row \in [Restores -> Statuses] /\ job \in [Restores -> Requests]
      /\ pc \in Executing \cup {"claiming", "erring"} => cur \in Restores
      /\ RowInHand /\ RestoreInHand
  BY DEF IInv, TypeOK
<1>1. CASE Api \/ Delete \/ (\E r \in Restores : Elapse(r)) \/ Agent \/ Stop \/ UNCHANGED vars
  <2>1. UNCHANGED <<pc, cur>>
    BY <1>1 DEF vars, workVars, Api, CreateBegin, ConfirmBegin, CancelBegin, Handle,
       CancelRunning, CreateCommit, ConfirmCommit, CancelCommit, Commit, Delete,
       DeleteBegin, DeleteFile, DeleteRecord, DeleteFails, DeleteTimesOut, Elapse, Agent, AgentEnds,
       RestoreAccept, RestoreRefuse, RestoreFinish, DownloadAccept, DownloadRefuse,
       DownloadFinish, AgentRestart, StrayDeletes, StrayFails, StrayEnds, AgentStep, Stop
  <2>2. QED
    BY <2>1, HandKept
<1>2. CASE Boot \/ Exit \/ Crash \/ Recovered
  BY <1>2 DEF Boot, Exit, Crash, Memory, Recovered, RowInHand, RestoreInHand, Executing
<1>3. CASE \E r \in Restores : RecoverOrphan(r)
  BY <1>3, HandKept DEF RecoverOrphan, workVars
<1>4. CASE Worker
  <2>1. CASE pc' \in {"loop", "claim"}
    BY <2>1 DEF RowInHand, RestoreInHand, Executing
  <2>2. CASE Adopt
    <3>1. row[Head(resume)] = "running"
      <4>1. Len(resume) <= 1 /\ resume # <<>> /\ resume \in Seq(Restores)
        BY <2>2 DEF Adopt, IInv, ResumeIsRunning, TypeOK
      <4>2. 1 \in DOMAIN resume /\ Head(resume) = resume[1]
        BY <4>1
      <4>3. QED
        BY <4>2 DEF IInv, ResumeIsRunning
    <3>2. QED
      BY <2>2, <3>1 DEF Adopt, RowInHand, RestoreInHand, dbVars, agentVars
  <2>3. ASSUME NEW r \in Restores, ClaimRead(r) PROVE RowInHand' /\ RestoreInHand'
    BY <2>3 DEF ClaimRead, Oldest, RowInHand, RestoreInHand, Executing, dbVars
  <2>4. CASE ClaimWrite
    <3>1. row' = [row EXCEPT ![cur] = "running"] /\ UNCHANGED <<job, cur>>
          /\ pc' = "loaded" /\ cur \in Restores /\ row[cur] = "confirmed"
      BY <1>t, <2>4 DEF ClaimWrite, Close, Goto, agentVars, RestoreInHand
    <3>2. job[cur] = "none"
      BY <3>1 DEF IInv, RequestsAccounted
    <3>3. QED
      BY <1>t, <3>1, <3>2 DEF RowInHand, RestoreInHand
  <2>5. CASE StartDownload \/ DownloadAccepted \/ DownloadDone \/ MarkLocalCopyPresent
    BY <1>t, <2>5 DEF StartDownload, DownloadAccepted, DownloadDone,
       MarkLocalCopyPresent, SetFetch, Goto, RowInHand, RestoreInHand, Executing, dbVars,
       agentVars
  <2>6. CASE StartRestore \/ StartAccepted \/ AttachTask
    BY <1>t, <2>6 DEF StartRestore, StartAccepted, AttachTask, SetJob, Goto, RowInHand,
       RestoreInHand, Executing, TaskEnds, dbVars, agentVars
  <2>7. QED
    BY <1>4, <2>1, <2>2, <2>3, <2>4, <2>5, <2>6 DEF Worker, Expire, ClaimNone,
       DownloadNotStarted, DownloadFailed, StartRefused, StartUnreachable,
       RecordOutcome, PollGivesUp, PollStopped, CloseAfterError, CloseCur, Leave, Goto
<1>5. CASE ClaimError \/ WorkError \/ WorkerDies
  BY <1>t, <1>5 DEF ClaimError, WorkError, WorkerDies, Leave, Goto, RowInHand,
     RestoreInHand, Executing, dbVars
<1>6. QED
  BY <1>1, <1>2, <1>3, <1>4, <1>5 DEF Next, Recover, Failure

\* Recovery hands over one restore at most, since one at most is in flight.
LEMMA AdoptsOne ==
    ASSUME IInv, Recovered
    PROVE  Len(resume') <= 1 /\ \A i \in DOMAIN resume' : resume'[i] \in Adoptable
<1>1. PICK n \in 0..Cardinality(Adoptable) : resume' \in [1..n -> Adoptable]
  BY DEF Recovered, InOrder
<1>2. n \in Nat /\ DOMAIN resume' = 1..n /\ \A i \in 1..n : resume'[i] \in Adoptable
  BY <1>1
<1>3. \A i, j \in DOMAIN resume' : i < j => resume'[i] < resume'[j]
  BY DEF Recovered, InOrder
<1>4. \A a, b \in Adoptable : a = b
  BY DEF Adoptable, Running, IInv, OneInFlight, InFlight
<1>5. n <= 1
  <2>1. SUFFICES ASSUME n > 1 PROVE FALSE
    BY <1>2
  <2>2. resume'[1] < resume'[2] /\ resume'[1] = resume'[2] /\ resume'[1] \in Restores
    BY <1>2, <1>3, <1>4, <2>1 DEF Adoptable, Running
  <2>3. resume'[1] \in Nat
    BY <2>2, RestoresAssumption
  <2>4. QED
    BY <2>2, <2>3
<1>6. resume' \in Seq(Restores)
  BY TypeNext DEF IInv, Next, Recover, TypeOK
<1>7. Len(resume') = n
  BY <1>2, <1>6
<1>8. QED
  BY <1>2, <1>5, <1>7

LEMMA ResumeStep == ASSUME IInv, [Next]_vars PROVE ResumeIsRunning'
<1>t. /\ row \in [Restores -> Statuses] /\ job \in [Restores -> Requests]
      /\ resume \in Seq(Restores) /\ ref \subseteq Restores /\ ResumeIsRunning
  BY DEF IInv, TypeOK
<1> DEFINE Started == \A r \in ref : job[r] \notin {"none", "sent", "refused"}
<1>1. Started'
  <2>1. CASE AttachTask
    BY <1>t, <2>1 DEF AttachTask, agentVars, ResumeIsRunning, IInv, RestoreInHand
  <2>2. CASE UNCHANGED ref
    <3>1. CASE UNCHANGED job
      BY <1>t, <2>2, <3>1 DEF ResumeIsRunning
    <3>2. CASE StartRestore
      BY <1>t, <2>2, <3>2 DEF StartRestore, SetJob, ResumeIsRunning, IInv, RestoreInHand,
         RowInHand
    <3>3. CASE JobsEnd
      BY <1>t, <2>2, <3>3 DEF JobsEnd, ResumeIsRunning, TaskEnds
    <3>4. ASSUME NEW r \in Restores, RestoreAccept(r) \/ RestoreRefuse(r) PROVE Started'
      BY <1>t, <2>2, <3>4 DEF RestoreAccept, RestoreRefuse, SetJob, ResumeIsRunning
    <3>5. QED
      BY <3>1, <3>2, <3>3, <3>4, FlowEffects DEF Effect, CreateCommit, ConfirmCommit,
         CancelCommit, Commit, Expire, ClaimWrite, RecoverOrphan, Concludes, CloseCur,
         agentVars
  <2>3. QED
    BY <2>1, <2>2, Moves
<1> DEFINE Waiting == \A i \in DOMAIN resume : row[resume[i]] = "running" /\ resume[i] \in ref
<1>2. Len(resume') <= 1 /\ Waiting' /\ (resume' # <<>> => pc' \in {"loop", "claim"})
  <2>1. CASE resume' = <<>>
    BY <2>1
  <2>2. CASE Recovered
    BY <2>2, AdoptsOne DEF Recovered, Adoptable, Running, dbVars
  <2>3. CASE Adopt
    <3>1. resume' = <<>>
      BY <1>t, <2>3 DEF Adopt, ResumeIsRunning
    <3>2. QED
      BY <2>1, <3>1
  <2>4. CASE UNCHANGED resume /\ resume # <<>> /\ ~Adopt
    <3>1. pc \in {"loop", "claim"} /\ Len(resume) <= 1 /\ Waiting
      BY <1>t, <2>4 DEF ResumeIsRunning
    <3>2. pc' \in {"loop", "claim"} /\ ref \subseteq ref'
      <4>1. ref \subseteq ref'
        BY Moves DEF AttachTask
      <4>2. UNCHANGED pc \/ pc' \in {"loop", "claim"}
        <5>1. CASE Api \/ Delete \/ Agent \/ Stop \/ UNCHANGED vars
                   \/ \E r \in Restores : Elapse(r)
          BY <5>1 DEF Api, CreateBegin, ConfirmBegin, CancelBegin, Handle,
             CancelRunning, CreateCommit, ConfirmCommit, CancelCommit, Commit, Delete,
             DeleteBegin, DeleteFile, DeleteRecord, DeleteFails, DeleteTimesOut, Elapse, Agent,
             AgentEnds, RestoreAccept, RestoreRefuse, RestoreFinish, DownloadAccept,
             DownloadRefuse, DownloadFinish, AgentRestart, StrayDeletes, StrayFails, StrayEnds,
             AgentStep, Stop, vars,
             workVars
        <5>2. CASE Boot \/ Exit \/ Crash \/ Recover
          BY <2>4, <3>1, <5>2 DEF Boot, Exit, Crash, Memory, Recover, RecoverOrphan,
             Recovered
        <5>3. CASE Worker
          BY <2>4, <3>1, <5>3 DEF Worker, Expire, ClaimRead, ClaimNone, ClaimWrite,
             StartDownload, DownloadNotStarted, DownloadAccepted, DownloadDone,
             DownloadFailed, MarkLocalCopyPresent, StartRestore, StartRefused,
             StartUnreachable, StartAccepted, AttachTask, RecordOutcome, PollGivesUp,
             PollStopped, CloseAfterError, Goto
        <5>4. CASE ClaimError \/ WorkError \/ WorkerDies
          BY <3>1, <5>4 DEF ClaimError, WorkError, WorkerDies, Leave, Executing
        <5>5. QED
          BY <5>1, <5>2, <5>3, <5>4 DEF Next, Failure
      <4>3. QED
        BY <3>1, <4>1, <4>2
    <3>3. \A r \in Restores : row[r] = "running" => row'[r] = "running"
      <4>1. CASE CreateCommit \/ ConfirmCommit \/ CancelCommit
        BY <1>t, <4>1, HandlingKept DEF CreateCommit, ConfirmCommit, CancelCommit
      <4>2. CASE Expire
        BY <1>t, <4>2 DEF Expire, Expired
      <4>3. QED
        BY <3>1, <4>1, <4>2, FlowEffects DEF Effect, ClaimWrite, StartRestore, JobsEnd,
           RecoverOrphan, RestoreAccept, RestoreRefuse, AgentStep, Concludes, Executing,
           dbVars
    <3>4. \A i \in DOMAIN resume : resume[i] \in Restores
      BY <1>t
    <3>5. QED
      BY <2>4, <3>1, <3>2, <3>3, <3>4
  <2>5. QED
    BY <2>1, <2>2, <2>3, <2>4, Moves
<1>3. QED
  BY <1>1, <1>2 DEF ResumeIsRunning

\* The copies of an archive that a restore names stay: the only deletion there can be
\* is of another, or one that was abandoned.
LEMMA CopiesKept ==
    ASSUME IInv, [Next]_vars, NEW r \in Restores, row[r] \in Active
    PROVE  /\ OnHost(Source[r]) => OnHost(Source[r])'
           /\ \A p \in copies[Source[r]] :
                 p \in copies'[Source[r]] \/ strays[<<Source[r], p>>] > 0
<1>t. copies \in [Backups -> SUBSET Places] /\ Source[r] \in Backups
  BY SourceAssumption DEF IInv, TypeOK
<1>0. copies'[Source[r]] = copies[Source[r]] /\ struck' = struck
      => (/\ OnHost(Source[r]) => OnHost(Source[r])'
          /\ \A p \in copies[Source[r]] : p \in copies'[Source[r]])
  BY DEF OnHost
<1>1. CASE DeleteFile
  <2>1. deletion # None /\ deletion.backup # Source[r]
    BY <1>1 DEF DeleteFile, IInv, DeletionIsOfUnnamed, Unnamed
  <2>2. QED
    BY <1>0, <1>1, <1>t, <2>1 DEF DeleteFile
<1>2. CASE Agent
  BY <1>2, <1>t, AgentHost DEF IInv
<1>3. CASE Api \/ \E q \in Restores : Elapse(q)
  BY <1>0, <1>3 DEF Api, CreateBegin, ConfirmBegin, CancelBegin, Handle, CancelRunning,
     CreateCommit, ConfirmCommit, CancelCommit, Commit, Elapse, agentVars
<1>4. CASE Delete /\ ~DeleteFile
  BY <1>0, <1>4 DEF Delete, DeleteBegin, DeleteRecord, DeleteFails, DeleteTimesOut, agentVars
<1>5. CASE Boot \/ Exit \/ Crash \/ Stop \/ Recover
  BY <1>0, <1>5 DEF Boot, Exit, Crash, Stop, Memory, Recover, RecoverOrphan, Recovered,
     agentVars
<1>6. CASE Worker
  BY <1>0, <1>6 DEF Worker, Expire, Adopt, ClaimRead, ClaimNone, ClaimWrite, StartDownload,
     DownloadNotStarted, DownloadAccepted, DownloadDone, DownloadFailed,
     MarkLocalCopyPresent, StartRestore, StartRefused, StartUnreachable, StartAccepted,
     AttachTask, RecordOutcome, PollGivesUp, PollStopped, CloseAfterError, CloseCur,
     agentVars
<1>7. CASE ClaimError \/ WorkError \/ WorkerDies \/ UNCHANGED vars
  BY <1>0, <1>7 DEF ClaimError, WorkError, WorkerDies, vars, agentVars
<1>8. QED
  BY <1>1, <1>2, <1>3, <1>4, <1>5, <1>6, <1>7 DEF Next, Failure

LEMMA SourceStep == ASSUME IInv, [Next]_vars PROVE LocalSourceThere'
<1>t. /\ row \in [Restores -> Statuses] /\ source \in [Restores -> Places]
      /\ LocalSourceThere /\ RowInHand
  BY DEF IInv, TypeOK
<1> SUFFICES ASSUME NEW r \in Restores, row'[r] \in Active, source'[r] = "host"
             PROVE  OnHost(Source[r])'
  BY DEF LocalSourceThere, Active, InFlight
<1> USE DEF Active, InFlight
<1>1. CASE row[r] \in Active /\ source[r] = "host"
  BY <1>t, <1>1, CopiesKept DEF LocalSourceThere
<1>2. CASE CreateCommit \/ ConfirmCommit \/ CancelCommit
  <2>1. UNCHANGED <<copies, struck>> /\ api # None
    BY <1>2 DEF CreateCommit, ConfirmCommit, CancelCommit, Commit, agentVars
  <2>2. CASE CancelCommit
    BY <1>t, <1>1, <2>2, HandlingKept DEF CancelCommit
  <2>3. CASE r # api.id /\ (CreateCommit \/ ConfirmCommit)
    <3>1. row'[r] = row[r] /\ source'[r] = source[r]
      BY <1>t, <2>3 DEF CreateCommit, ConfirmCommit
    <3>2. QED
      BY <1>1, <3>1
  <2>4. CASE r = api.id /\ (CreateCommit \/ ConfirmCommit)
    <3>1. api.place = "host" /\ api.op # "cancel"
      BY <1>t, <2>4, HandlingKept DEF CreateCommit, ConfirmCommit
    <3>2. QED
      BY <2>1, <2>4, <3>1 DEF IInv, HandlerIsCurrent, OnHost
  <2>5. QED
    BY <1>2, <2>2, <2>3, <2>4
<1>3. CASE UNCHANGED <<row, source>>
  BY <1>1, <1>3
<1>4. CASE Expire \/ ClaimWrite
  <2>1. UNCHANGED source /\ row[r] \in Active
    BY <1>t, <1>4 DEF Expire, Expired, ClaimWrite, Close, IInv, RestoreInHand, TypeOK
  <2>2. QED
    BY <1>1, <2>1
<1>5. ASSUME NEW q \in Restores, NEW v \in TaskEnds, Close(q, v)
      PROVE  row[r] \in Active /\ source[r] = "host"
  BY <1>t, <1>5 DEF Close, TaskEnds
<1>6. QED
  BY <1>1, <1>2, <1>3, <1>4, <1>5, FlowEffects DEF Effect, StartRestore, JobsEnd,
     RecoverOrphan, OrphanVerdict, RestoreAccept, RestoreRefuse, AgentStep, Concludes,
     CloseCur, TaskEnds, dbVars

(***************************************************************************)
(* Theorems                                                                *)
(***************************************************************************)
\* The invariant holds for every set of restores and backups and every budget: killed
\* processes, lost answers, restarts and deletions in any number and order.
THEOREM Invariance == Spec => []IInv
<1>1. Init => IInv
  <2>1. ASSUME Init
        PROVE  /\ RequestsAccounted /\ HandlerIsCurrent /\ DeletionIsOfUnnamed
               /\ OneInFlight /\ RestoreInHand /\ RowInHand /\ ResumeIsRunning
               /\ LocalSourceThere /\ FailedIsKnown
    BY <2>1 DEF Init, RequestsAccounted, HandlerIsCurrent, DeletionIsOfUnnamed,
       OneInFlight, InFlight, RestoreInHand, RowInHand, Executing, ResumeIsRunning,
       LocalSourceThere, FailedIsKnown
  <2>2. QED
    BY <2>1, TypeInit DEF IInv
<1>2. IInv /\ [Next]_vars => IInv'
  BY TypeNext, RequestsStep, LanesStep, InFlightStep, HandStep, ResumeStep, SourceStep,
     KnownStep DEF IInv
<1>3. QED
  BY <1>1, <1>2, PTL DEF Spec

\* Whatever is lost, killed or restarted, a restore overwrites the guest at most once.
THEOREM OneRebuild == Spec => []RestoredOnce
<1>1. IInv => RestoredOnce
  <2>1. ASSUME IInv, NEW r \in Restores PROVE rebuilds[r] <= 1
    BY <2>1 DEF IInv, RequestsAccounted
  <2>2. QED
    BY <2>1 DEF RestoredOnce
<1>2. QED
  BY <1>1, Invariance, PTL

\* The admission checks, calls to the agent apart from the writes that rely on them,
\* authorise one restore at a time.
THEOREM Serialised == Spec => []OneAuthorised
<1>1. ASSUME IInv PROVE OneAuthorised
  <2> DEFINE S == {r \in Restores : row[r] \in InFlight}
  <2>1. CASE S = {}
    BY <2>1, FS_EmptySet DEF OneAuthorised
  <2>2. ASSUME NEW r \in S PROVE OneAuthorised
    <3>1. S = {r}
      BY <1>1, <2>2 DEF IInv, OneInFlight
    <3>2. Cardinality(S) = 1
      BY <3>1, FS_Singleton
    <3>3. QED
      BY <3>2 DEF OneAuthorised
  <2>3. QED
    BY <2>1, <2>2
<1>2. QED
  BY <1>1, Invariance, PTL

\* The archive a restore will read from the host is there, from preflight to the end,
\* unless a deletion that nobody waited for any more has taken it.
THEOREM SourceStays == Spec => []LocalSourceThere
  BY Invariance, PTL DEF IInv

\* `failed` is never said of a restore that may have begun and not reported back.
THEOREM FailureIsKnown == Spec => []FailedIsKnown
  BY Invariance, PTL DEF IInv

\* No deletion takes a copy of an archive that a restore names, but one whose call was
\* abandoned by the dashboard and is still under way at the agent.
THEOREM NothingTaken == Spec => NamedArchiveKept
<1>1. ASSUME IInv, [Next]_vars
      PROVE  [\A r \in Restores : row[r] \in {"pending", "confirmed", "running"} =>
                 \A place \in copies[Source[r]] :
                    place \in copies'[Source[r]] \/ strays[<<Source[r], place>>] > 0]_copies
  BY <1>1, CopiesKept DEF Active, InFlight
<1>2. QED
  BY <1>1, Invariance, PTL DEF Spec, NamedArchiveKept

\* An outcome, once recorded, is never revised, by whoever learns another one later.
THEOREM Finality == Spec => OutcomesAreFinal
<1>1. ASSUME IInv, [Next]_vars
      PROVE  [\A r \in Restores : row[r] \in Terminal => row'[r] = row[r]]_row
  <2>t. row \in [Restores -> Statuses] /\ RowInHand /\ RestoreInHand
    BY <1>1 DEF IInv, TypeOK
  <2> SUFFICES ASSUME NEW r \in Restores, row[r] \in Terminal PROVE row'[r] = row[r]
    OBVIOUS
  <2> USE DEF Terminal, TaskEnds
  <2>1. CASE CreateCommit \/ ConfirmCommit \/ CancelCommit
    BY <1>1, <2>t, <2>1, HandlingKept DEF CreateCommit, ConfirmCommit, CancelCommit
  <2>2. CASE Expire
    BY <2>t, <2>2 DEF Expire, Expired
  <2>3. CASE ClaimWrite
    BY <2>t, <2>3 DEF ClaimWrite, Close, RestoreInHand
  <2>4. ASSUME NEW q \in Restores, RecoverOrphan(q) PROVE row'[r] = row[r]
    BY <2>t, <2>4 DEF RecoverOrphan, Orphans, Running, Close
  <2>5. ASSUME NEW v \in TaskEnds, Concludes(v) PROVE row'[r] = row[r]
    BY <2>t, <2>5 DEF Concludes, CloseCur, Close, RowInHand
  <2>6. QED
    BY <1>1, <2>1, <2>2, <2>3, <2>4, <2>5, FlowEffects DEF Effect, StartRestore, JobsEnd,
       RestoreAccept, RestoreRefuse, AgentStep, dbVars
<1>2. QED
  BY <1>1, Invariance, PTL DEF Spec, OutcomesAreFinal

\* Seen from the rows and the host, the flow implements RestorePromise.
THEOREM Implements == Spec => KeepsPromise
<1>1. Init => Promise!Init
  BY DEF Init, Promise!Init, HostView
<1>2. ASSUME IInv, [Next]_vars PROVE [Promise!Next]_(Promise!vars)
  <2>t. /\ row \in [Restores -> Statuses] /\ job \in [Restores -> Requests]
        /\ RowInHand /\ RestoreInHand /\ RequestsAccounted
    BY <1>2 DEF IInv, TypeOK
  <2> USE DEF Promise!Next, Promise!vars, Promise!Ends
  <2>1. CASE UNCHANGED <<row, job>>
    BY <2>1 DEF HostView
  <2>h. UNCHANGED job => UNCHANGED HostView
    BY DEF HostView
  <2>2. CASE CreateCommit
    <3>1. api.id \in Restores /\ Promise!Move(api.id, "none", "pending")
      BY <1>2, <2>2, <2>h, HandlingKept DEF CreateCommit, Commit, agentVars, Promise!Move
    <3>2. QED
      BY <3>1 DEF Promise!Propose
  <2>3. CASE ConfirmCommit
    <3>1. api.id \in Restores /\ Promise!Move(api.id, "pending", "confirmed")
      BY <1>2, <2>3, <2>h, HandlingKept DEF ConfirmCommit, Commit, agentVars, Promise!Move
    <3>2. QED
      BY <3>1 DEF Promise!Authorise
  <2>4. CASE CancelCommit
    <3>1. /\ api.id \in Restores /\ row[api.id] \in {"pending", "confirmed"}
          /\ row' = [row EXCEPT ![api.id] = "cancelled"] /\ UNCHANGED HostView
      BY <1>2, <2>4, <2>h, HandlingKept DEF CancelCommit, Commit, agentVars, IInv,
         HandlerIsCurrent
    <3>2. Promise!Withdraw
      BY <2>t, <3>1 DEF Promise!Withdraw, Statuses, Terminal, TaskEnds
    <3>3. QED
      BY <3>2
  <2>5. CASE Expire
    <3>1. UNCHANGED HostView /\ row' = [r \in Restores |-> IF r \in Expired THEN "expired"
                                                                         ELSE row[r]]
      BY <2>5, <2>h DEF Expire, agentVars
    <3>2. Promise!Withdraw
      BY <2>t, <3>1 DEF Expired, Promise!Withdraw, Statuses, Terminal, TaskEnds
    <3>3. QED
      BY <3>2
  <2>6. CASE ClaimWrite
    <3>1. cur \in Restores /\ Promise!Move(cur, "confirmed", "running")
      BY <1>2, <2>t, <2>6, <2>h DEF ClaimWrite, Close, agentVars, Promise!Move,
         RestoreInHand, IInv, TypeOK
    <3>2. QED
      BY <3>1 DEF Promise!Take
  <2>7. CASE StartRestore
    <3>1. cur \in Restores /\ job[cur] = "none"
      BY <1>2, <2>t, <2>7 DEF StartRestore, RestoreInHand, IInv, TypeOK, Executing
    <3>2. UNCHANGED <<row, HostView>>
      BY <2>t, <2>7, <3>1 DEF StartRestore, SetJob, HostView, dbVars
    <3>3. QED
      BY <3>2
  <2>8. CASE JobsEnd
    <3>1. Promise!End
      BY <2>t, <2>8 DEF JobsEnd, HostView, Promise!End, Requests, TaskEnds, dbVars
    <3>2. QED
      BY <3>1
  <2>9. ASSUME NEW r \in Restores, RecoverOrphan(r) PROVE Promise!Next
    <3>1. Promise!Conclude(r, "interrupted")
      BY <2>9, <2>h DEF RecoverOrphan, Orphans, Running, OrphanVerdict, Close, agentVars,
         Promise!Conclude, Promise!Move
    <3>2. QED
      BY <3>1
  <2>10. ASSUME NEW r \in Restores, RestoreAccept(r) PROVE Promise!Next
    <3>1. row[r] \in {"running", "interrupted"} /\ job[r] = "sent"
      BY <2>t, <2>10 DEF RestoreAccept, RequestsAccounted
    <3>2. HostView[r] = "none" /\ HostView' = [HostView EXCEPT ![r] = "running"]
      BY <2>t, <2>10, <3>1 DEF RestoreAccept, SetJob, HostView
    <3>3. Promise!Touch(r)
      BY <2>10, <3>1, <3>2 DEF RestoreAccept, AgentStep, dbVars, Promise!Touch
    <3>4. QED
      BY <3>3
  <2>11. ASSUME NEW r \in Restores, RestoreRefuse(r) PROVE UNCHANGED Promise!vars
    BY <2>t, <2>11 DEF RestoreRefuse, SetJob, AgentStep, HostView, dbVars
  <2>12. ASSUME NEW v \in TaskEnds, Concludes(v) PROVE Promise!Next
    <3>1. /\ row[cur] = "running" /\ row' = [row EXCEPT ![cur] = v]
          /\ UNCHANGED HostView /\ cur \in Restores
      BY <2>t, <2>12, <2>h DEF Concludes, CloseCur, Close, RowInHand, agentVars
    <3>2. /\ v \in {"success", "cancelled"} => HostView[cur] = v
          /\ v = "failed" => HostView[cur] \in {"none", "failed"}
      BY <2>12 DEF Concludes, HostView
    <3>3. Promise!Conclude(cur, v)
      BY <3>1, <3>2 DEF Promise!Conclude, Promise!Move
    <3>4. QED
      BY <3>1, <3>3 DEF TaskEnds
  <2>13. QED
    BY <1>2, <2>1, <2>2, <2>3, <2>4, <2>5, <2>6, <2>7, <2>8, <2>9, <2>10, <2>11, <2>12,
       FlowEffects DEF Effect
<1>3. QED
  BY <1>1, <1>2, Invariance, PTL DEF Spec, KeepsPromise, Promise!Spec
(***************************************************************************)
(* A fetched archive is on record before the host is asked to restore it   *)
(***************************************************************************)
\* Between the mark and the request the row of the archive says it is on the host.
Marked == pc = "start" => <<Source[cur], "host">> \notin gone

\* The archive of a restore that names it is not recorded as gone meanwhile.
LEMMA RecordKept ==
    ASSUME IInv, [Next]_vars, NEW r \in Restores, row[r] \in Active,
           <<Source[r], "host">> \notin gone
    PROVE  <<Source[r], "host">> \notin gone'
<1>1. CASE DeleteRecord
  <2>1. deletion # None /\ deletion.backup # Source[r]
    BY <1>1 DEF DeleteRecord, IInv, DeletionIsOfUnnamed, Unnamed
  <2>2. QED
    BY <1>1, <2>1 DEF DeleteRecord
<1>2. CASE Api \/ \E q \in Restores : Elapse(q)
  BY <1>2 DEF Api, CreateBegin, ConfirmBegin, CancelBegin, Handle, CancelRunning,
     CreateCommit, ConfirmCommit, CancelCommit, Commit, Elapse, dbVars
<1>3. CASE Delete /\ ~DeleteRecord
  BY <1>3 DEF Delete, DeleteBegin, DeleteFile, DeleteFails, DeleteTimesOut, dbVars
<1>4. CASE Agent
  BY <1>4 DEF Agent, AgentEnds, RestoreAccept, RestoreRefuse, RestoreFinish,
     DownloadAccept, DownloadRefuse, DownloadFinish, AgentRestart, StrayDeletes, StrayFails,
     StrayEnds, AgentStep, dbVars
<1>5. CASE Boot \/ Exit \/ Crash \/ Stop \/ Recover
  BY <1>5 DEF Boot, Exit, Crash, Stop, Memory, Recover, RecoverOrphan, Recovered, Close,
     dbVars
<1>6. CASE Worker
  BY <1>6 DEF Worker, Expire, Adopt, ClaimRead, ClaimNone, ClaimWrite, StartDownload,
     DownloadNotStarted, DownloadAccepted, DownloadDone, DownloadFailed,
     MarkLocalCopyPresent, StartRestore, StartRefused, StartUnreachable, StartAccepted,
     AttachTask, RecordOutcome, PollGivesUp, PollStopped, CloseAfterError, CloseCur,
     Close, dbVars
<1>7. CASE ClaimError \/ WorkError \/ WorkerDies \/ UNCHANGED vars
  BY <1>7 DEF ClaimError, WorkError, WorkerDies, vars, dbVars
<1>8. QED
  BY <1>1, <1>2, <1>3, <1>4, <1>5, <1>6, <1>7 DEF Next, Failure

\* The worker comes to the request by the mark only.
LEMMA ToStart ==
    ASSUME IInv, [Next]_vars, pc' = "start"
    PROVE  MarkLocalCopyPresent \/ UNCHANGED <<pc, cur>>
<1>1. CASE Api \/ Delete \/ \E q \in Restores : Elapse(q)
  BY <1>1 DEF Api, CreateBegin, ConfirmBegin, CancelBegin, Handle, CancelRunning,
     CreateCommit, ConfirmCommit, CancelCommit, Commit, Elapse, Delete, DeleteBegin,
     DeleteFile, DeleteRecord, DeleteFails, DeleteTimesOut, workVars
<1>2. CASE Agent
  BY <1>2 DEF Agent, AgentEnds, RestoreAccept, RestoreRefuse, RestoreFinish,
     DownloadAccept, DownloadRefuse, DownloadFinish, AgentRestart, StrayDeletes, StrayFails,
     StrayEnds, AgentStep, workVars
<1>3. CASE Boot \/ Exit \/ Crash \/ Stop \/ Recover
  BY <1>3 DEF Boot, Exit, Crash, Stop, Memory, Recover, RecoverOrphan, Recovered,
     workVars
<1>4. CASE Worker
  BY <1>4 DEF Worker, Expire, Adopt, ClaimRead, ClaimNone, ClaimWrite, StartDownload,
     DownloadNotStarted, DownloadAccepted, DownloadDone, DownloadFailed, StartRestore,
     StartRefused, StartUnreachable, StartAccepted, AttachTask, RecordOutcome,
     PollGivesUp, PollStopped, CloseAfterError, CloseCur, Goto, Leave
<1>5. CASE ClaimError \/ WorkError \/ WorkerDies \/ UNCHANGED vars
  BY <1>5 DEF ClaimError, WorkError, WorkerDies, Goto, Leave, vars, workVars
<1>6. QED
  BY <1>1, <1>2, <1>3, <1>4, <1>5 DEF Next, Failure

LEMMA MarkedStep == ASSUME IInv, Marked, [Next]_vars PROVE Marked'
<1> SUFFICES ASSUME pc' = "start" PROVE <<Source[cur'], "host">> \notin gone'
  BY DEF Marked
<1>1. CASE MarkLocalCopyPresent
  BY <1>1 DEF MarkLocalCopyPresent, Goto
<1>2. CASE UNCHANGED <<pc, cur>>
  <2>1. cur \in Restores /\ row[cur] \in Active
    BY <1>2 DEF IInv, TypeOK, RowInHand, Executing, Active, InFlight
  <2>2. QED
    BY <1>2, <2>1, RecordKept DEF Marked
<1>3. QED
  BY <1>1, <1>2, ToStart

LEMMA TrackedStep ==
    ASSUME IInv, Marked, FetchedIsTracked, [Next]_vars
    PROVE  FetchedIsTracked'
<1>t. /\ row \in [Restores -> Statuses] /\ source \in [Restores -> Places]
      /\ job \in [Restores -> Requests]
      /\ RequestsAccounted /\ RowInHand /\ RestoreInHand
  BY DEF IInv, TypeOK
<1> SUFFICES ASSUME NEW r \in Restores, row'[r] = "running", source'[r] = "drive",
                    job'[r] # "none"
             PROVE  <<Source[r], "host">> \notin gone'
  BY DEF FetchedIsTracked
<1>k. ASSUME row[r] = "running", source[r] = "drive", job[r] # "none"
      PROVE  <<Source[r], "host">> \notin gone'
  BY <1>k, RecordKept DEF FetchedIsTracked, Active, InFlight
<1>1. CASE UNCHANGED <<row, source, job, rebuilds>>
  BY <1>1, <1>k
<1>2. CASE CreateCommit \/ ConfirmCommit \/ CancelCommit
  <2>1. r # api.id
    BY <1>t, <1>2, HandlingKept DEF CreateCommit, ConfirmCommit, CancelCommit
  <2>2. row'[r] = row[r] /\ source'[r] = source[r] /\ job'[r] = job[r]
    BY <1>t, <1>2, <2>1 DEF CreateCommit, ConfirmCommit, CancelCommit, Commit, agentVars
  <2>3. QED
    BY <1>k, <2>2
<1>3. CASE Expire
  BY <1>t, <1>3, <1>k DEF Expire, agentVars
<1>4. CASE ClaimWrite
  <2>1. job[cur] = "none"
    BY <1>t, <1>4 DEF ClaimWrite, RestoreInHand, RequestsAccounted, IInv, TypeOK
  <2>2. QED
    BY <1>t, <1>4, <1>k, <2>1 DEF ClaimWrite, Close, agentVars
<1>5. CASE StartRestore
  <2>1. UNCHANGED <<row, source, gone>> /\ row[r] = "running" /\ source[r] = "drive"
    BY <1>5 DEF StartRestore, dbVars
  <2>2. CASE r = cur
    <3>1. pc = "start"
      BY <1>5, <2>1, <2>2 DEF StartRestore
    <3>2. QED
      BY <2>1, <2>2, <3>1 DEF Marked
  <2>3. CASE r # cur
    BY <1>t, <1>5, <1>k, <2>1, <2>3 DEF StartRestore, SetJob
  <2>4. QED
    BY <2>2, <2>3
<1>6. CASE JobsEnd
  BY <1>t, <1>6, <1>k DEF JobsEnd, dbVars
<1>7. ASSUME NEW q \in Restores, RecoverOrphan(q)
      PROVE  <<Source[r], "host">> \notin gone'
  BY <1>t, <1>7, <1>k DEF RecoverOrphan, OrphanVerdict, Close, agentVars
<1>8. ASSUME NEW q \in Restores, RestoreAccept(q) \/ RestoreRefuse(q)
      PROVE  <<Source[r], "host">> \notin gone'
  BY <1>t, <1>8, <1>k DEF RestoreAccept, RestoreRefuse, SetJob, AgentStep, dbVars
<1>9. ASSUME NEW v \in TaskEnds, Concludes(v)
      PROVE  <<Source[r], "host">> \notin gone'
  BY <1>t, <1>9, <1>k DEF Concludes, CloseCur, Close, agentVars, TaskEnds
<1>10. QED
  BY <1>1, <1>2, <1>3, <1>4, <1>5, <1>6, <1>7, <1>8, <1>9, FlowEffects DEF Effect

\* An archive that was fetched for a restore is on record when the host is asked to
\* restore it, however long the request takes and whatever is deleted meanwhile.
THEOREM FetchTracked == Spec => []FetchedIsTracked
<1>1. Init => Marked /\ FetchedIsTracked
  BY DEF Init, Marked, FetchedIsTracked
<1>2. IInv /\ Marked /\ FetchedIsTracked /\ [Next]_vars => Marked' /\ FetchedIsTracked'
  BY MarkedStep, TrackedStep
<1>3. QED
  BY <1>1, <1>2, Invariance, PTL DEF Spec

-----------------------------------------------------------------------------
(***************************************************************************)
(* The guest that holds the target (RestoreTarget)                         *)
(***************************************************************************)
LEMMA TargetSpendType ==
    ASSUME TargetTypeOK, NEW e \in TargetEvents, TargetSpend(e)
    PROVE  targetLeft' \in [TargetEvents -> Nat]
  BY DEF TargetTypeOK, TargetSpend

(***************************************************************************)
(* Types                                                                   *)
(***************************************************************************)
\* The guest is what the types say, whatever is done to it.
LEMMA GuestType ==
    ASSUME guest \in Guests
    PROVE  /\ guest # Nothing => /\ [guest EXCEPT !.up = FALSE] \in Guests
                                 /\ [guest EXCEPT !.up = TRUE] \in Guests
                                 /\ guest.type \in Types /\ guest.up \in BOOLEAN
           /\ [type |-> Type, up |-> FALSE] \in Guests
  BY DEF Guests, Types, Type

LEMMA CachedType == ASSUME TargetTypeOK PROVE Cached \in Guests
<1>1. CASE guest = Nothing
  BY <1>1 DEF Cached, Discovered, TargetTypeOK
<1>2. CASE guest # Nothing
  <2>1. Discovered = {guest}
    BY <1>2 DEF Discovered
  <2>2. Cached = guest
    BY <2>1 DEF Cached
  <2>3. QED
    BY <2>2 DEF TargetTypeOK
<1>3. QED
  BY <1>1, <1>2

LEMMA TargetTypeInit == TargetInit => TargetTypeOK
<1> SUFFICES ASSUME TargetInit PROVE TargetTypeOK
  OBVIOUS
<1>1. guest \in Guests /\ targetLeft \in [TargetEvents -> Nat]
  BY TargetStartsAssumption DEF TargetInit
<1>2. QED
  BY <1>1 DEF TargetInit, TargetTypeOK, Verdicts, Before, Phases

LEMMA TargetTypeNext == ASSUME TargetTypeOK, [TargetNext]_targetVars PROVE TargetTypeOK'
<1> USE DEF hostVars, recordVars, touchVars, digestVars
<1>1. ASSUME NEW r \in RestoreIds, Request(r) PROVE TargetTypeOK'
  <2>1. ASSUME NEW w \in Wishes, Create(r, w) PROVE TargetTypeOK'
    <3>1. targetLeft' \in [TargetEvents -> Nat]
      BY <2>1, TargetSpendType DEF Create, TargetEvents
    <3>2. QED
      BY <2>1, <3>1 DEF Create, NewRow, TargetTypeOK, Verdicts, Before
  <2>2. CASE Confirm(r)
    BY <2>2 DEF Confirm, TargetTypeOK, Verdicts, Before
  <2>3. CASE Cancel(r) \/ ExpireStale(r)
    BY <2>3 DEF Cancel, ExpireStale, TargetTypeOK, Verdicts, Before
  <2>4. QED
    BY <1>1, <2>1, <2>2, <2>3 DEF Request
<1>2. ASSUME NEW r \in RestoreIds, TargetWorker(r) PROVE TargetTypeOK'
  <2>1. CASE Ask(r)
    BY <2>1 DEF Ask, TargetTypeOK, Verdicts, Phases, Handling
  <2>2. CASE GiveUp(r)
    <3>1. targetLeft' \in [TargetEvents -> Nat]
      BY <2>2, TargetSpendType DEF GiveUp, TargetEvents
    <3>2. QED
      BY <2>2, <3>1 DEF GiveUp, Unanswered, TargetTypeOK, Verdicts, Phases
  <2>3. CASE Record(r)
    BY <2>3 DEF Record, TargetTypeOK, Verdicts, Before
  <2>4. QED
    BY <1>2, <2>1, <2>2, <2>3 DEF TargetWorker
<1>3. ASSUME NEW r \in RestoreIds, Handler(r) PROVE TargetTypeOK'
  <2>1. CASE Look(r)
    BY <2>1 DEF Look, To, TargetTypeOK, Phases, Handling
  <2>2. CASE AssertStoppable(r)
    BY <2>2 DEF AssertStoppable, To, TargetTypeOK, Phases, Handling
  <2>3. CASE HashArchive(r)
    BY <2>3 DEF HashArchive, LooksAt, To, TargetTypeOK, Phases, Handling, Effects
  <2>4. CASE WriteCache(r)
    BY <2>4 DEF WriteCache, To, TargetTypeOK, Phases, Handling
  <2>5. CASE Accept(r)
    BY <2>5 DEF Accept, LooksAt, To, TargetTypeOK, Phases, Acting, Effects
  <2>6. CASE Reject(r)
    BY <2>6 DEF Reject, To, TargetTypeOK, Phases
  <2>7. QED
    BY <1>3, <2>1, <2>2, <2>3, <2>4, <2>5, <2>6 DEF Handler
<1>4. ASSUME NEW r \in RestoreIds, Task(r) PROVE TargetTypeOK'
  <2>0. guest \in Guests
    BY DEF TargetTypeOK
  <2>1. CASE StopGuest(r)
    BY <2>0, <2>1, GuestType DEF StopGuest, Did, To, TargetTypeOK, Phases, Acting, Effects
  <2>2. CASE Spawn(r)
    BY <2>0, <2>2, GuestType DEF Spawn, Did, To, TargetTypeOK, Phases, Acting, Effects
  <2>3. CASE Rebuilt(r)
    BY <2>3 DEF Rebuilt, Did, To, TargetTypeOK, Phases, Acting, Effects
  <2>4. CASE Broken(r)
    BY <2>0, <2>4 DEF Broken, To, TargetTypeOK, Phases, Guests
  <2>5. CASE StartGuest(r)
    <3>1. guest' \in Guests
      BY <2>0, <2>5, GuestType DEF StartGuest
    <3>2. QED
      BY <2>5, <3>1 DEF StartGuest, Did, To, TargetTypeOK, Phases, Effects
  <2>6. CASE TaskFails(r)
    BY <2>6 DEF TaskFails, To, TargetTypeOK, Phases
  <2>7. QED
    BY <1>4, <2>1, <2>2, <2>3, <2>4, <2>5, <2>6 DEF Task
<1>5. CASE SyncInventory
  BY <1>5, CachedType DEF SyncInventory, TargetTypeOK
<1>6. CASE Outside
  <2>1. targetLeft' \in [TargetEvents -> Nat]
    BY <1>6, TargetSpendType DEF Outside, Operate, ArchiveChanges, StorageChanges, TargetEvents
  <2>2. QED
    BY <1>6, <2>1 DEF Outside, Operate, ArchiveChanges, StorageChanges, TargetTypeOK
<1>7. CASE UNCHANGED targetVars
  BY <1>7 DEF targetVars, TargetTypeOK
<1>8. QED
  BY <1>1, <1>2, <1>3, <1>4, <1>5, <1>6, <1>7 DEF TargetNext
(***************************************************************************)
(* The digest, the rows and the phases                                     *)
(***************************************************************************)
LEMMA SidecarStep ==
    ASSUME TargetTypeOK, SidecarIsRight, [TargetNext]_targetVars PROVE SidecarIsRight'
<1> USE DEF hostVars, SidecarIsRight
<1>1. CASE UNCHANGED <<archive, sidecar, hashed, misfiled>>
  BY <1>1
<1>2. ASSUME NEW r \in RestoreIds, HashArchive(r) PROVE SidecarIsRight'
  <2>1. UNCHANGED <<archive, sidecar, misfiled>> /\ hashed' = [hashed EXCEPT ![r] = archive]
    BY <1>2 DEF HashArchive
  <2>2. QED
    BY <2>1 DEF TargetTypeOK
<1>3. ASSUME NEW r \in RestoreIds, WriteCache(r) PROVE SidecarIsRight'
  <2>1. UNCHANGED <<archive, hashed>>
    BY <1>3 DEF WriteCache
  <2>2. CASE UNCHANGED <<sidecar, misfiled>>
    BY <1>1, <2>1, <2>2
  <2>3. CASE sidecar' = hashed[r] /\ misfiled' = (misfiled \/ hashed[r] # archive)
    <3>1. archive' = "damaged" /\ sidecar' = "intact" => misfiled'
      BY <2>1, <2>3
    <3>2. QED
      BY <2>1, <2>3, <3>1
  <2>4. QED
    BY <1>3, <2>2, <2>3 DEF WriteCache
<1>4. CASE ArchiveChanges
  BY <1>4, NothingAssumption DEF ArchiveChanges
<1>5. ASSUME NEW r \in RestoreIds, Request(r) \/ TargetWorker(r)
      PROVE  UNCHANGED <<archive, sidecar, hashed, misfiled>>
  <2>0. UNCHANGED <<hostVars, digestVars>> \/ UNCHANGED <<hostVars, touchVars>>
          => UNCHANGED <<archive, sidecar, hashed, misfiled>>
    BY DEF digestVars, touchVars
  <2>1. \A w : Create(r, w) => UNCHANGED <<archive, sidecar, hashed, misfiled>>
    BY <2>0 DEF Create
  <2>2. Confirm(r) \/ Cancel(r) \/ ExpireStale(r)
          => UNCHANGED <<archive, sidecar, hashed, misfiled>>
    BY <2>0 DEF Confirm, Cancel, ExpireStale
  <2>3. TargetWorker(r) => UNCHANGED <<archive, sidecar, hashed, misfiled>>
    BY <2>0 DEF TargetWorker, Ask, GiveUp, Record
  <2>4. QED
    BY <1>5, <2>1, <2>2, <2>3 DEF Request
<1>6. ASSUME NEW r \in RestoreIds,
             Look(r) \/ AssertStoppable(r) \/ Accept(r) \/ Reject(r) \/ Task(r)
      PROVE  UNCHANGED <<archive, sidecar, hashed, misfiled>>
  BY <1>6 DEF Look, AssertStoppable, Accept, Reject, Task, StopGuest, Spawn, Rebuilt, Broken,
     StartGuest,
     TaskFails, digestVars
<1>7. SyncInventory \/ Operate \/ StorageChanges \/ UNCHANGED targetVars
        => UNCHANGED <<archive, sidecar, hashed, misfiled>>
  BY DEF SyncInventory, Operate, StorageChanges, targetVars, touchVars, digestVars
<1>8. QED
  BY <1>1, <1>2, <1>3, <1>4, <1>5, <1>6, <1>7 DEF TargetNext, Handler, Outside

\* What the requests and the worker do to the rows, and what the agent leaves alone.
LEMMA RowEffect ==
    ASSUME [TargetNext]_targetVars
    PROVE  \/ \E r \in RestoreIds, w \in Wishes : Create(r, w)
           \/ \E r \in RestoreIds : Confirm(r) \/ Cancel(r) \/ ExpireStale(r) \/ TargetWorker(r)
           \/ /\ UNCHANGED <<verdict, want>>
              /\ UNCHANGED phase \/ \E r \in RestoreIds : Handler(r) \/ Task(r)
  BY DEF TargetNext, Request, Outside, Operate, ArchiveChanges, StorageChanges, SyncInventory,
     Handler, Task, Look, AssertStoppable, HashArchive, WriteCache, Accept, Reject, StopGuest, Spawn,
     Rebuilt, Broken, StartGuest, TaskFails, recordVars, touchVars, targetVars

\* The agent moves from one phase that is not final to another.
LEMMA AgentMoves ==
    ASSUME TargetTypeOK, NEW r \in RestoreIds, Handler(r) \/ Task(r)
    PROVE  /\ phase[r] \in Handling \cup Acting
           /\ \A q \in RestoreIds \ {r} : phase'[q] = phase[q]
           /\ UNCHANGED <<verdict, want, digest, storage, archive, calm>>
<1>1. CASE Handler(r)
  BY <1>1 DEF Handler, Look, AssertStoppable, HashArchive, WriteCache, Accept, Reject,
     DigestReady, To,
     Handling, TargetTypeOK, recordVars, hostVars
<1>2. CASE Task(r)
  BY <1>2 DEF Task, StopGuest, Spawn, Rebuilt, Broken, StartGuest, TaskFails, To, Acting,
     TargetTypeOK,
     recordVars, hostVars
<1>3. QED
  BY <1>1, <1>2

LEMMA RowsStep == ASSUME TargetTypeOK, PhaseIsRows, [TargetNext]_targetVars PROVE PhaseIsRows'
<1> USE DEF PhaseIsRows, TargetTypeOK, Before, TargetInFlight
<1>1. ASSUME NEW r \in RestoreIds, NEW w \in Wishes, Create(r, w) PROVE PhaseIsRows'
  BY <1>1 DEF Create, NewRow, touchVars
<1>2. ASSUME NEW r \in RestoreIds, Confirm(r) PROVE PhaseIsRows'
  <2>1. /\ verdict[r] = "pending" /\ verdict' = [verdict EXCEPT ![r] = "confirmed"]
        /\ UNCHANGED <<want, phase>> /\ \A q \in RestoreIds : verdict[q] \notin TargetInFlight
    BY <1>2 DEF Confirm, TargetPreflight, NoneInFlight, touchVars
  <2>2. QED
    BY <2>1
<1>3. ASSUME NEW r \in RestoreIds, Cancel(r) \/ ExpireStale(r) PROVE PhaseIsRows'
  BY <1>3 DEF Cancel, ExpireStale, touchVars
<1>4. ASSUME NEW r \in RestoreIds, Ask(r) PROVE PhaseIsRows'
  BY <1>4 DEF Ask
<1>5. ASSUME NEW r \in RestoreIds, GiveUp(r) PROVE PhaseIsRows'
  BY <1>5 DEF GiveUp, Unanswered
<1>6. ASSUME NEW r \in RestoreIds, Record(r) PROVE PhaseIsRows'
  BY <1>6 DEF Record, touchVars
<1>7. ASSUME NEW r \in RestoreIds, Handler(r) \/ Task(r) PROVE PhaseIsRows'
  <2>1. /\ phase[r] \in Handling \cup Acting /\ \A q \in RestoreIds \ {r} : phase'[q] = phase[q]
        /\ UNCHANGED <<verdict, want>>
    BY <1>7, AgentMoves
  <2>2. QED
    BY <2>1 DEF Handling, Acting
<1>8. CASE UNCHANGED <<verdict, want, phase>>
  BY <1>8
<1>9. QED
  BY <1>1, <1>2, <1>3, <1>4, <1>5, <1>6, <1>7, <1>8, RowEffect DEF TargetWorker
(***************************************************************************)
(* What has been done                                                      *)
(***************************************************************************)
\* A restore whose row, wish, phase and deeds a step leaves alone keeps what is known of
\* its stage.
Stage(r) ==
    /\ phase[r] \in {"none", "refused"} \cup Handling => done[r] \subseteq {"verified"}
    /\ phase[r] \in {"hashed", "filed"} => hashed[r] # Nothing
    /\ phase[r] \in {"hashed", "filed"} /\ hashed[r] = "intact" => "verified" \in done[r]
    /\ phase[r] \in {"stopping", "spawn"} =>
          /\ done[r] \subseteq {"verified", "stopped"}
          /\ digest => ("verified" \in done[r] \/ misfiled)
    /\ phase[r] = "stopping" => StopFirst(r)
    /\ phase[r] = "restoring" => "rebuilt" \notin done[r]
    /\ phase[r] = "starting" => "rebuilt" \in done[r] /\ want[r].start
    /\ phase[r] = "success" => "rebuilt" \in done[r]
    /\ phase[r] \in {"failed", "cancelled"} => ("rebuilt" \in done[r] => want[r].start)
    /\ r \in seen =>
          /\ want[r].overwrite /\ phase[r] # "asked"
          /\ verdict[r] \notin {"none", "pending", "confirmed"}

LEMMA DoneIsStages == DoneByPhase <=> \A r \in RestoreIds : Stage(r)
  BY DEF DoneByPhase, Stage

LEMMA StageStays ==
    ASSUME NEW r, Stage(r), phase'[r] = phase[r], done'[r] = done[r], want'[r] = want[r],
           r \in seen' <=> r \in seen, UNCHANGED digest, hashed'[r] = hashed[r],
           misfiled => misfiled',
           verdict'[r] = verdict[r] \/ verdict[r] \in {"none", "pending", "confirmed"}
              \/ verdict'[r] \notin {"none", "pending", "confirmed"}
    PROVE  Stage(r)'
  BY DEF Stage, StopFirst, Plan

\* A handler and a task are of one restore, and leave the others alone.
LEMMA OthersStay ==
    ASSUME TargetTypeOK, NEW r \in RestoreIds, Handler(r) \/ Task(r)
    PROVE  /\ UNCHANGED <<want, digest, verdict>> /\ (misfiled => misfiled')
           /\ \A q \in RestoreIds \ {r} : /\ phase'[q] = phase[q] /\ done'[q] = done[q]
                                          /\ hashed'[q] = hashed[q] /\ (q \in seen' <=> q \in seen)
<1>1. CASE Handler(r)
  BY <1>1 DEF Handler, Look, AssertStoppable, HashArchive, WriteCache, Accept, Reject, LooksAt, To,
     TargetTypeOK, recordVars, digestVars
<1>2. CASE Task(r)
  BY <1>2 DEF Task, StopGuest, Spawn, Rebuilt, Broken, StartGuest, TaskFails, Did, To,
     TargetTypeOK, recordVars, digestVars
<1>3. QED
  BY <1>1, <1>2

LEMMA HandlerStage ==
    ASSUME TargetTypeOK, SidecarIsRight, PhaseIsRows, NEW r \in RestoreIds, Stage(r), Handler(r)
    PROVE  Stage(r)'
<1> USE DEF Stage, StopFirst, Plan, To, TargetTypeOK, recordVars, digestVars, Handling
<1>1. CASE Look(r)
  <2>1. verdict[r] \notin {"none", "pending", "confirmed"} /\ phase[r] = "asked"
    BY <1>1 DEF Look, PhaseIsRows, Before
  <2>2. Acceptable(want[r]) /\ Found # {} => want[r].overwrite
    BY DEF Acceptable
  <2>3. QED
    BY <1>1, <2>1, <2>2 DEF Look
<1>2. CASE AssertStoppable(r)
  BY <1>2 DEF AssertStoppable
<1>3. CASE HashArchive(r)
  <2>1. archive \in {"intact", "damaged"} /\ archive # Nothing
    BY <1>3, NothingAssumption DEF HashArchive
  <2>2. QED
    BY <1>3, <2>1 DEF HashArchive, LooksAt
<1>4. CASE WriteCache(r)
  BY <1>4 DEF WriteCache
<1>5. CASE Accept(r)
  <2>1. CASE phase[r] = "digest"
    <3>1. digest => (archive = "intact" \/ misfiled)
      BY <1>5, <2>1, NothingAssumption
         DEF Accept, DigestReady, Verified, Computed, ReadCached, SidecarIsRight
    <3>2. QED
      BY <1>5, <2>1, <3>1 DEF Accept, LooksAt
  <2>2. CASE phase[r] = "filed"
    <3>1. digest => hashed[r] = "intact"
      BY <1>5, <2>2 DEF Accept, Verified, Computed
    <3>2. QED
      BY <1>5, <2>2, <3>1 DEF Accept
  <2>3. QED
    BY <1>5, <2>1, <2>2 DEF Accept, DigestReady
<1>6. CASE Reject(r)
  BY <1>6 DEF Reject, DigestReady
<1>7. QED
  BY <1>1, <1>2, <1>3, <1>4, <1>5, <1>6 DEF Handler

LEMMA TaskStage ==
    ASSUME TargetTypeOK, NEW r \in RestoreIds, Stage(r), Task(r)
    PROVE  Stage(r)'
<1> USE DEF Stage, StopFirst, Plan, To, Did, TargetTypeOK, recordVars, digestVars, Handling
<1>1. CASE StopGuest(r)
  BY <1>1 DEF StopGuest
<1>2. CASE Spawn(r)
  BY <1>2 DEF Spawn
<1>3. CASE Rebuilt(r)
  BY <1>3 DEF Rebuilt
<1>4. CASE Broken(r)
  BY <1>4 DEF Broken
<1>5. CASE StartGuest(r)
  BY <1>5 DEF StartGuest
<1>6. CASE TaskFails(r)
  BY <1>6 DEF TaskFails
<1>7. QED
  BY <1>1, <1>2, <1>3, <1>4, <1>5, <1>6 DEF Task

LEMMA DoneStep ==
    ASSUME TargetTypeOK, SidecarIsRight, PhaseIsRows, DoneByPhase, [TargetNext]_targetVars
    PROVE  DoneByPhase'
<1>s. \A q \in RestoreIds : Stage(q)
  BY DoneIsStages
<1>g. SUFFICES ASSUME NEW q \in RestoreIds PROVE Stage(q)'
  BY DEF DoneByPhase, Stage
<1>1. ASSUME NEW r \in RestoreIds, Handler(r) \/ Task(r) PROVE Stage(q)'
  <2>1. CASE q = r
    BY <1>1, <1>s, <2>1, HandlerStage, TaskStage
  <2>2. CASE q # r
    <3>1. /\ phase'[q] = phase[q] /\ done'[q] = done[q] /\ hashed'[q] = hashed[q]
          /\ q \in seen' <=> q \in seen
          /\ want' = want /\ digest' = digest /\ verdict' = verdict /\ (misfiled => misfiled')
      BY <1>1, <2>2, OthersStay
    <3>2. want'[q] = want[q] /\ verdict'[q] = verdict[q] /\ (misfiled => misfiled')
      BY <3>1
    <3>3. QED
      BY <1>s, <3>1, <3>2, StageStays
  <2>3. QED
    BY <2>1, <2>2
<1>2. ASSUME NEW r \in RestoreIds, NEW w \in Wishes, Create(r, w) PROVE Stage(q)'
  <2>1. CASE q = r
    <3>1. phase[q] = "none" /\ phase'[q] = "none" /\ done'[q] = done[q] /\ seen' = seen
      BY <1>2, <2>1 DEF Create, NewRow, touchVars, PhaseIsRows, Before
    <3>2. q \notin seen
      BY <1>2, <1>s, <2>1 DEF Create, NewRow, Stage
    <3>3. QED
      BY <3>1, <3>2, <1>s DEF Stage, Handling
  <2>2. CASE q # r
    BY <1>2, <1>s, <2>2, StageStays DEF Create, NewRow, touchVars, digestVars, TargetTypeOK
  <2>3. QED
    BY <2>1, <2>2
<1>3. ASSUME NEW r \in RestoreIds, Confirm(r) \/ Cancel(r) \/ ExpireStale(r) \/ Record(r)
      PROVE  Stage(q)'
  BY <1>3, <1>s, StageStays DEF Confirm, Cancel, ExpireStale, Record, touchVars,
     digestVars, TargetTypeOK
<1>4. ASSUME NEW r \in RestoreIds, Ask(r) \/ GiveUp(r) PROVE Stage(q)'
  <2>1. CASE phase'[q] = phase[q]
    BY <1>4, <1>s, <2>1, StageStays DEF Ask, GiveUp, Unanswered, digestVars, TargetTypeOK
  <2>2. CASE phase'[q] # phase[q]
    <3>1. CASE Ask(q)
      BY <1>s, <3>1 DEF Ask, Stage, TargetTypeOK, PhaseIsRows, Before, Handling
    <3>2. CASE GiveUp(q) /\ phase[q] \in Handling
      BY <1>s, <2>2, <3>2 DEF GiveUp, Unanswered, Stage, TargetTypeOK, Handling
    <3>3. QED
      BY <1>4, <2>2, <3>1, <3>2 DEF Ask, GiveUp, TargetTypeOK
  <2>3. QED
    BY <2>1, <2>2
<1>5. CASE SyncInventory \/ Outside \/ UNCHANGED targetVars
  BY <1>5, <1>s, StageStays DEF SyncInventory, Outside, Operate, ArchiveChanges, StorageChanges,
     touchVars, digestVars, recordVars, targetVars
<1>6. QED
  BY <1>1, <1>2, <1>3, <1>4, <1>5 DEF TargetNext, Request, TargetWorker

\* What a row says of the guest is what its phase says of the task.
LEMMA VerdictFollows == ASSUME PhaseIsRows, DoneByPhase PROVE VerdictIsTrue
<1>1. ASSUME NEW r \in RestoreIds
      PROVE  /\ verdict[r] \in Before => done[r] \subseteq {"verified"}
             /\ verdict[r] = "success" => "rebuilt" \in done[r]
             /\ verdict[r] \in {"failed", "cancelled"} => ("rebuilt" \in done[r] => want[r].start)
  BY DEF PhaseIsRows, DoneByPhase, Before
<1>2. QED
  BY <1>1 DEF VerdictIsTrue

(***************************************************************************)
(* A true picture stays true                                               *)
(***************************************************************************)
\* The guest passes the checks of the agent for r.
Fits(r) == guest # Nothing => want[r].overwrite /\ guest.type = Type /\ (guest.up => want[r].stop)

Idle(q) == phase[q] \notin Handling \cup Acting

\* What StillAccepted says of one restore.
Accepted(r) ==
    /\ verdict[r] \notin {"none", "pending", "refused"}
    /\ verdict[r] \in TargetInFlight =>
          /\ archive = "intact" /\ storage = "ready" /\ phase[r] # "refused"
          /\ \A q \in RestoreIds \ {r} : Idle(q)
          /\ phase[r] \in {"none"} \cup Handling => Fits(r)

LEMMA StillIsAccepted == StillAccepted <=> \A r \in calm : Accepted(r)
  BY DEF StillAccepted, Accepted, Fits, Idle

LEMMA FitsStays ==
    ASSUME NEW r, Fits(r), guest' = guest, want'[r] = want[r]
    PROVE  Fits(r)'
  BY DEF Fits

\* A report on a true picture is of a guest that fits.
LEMMA ReportFits ==
    ASSUME TargetTypeOK, NEW r \in RestoreIds, TargetPreflight(want[r]), TruePicture
    PROVE  Fits(r) /\ archive = "intact" /\ storage = "ready" /\ \A q \in RestoreIds : Idle(q)
<1>1. archive = "intact" /\ storage = "ready" /\ \A q \in RestoreIds : Idle(q)
  BY DEF TargetPreflight, StorageFree, TruePicture, Idle
<1>2. inventory = guest /\ TargetFree(want[r]) /\ TargetTypeMatches(want[r])
         /\ TargetStopped(want[r])
  BY DEF TruePicture, TargetPreflight
<1>3. ASSUME guest # Nothing
      PROVE want[r].overwrite /\ guest.type = Type /\ (guest.up => want[r].stop)
  <2>1. guest \in Existing
    BY <1>2, <1>3 DEF Existing
  <2>2. QED
    BY <1>2, <2>1 DEF TargetFree, TargetTypeMatches, TargetStopped
<1>4. QED
  BY <1>1, <1>3 DEF Fits

\* The agent does not refuse a restore whose picture is true.
LEMMA NotRefused ==
    ASSUME TargetTypeOK, SidecarIsRight, DoneByPhase, NEW r \in RestoreIds, Handler(r),
           archive = "intact", storage = "ready", Fits(r), \A q \in RestoreIds \ {r} : Idle(q)
    PROVE  phase'[r] # "refused"
<1> USE DEF To, TargetTypeOK
<1>0. phase[r] \in Handling
  BY DEF Handler, Look, AssertStoppable, HashArchive, WriteCache, Accept, Reject, DigestReady,
     Handling
<1>1. ~SlotBusy
  BY <1>0 DEF SlotBusy, Idle, Handling, Acting
<1>2. DigestReady(r) => Verified(r)
  <2>1. phase[r] = "filed" => hashed[r] = "intact"
    BY DEF DoneByPhase, SidecarIsRight
  <2>2. ReadCached # Nothing => ReadCached = "intact"
    BY DEF ReadCached, SidecarIsRight
  <2>3. QED
    BY <2>1, <2>2 DEF DigestReady, Verified, Computed
<1>3. CASE Look(r)
  <2>1. Acceptable(want[r])
    BY DEF Acceptable, Resolved, StorageKnown, Found, Fits
  <2>2. QED
    BY <1>3, <2>1 DEF Look, Plan
<1>4. CASE AssertStoppable(r)
  <2>1. GuestStatus = "running" => want[r].stop
    BY DEF GuestStatus, Found, Fits
  <2>2. QED
    BY <1>4, <2>1 DEF AssertStoppable, Plan
<1>5. CASE HashArchive(r) \/ WriteCache(r) \/ Accept(r)
  BY <1>5 DEF HashArchive, WriteCache, Accept
<1>6. CASE Reject(r)
  BY <1>1, <1>2, <1>6 DEF Reject
<1>7. QED
  BY <1>3, <1>4, <1>5, <1>6 DEF Handler

\* The handler leaves the guest alone; a task that is past it has no check before it.
LEMMA TargetAgentStep ==
    ASSUME TargetTypeOK, SidecarIsRight, PhaseIsRows, DoneByPhase, NEW r \in RestoreIds,
           Handler(r) \/ Task(r), NEW c \in RestoreIds, Accepted(c)
    PROVE  Accepted(c)'
<1>1. /\ phase[r] \in Handling \cup Acting
      /\ \A q \in RestoreIds \ {r} : phase'[q] = phase[q]
      /\ UNCHANGED <<verdict, want, storage, archive>>
  BY AgentMoves
<1>2. ASSUME verdict[c] \in TargetInFlight PROVE r = c
  BY <1>1, <1>2 DEF Accepted, Idle
<1>3. ASSUME verdict[c] \in TargetInFlight
      PROVE  /\ phase'[c] # "refused" /\ \A q \in RestoreIds \ {c} : Idle(q)'
             /\ phase'[c] \in {"none"} \cup Handling => Fits(c)'
  <2>1. r = c
    BY <1>2, <1>3
  <2>2. \A q \in RestoreIds \ {c} : Idle(q)'
    BY <1>1, <1>3, <2>1 DEF Accepted, Idle
  <2>3. CASE Handler(r)
    <3>1. guest' = guest
      BY <2>3 DEF Handler, Look, AssertStoppable, HashArchive, WriteCache, Accept, Reject, hostVars
    <3>2. phase[r] \in Handling
      BY <2>3 DEF Handler, Look, AssertStoppable, HashArchive, WriteCache, Accept, Reject,
         DigestReady,
         Handling
    <3>3. Fits(c)
      BY <1>3, <2>1, <3>2 DEF Accepted
    <3>4. Fits(c)'
      BY <1>1, <3>1, <3>3, FitsStays
    <3>5. phase'[c] # "refused"
      BY <1>3, <2>1, <2>3, <3>3, NotRefused DEF Accepted
    <3>6. QED
      BY <2>2, <3>4, <3>5
  <2>4. CASE Task(r)
    <3>1. phase'[r] \in Acting \cup {"success", "failed", "cancelled"}
      BY <2>4 DEF Task, StopGuest, Spawn, Rebuilt, Broken, StartGuest, TaskFails, To, Acting,
         TargetTypeOK
    <3>2. QED
      BY <2>1, <2>2, <3>1 DEF Acting, Handling
  <2>5. QED
    BY <2>3, <2>4
<1>4. QED
  BY <1>1, <1>3 DEF Accepted

LEMMA StillStep ==
    ASSUME TargetTypeOK, SidecarIsRight, PhaseIsRows, DoneByPhase, StillAccepted,
           [TargetNext]_targetVars
    PROVE  StillAccepted'
<1>s. \A c \in calm : c \in RestoreIds /\ Accepted(c)
  BY StillIsAccepted DEF TargetTypeOK
<1>g. SUFFICES ASSUME NEW c \in RestoreIds, c \in calm' PROVE Accepted(c)'
  <2>1. calm' \subseteq RestoreIds
    BY TargetTypeNext DEF TargetTypeOK
  <2>2. QED
    BY <2>1 DEF StillAccepted, Accepted, Fits, Idle
<1>1. ASSUME NEW r \in RestoreIds, Handler(r) \/ Task(r) PROVE Accepted(c)'
  BY <1>1, <1>s, <1>g, AgentMoves, TargetAgentStep
<1>2. ASSUME NEW r \in RestoreIds, NEW w \in Wishes, Create(r, w) PROVE Accepted(c)'
  <2>1. /\ c \in calm /\ verdict[r] = "none" /\ verdict' = [verdict EXCEPT ![r] = "pending"]
        /\ want' = [want EXCEPT ![r] = w]
        /\ UNCHANGED <<guest, archive, storage, phase>>
    BY <1>2, <1>g DEF Create, NewRow, touchVars, hostVars
  <2>2. c # r /\ verdict'[c] = verdict[c] /\ want'[c] = want[c]
    BY <1>s, <2>1 DEF Accepted, TargetTypeOK
  <2>3. QED
    BY <1>s, <2>1, <2>2 DEF Accepted, Fits, Idle
<1>3. ASSUME NEW r \in RestoreIds, Confirm(r) PROVE Accepted(c)'
  <2>1. /\ verdict[r] = "pending" /\ verdict' = [verdict EXCEPT ![r] = "confirmed"]
        /\ TargetPreflight(want[r])
        /\ UNCHANGED <<guest, archive, storage, phase, want>>
    BY <1>3 DEF Confirm, RequestFrom, touchVars, hostVars
  <2>2. CASE c = r
    <3>1. TruePicture
      BY <1>3, <1>g, <1>s, <2>1, <2>2 DEF Confirm, Accepted
    <3>2. Fits(c) /\ archive = "intact" /\ storage = "ready" /\ \A q \in RestoreIds : Idle(q)
      BY <2>1, <2>2, <3>1, ReportFits
    <3>3. verdict'[c] = "confirmed" /\ phase[c] = "none"
      BY <2>1, <2>2 DEF TargetTypeOK, PhaseIsRows, Before
    <3>4. QED
      BY <2>1, <3>2, <3>3 DEF Accepted, Fits, Idle, TargetInFlight
  <2>3. CASE c # r
    <3>1. c \in calm /\ verdict'[c] = verdict[c]
      BY <1>3, <1>g, <2>1, <2>3 DEF Confirm, TargetTypeOK
    <3>2. QED
      BY <1>s, <2>1, <3>1 DEF Accepted, Fits, Idle
  <2>4. QED
    BY <2>2, <2>3
<1>4. ASSUME NEW r \in RestoreIds, Cancel(r) \/ ExpireStale(r) \/ Record(r) PROVE Accepted(c)'
  <2>1. /\ c \in calm /\ verdict' = [verdict EXCEPT ![r] = verdict'[r]]
        /\ verdict'[r] \notin {"none", "pending"} \cup TargetInFlight
        /\ verdict[r] # "running" => verdict'[r] # "refused"
        /\ verdict[r] = "running" => verdict'[r] = phase[r]
        /\ UNCHANGED <<guest, archive, storage, phase, want>>
    BY <1>4, <1>g DEF Cancel, ExpireStale, Record, touchVars, hostVars, TargetTypeOK,
       TargetInFlight
  <2>2. CASE c = r
    BY <1>s, <2>1, <2>2 DEF Accepted, TargetInFlight
  <2>3. CASE c # r
    <3>1. verdict'[c] = verdict[c]
      BY <2>1, <2>3 DEF TargetTypeOK
    <3>2. QED
      BY <1>s, <2>1, <3>1 DEF Accepted, Fits, Idle
  <2>4. QED
    BY <2>2, <2>3
<1>5. ASSUME NEW r \in RestoreIds, Ask(r) PROVE Accepted(c)'
  <2>1. /\ c \in calm /\ verdict[r] = "confirmed" /\ verdict' = [verdict EXCEPT ![r] = "running"]
        /\ phase' = [phase EXCEPT ![r] = "asked"]
        /\ UNCHANGED <<guest, archive, storage, want>>
    BY <1>5, <1>g DEF Ask, hostVars
  <2>2. CASE c = r
    <3>1. phase[c] = "none" /\ phase'[c] = "asked" /\ verdict'[c] = "running"
      BY <2>1, <2>2 DEF PhaseIsRows, Before, TargetTypeOK
    <3>2. Fits(c) /\ \A q \in RestoreIds \ {c} : phase'[q] = phase[q]
      BY <1>s, <2>1, <2>2, <3>1 DEF Accepted, TargetInFlight, TargetTypeOK
    <3>3. QED
      BY <1>s, <2>1, <2>2, <3>1, <3>2 DEF Accepted, Fits, Idle, TargetInFlight
  <2>3. CASE c # r
    <3>1. verdict'[c] = verdict[c] /\ verdict[c] \notin TargetInFlight
      BY <2>1, <2>3 DEF PhaseIsRows, TargetInFlight, TargetTypeOK
    <3>2. QED
      BY <1>s, <2>1, <3>1 DEF Accepted
  <2>4. QED
    BY <2>2, <2>3
<1>6. ASSUME NEW r \in RestoreIds, GiveUp(r) PROVE Accepted(c)'
  <2>1. /\ c \in calm /\ verdict[r] = "running"
        /\ verdict' = [verdict EXCEPT ![r] = "interrupted"]
        /\ UNCHANGED <<guest, archive, storage, want>>
    BY <1>6, <1>g DEF GiveUp, Unanswered, hostVars
  <2>2. CASE c = r
    BY <2>1, <2>2 DEF Accepted, TargetInFlight, TargetTypeOK
  <2>3. CASE c # r
    <3>1. verdict'[c] = verdict[c] /\ verdict[c] \notin TargetInFlight
      BY <2>1, <2>3 DEF PhaseIsRows, TargetInFlight, TargetTypeOK
    <3>2. QED
      BY <1>s, <2>1, <3>1 DEF Accepted
  <2>4. QED
    BY <2>2, <2>3
<1>7. CASE SyncInventory \/ UNCHANGED targetVars
  BY <1>7, <1>g, <1>s DEF SyncInventory, targetVars, Accepted, Fits, Idle, hostVars, recordVars,
     touchVars
<1>8. CASE Outside
  BY <1>8, <1>g DEF Outside, Operate, ArchiveChanges, StorageChanges
<1>9. QED
  BY <1>1, <1>2, <1>3, <1>4, <1>5, <1>6, <1>7, <1>8 DEF TargetNext, Request, TargetWorker
(***************************************************************************)
(* The theorems                                                            *)
(***************************************************************************)
LEMMA InitConsistent == TargetInit => Consistent
<1> SUFFICES ASSUME TargetInit PROVE Consistent
  OBVIOUS
<1>1. TargetTypeOK
  BY TargetTypeInit
<1>2. SidecarIsRight
  BY NothingAssumption DEF TargetInit, SidecarIsRight
<1>3. PhaseIsRows /\ DoneByPhase
  BY DEF TargetInit, PhaseIsRows, DoneByPhase, Before, TargetInFlight, Handling
<1>4. StillAccepted
  BY DEF TargetInit, StillAccepted
<1>5. QED
  BY <1>1, <1>2, <1>3, <1>4, VerdictFollows DEF Consistent

LEMMA ConsistentStep == Consistent /\ [TargetNext]_targetVars => Consistent'
<1>v. PhaseIsRows /\ DoneByPhase => VerdictIsTrue
  BY VerdictFollows
<1> SUFFICES ASSUME Consistent, [TargetNext]_targetVars PROVE Consistent'
  OBVIOUS
<1>1. TargetTypeOK' /\ SidecarIsRight'
  BY TargetTypeNext, SidecarStep DEF Consistent
<1>2. PhaseIsRows' /\ DoneByPhase'
  BY RowsStep, DoneStep DEF Consistent
<1>3. StillAccepted'
  BY StillStep DEF Consistent
<1>4. VerdictIsTrue'
  BY <1>2, <1>v, PTL
<1>5. QED
  BY <1>1, <1>2, <1>3, <1>4 DEF Consistent

\* What the row tells the operator of the guest is what the agent did to it: nothing for a
\* restore that was refused or never confirmed, a rebuilt guest for a success.
THEOREM TargetInvariance == TargetSpec => []Consistent
  BY InitConsistent, ConsistentStep, PTL DEF TargetSpec

\* The checks of the agent agree with the report of the dashboard: a restore confirmed on
\* a true picture is not refused unless something has changed since.
THEOREM NoIdleRefusal == TargetSpec => []RefusalIsNews
<1>1. Consistent => RefusalIsNews
  <2>1. ASSUME Consistent, NEW r \in RestoreIds, verdict[r] = "refused" PROVE r \notin calm
    BY <2>1 DEF Consistent, StillAccepted
  <2>2. QED
    BY <2>1 DEF RefusalIsNews
<1>2. QED
  BY <1>1, TargetInvariance, PTL

\* What a step does for a restore, it does at a phase of its task.
LEMMA Touched ==
    ASSUME TargetTypeOK, [TargetNext]_targetVars, NEW r \in RestoreIds, New(r) # {}
    PROVE  HashArchive(r) \/ Accept(r) \/ StopGuest(r) \/ Spawn(r) \/ Rebuilt(r) \/ StartGuest(r)
<1>1. ASSUME UNCHANGED done PROVE FALSE
  BY <1>1 DEF New
<1>2. ASSUME NEW q \in RestoreIds, Handler(q) \/ Task(q)
      PROVE  HashArchive(r) \/ Accept(r) \/ StopGuest(r) \/ Spawn(r) \/ Rebuilt(r) \/ StartGuest(r)
  <2>1. q = r
    BY <1>2, OthersStay DEF New
  <2>2. QED
    BY <1>1, <1>2, <2>1 DEF Handler, Task, Look, AssertStoppable, WriteCache, Reject, Broken,
       TaskFails
<1>3. ASSUME NEW q \in RestoreIds, Request(q) \/ TargetWorker(q) PROVE FALSE
  <2>1. \A w : Create(q, w) => UNCHANGED done
    BY DEF Create, touchVars
  <2>2. QED
    BY <1>1, <1>3, <2>1 DEF Request, Confirm, Cancel, ExpireStale, TargetWorker, Ask,
       GiveUp, Record, touchVars
<1>4. SyncInventory \/ Outside \/ UNCHANGED targetVars => UNCHANGED done
  BY DEF SyncInventory, Outside, Operate, ArchiveChanges, StorageChanges, touchVars, targetVars
<1>5. QED
  BY <1>1, <1>2, <1>3, <1>4 DEF TargetNext

\* However old what the report, the confirmation and the agent saw: the guest is touched
\* for a restore that was confirmed and not withdrawn, stopped and destroyed only where
\* that was asked, never while it runs; and where a digest was recorded, the agent looked at
\* the archive while that was intact, unless it trusted a digest cached beside an archive that
\* had been rewritten since it was hashed.
THEOREM TouchedAsConfirmed == TargetSpec => TouchesAsConfirmed
<1>1. ASSUME Consistent, [TargetNext]_targetVars, NEW r \in RestoreIds
      PROVE  /\ New(r) \subseteq {"verified"} \/ verdict[r] \in {"running", "interrupted"}
             /\ "stopped" \in New(r) => (want[r].overwrite /\ want[r].stop)
             /\ "destroyed" \in New(r) =>
                  /\ want[r].overwrite /\ guest.type = Type /\ ~guest.up
                  /\ digest => ("verified" \in done[r] \/ misfiled)
  <2>0. TargetTypeOK /\ PhaseIsRows /\ DoneByPhase
    BY <1>1 DEF Consistent
  <2>1. CASE New(r) = {}
    BY <2>1
  <2>2. CASE HashArchive(r) \/ Accept(r)
    BY <2>0, <2>2 DEF HashArchive, Accept, LooksAt, New, TargetTypeOK
  <2>3. phase[r] \in Acting => verdict[r] \in {"running", "interrupted"}
    BY <2>0 DEF PhaseIsRows, Acting, Before, TargetTypeOK, Verdicts
  <2>4. CASE StopGuest(r)
    <3>1. New(r) \subseteq {"stopped"} /\ phase[r] = "stopping"
      BY <2>0, <2>4 DEF StopGuest, Did, New, TargetTypeOK
    <3>2. want[r].overwrite /\ want[r].stop
      BY <2>0, <3>1 DEF DoneByPhase, StopFirst, Plan
    <3>3. QED
      BY <2>3, <3>1, <3>2 DEF Acting
  <2>5. CASE Spawn(r)
    <3>1. New(r) \subseteq {"destroyed"} /\ phase[r] = "spawn"
      BY <2>0, <2>5 DEF Spawn, Did, New, TargetTypeOK
    <3>2. "destroyed" \in New(r) => guest # Nothing
      BY <2>0, <2>5 DEF Spawn, Did, New, TargetTypeOK
    <3>3. guest # Nothing => want[r].overwrite /\ guest.type = Type /\ ~guest.up
      BY <2>5 DEF Spawn, Restorable, Forced, Plan
    <3>4. digest => ("verified" \in done[r] \/ misfiled)
      BY <2>0, <3>1 DEF DoneByPhase
    <3>5. QED
      BY <2>3, <3>1, <3>2, <3>3, <3>4 DEF Acting
  <2>6. CASE Rebuilt(r) \/ StartGuest(r)
    <3>1. New(r) \subseteq {"rebuilt", "started"} /\ phase[r] \in Acting
      BY <2>0, <2>6 DEF Rebuilt, StartGuest, Did, New, TargetTypeOK, Acting
    <3>2. QED
      BY <2>3, <3>1
  <2>7. QED
    BY <1>1, <2>0, <2>1, <2>2, <2>4, <2>5, <2>6, Touched
<1>2. Consistent /\ [TargetNext]_targetVars =>
        [\A r \in RestoreIds :
           /\ New(r) \subseteq {"verified"} \/ verdict[r] \in {"running", "interrupted"}
           /\ "stopped" \in New(r) => (want[r].overwrite /\ want[r].stop)
           /\ "destroyed" \in New(r) =>
                /\ want[r].overwrite /\ guest.type = Type /\ ~guest.up
                /\ digest => ("verified" \in done[r] \/ misfiled)]_targetVars
  BY <1>1
<1>3. QED
  BY <1>2, TargetInvariance, PTL DEF TargetSpec, TouchesAsConfirmed

=============================================================================
