--------------------------- MODULE SyncQueueProofs ---------------------------
(***************************************************************************)
(* Theorems about SyncQueue, for every set of backups and tasks, every     *)
(* number of attempts and every budget of requests and faults.             *)
(***************************************************************************)
EXTENDS SyncQueue, TLAPS

Statuses == {"none", "success", "failed", "cancelled"} \cup Active
Stations == {"down", "loop", "enqueue", "claim", "claiming", "erring", "dead"}
               \cup Executing
Slots == [task : Tasks, followed : BOOLEAN, stored : BOOLEAN, killed : BOOLEAN]

(***************************************************************************)
(* What a step can do to each group of variables                           *)
(***************************************************************************)
\* The worker lets go of the task in hand: the process or the worker ends, or it goes
\* back to its queue.
LetsGo ==
    /\ Unfollow /\ result' = "none" /\ pc' \in {"down", "loop", "dead"}

RowEffect ==
    \/ UNCHANGED <<taskVars, copyVars>>
    \/ UploadCommit \/ VerifyCommit \/ CancelCommit \/ DeleteRecord \/ Boot
    \/ EnqueueWrite \/ ClaimWrite \/ Load \/ RecordSuccess \/ RecordFailure
    \/ \E t \in Tasks : RetryTask(t) \/ Elapse(t)

FileEffect ==
    \/ UNCHANGED fileVars
    \/ DeleteFile \/ TransferSucceeds \/ \E b \in Backups : DriveLoses(b)

SlotEffect ==
    \/ UNCHANGED <<slot, result>>
    \/ \E e \in Ends : slot # None /\ Answer(e) /\ (e = "success" => TransferSucceeds)
    \/ LetsGo \/ StartAccepted \/ StartUnreachable \/ AttachTask \/ Boot
    \/ \E t \in Tasks : CancelBegin(t) \/ RetryTask(t)

LaneEffect ==
    \/ UNCHANGED <<api, deletion>>
    \/ api' = None /\ deletion' = None
    \/ \E b \in Backups, p \in Places : RetireBegin(b, p)
    \/ \E b \in Backups : UploadBegin(b) \/ VerifyBegin(b) \/ DeleteBegin(b)
    \/ \E t \in Tasks : CancelBegin(t)
    \/ UploadCommit \/ VerifyCommit \/ CancelCommit \/ HandlerFails
    \/ DeleteFile \/ DeleteRecord \/ DeleteFails

WorkEffect ==
    \/ UNCHANGED <<pc, cur, seen>>
    \/ Worker \/ Boot \/ Crash \/ Exit \/ QueueError \/ WorkError \/ WorkerDies

\* What the API, the deletions and the world outside do.
LEMMA OthersEffects ==
    ASSUME Begin \/ End \/ Deletions \/ Outside \/ (\E t \in Tasks : Elapse(t)) \/ Stop
           \/ UNCHANGED vars
    PROVE  /\ UNCHANGED <<pc, cur, seen>>
           /\ RowEffect /\ FileEffect /\ SlotEffect /\ LaneEffect
<1>1. CASE Begin
  BY <1>1 DEF Begin, UploadBegin, VerifyBegin, CancelBegin, RetryTask, Handle, RowEffect,
     FileEffect, SlotEffect, LaneEffect, taskVars, copyVars, fileVars, workVars
<1>2. CASE End
  BY <1>2 DEF End, UploadCommit, VerifyCommit, CancelCommit, HandlerFails, Commit, RowEffect,
     FileEffect, SlotEffect, LaneEffect, taskVars, copyVars, fileVars, workVars
<1>3. CASE Deletions
  BY <1>3 DEF Deletions, DeleteBegin, RetireBegin, BeginDeletion, DeleteFile, DeleteRecord,
     DeleteFails, RowEffect, FileEffect, SlotEffect, LaneEffect, taskVars, copyVars,
     fileVars, workVars
<1>4. CASE Outside
  BY <1>4 DEF Outside, TransferEnds, TransferSucceeds, TransferFails, TransferCancelled,
     AgentRestart, DriveLoses, Answer, Ends, RowEffect, FileEffect, SlotEffect, LaneEffect,
     taskVars, copyVars, fileVars, workVars
<1>5. CASE (\E t \in Tasks : Elapse(t)) \/ Stop \/ UNCHANGED vars
  BY <1>5 DEF Elapse, Stop, vars, RowEffect, FileEffect, SlotEffect, LaneEffect, taskVars,
     copyVars, fileVars, workVars
<1>6. QED
  BY <1>1, <1>2, <1>3, <1>4, <1>5

\* What the worker and the process that runs it do.
LEMMA WorkerEffects ==
    ASSUME Worker \/ Boot \/ Crash \/ Exit \/ QueueError \/ WorkError \/ WorkerDies
    PROVE  /\ RowEffect /\ UNCHANGED fileVars /\ SlotEffect
           /\ UNCHANGED <<api, deletion>> \/ (api' = None /\ deletion' = None)
<1>1. CASE Boot \/ Crash \/ Exit \/ QueueError \/ WorkError \/ WorkerDies
  BY <1>1 DEF Boot, Crash, Exit, QueueError, WorkError, WorkerDies, Forget, Leave, Goto,
     WorkerStep, RowEffect, SlotEffect, LetsGo, taskVars, copyVars
<1>2. CASE PollStopped \/ RecordSuccess \/ RecordFailure
  BY <1>2 DEF PollStopped, RecordSuccess, RecordFailure, Leave, WorkerStep, RowEffect,
     SlotEffect, LetsGo
<1>3. CASE Worker /\ ~(PollStopped \/ RecordSuccess \/ RecordFailure)
  BY <1>3 DEF Worker, EnqueueRead, EnqueueWrite, EnqueueNone, ClaimRead, ClaimNone,
     ClaimWrite, Load, StartAccepted, StartRefused, StartUnreachable, AttachTask, PollDone,
     PollGivesUp, Goto, WorkerStep, RowEffect, SlotEffect
<1>4. QED
  BY <1>1, <1>2, <1>3

LEMMA Effects ==
    ASSUME [Next]_vars
    PROVE  RowEffect /\ FileEffect /\ SlotEffect /\ LaneEffect /\ WorkEffect
  BY OthersEffects, WorkerEffects DEF Next, Failure, FileEffect, LaneEffect, WorkEffect

(***************************************************************************)
(* Types                                                                   *)
(***************************************************************************)
LEMMA NoneIsNone == None \notin Tasks /\ None \notin Backups
  BY TasksAssumption

LEMMA SpendType == ASSUME TypeOK, NEW e \in Events, Spend(e) PROVE left' \in [Events -> Nat]
  BY DEF TypeOK, Spend

LEMMA LeftType == ASSUME TypeOK, [Next]_vars PROVE left' \in [Events -> Nat]
<1>t. left \in [Events -> Nat]
  BY DEF TypeOK
<1>1. \/ UNCHANGED left
      \/ \E e \in Events : Spend(e)
  <2>1. CASE Begin \/ End \/ Deletions
    BY <2>1 DEF Begin, UploadBegin, VerifyBegin, CancelBegin, RetryTask, End, UploadCommit,
       VerifyCommit, CancelCommit, HandlerFails, Commit, Deletions, DeleteBegin,
       RetireBegin, DeleteFile, DeleteRecord, DeleteFails, Events
  <2>2. CASE Outside \/ (\E t \in Tasks : Elapse(t)) \/ UNCHANGED vars
    BY <2>2 DEF Outside, TransferEnds, TransferSucceeds, TransferFails, TransferCancelled,
       AgentRestart, DriveLoses, Elapse, vars, Events
  <2>3. CASE Boot \/ Exit \/ Failure
    BY <2>3 DEF Boot, Exit, Failure, Crash, Stop, QueueError, WorkError, WorkerDies, Events
  <2>4. CASE Worker
    BY <2>4 DEF Worker, EnqueueRead, EnqueueWrite, EnqueueNone, ClaimRead, ClaimNone,
       ClaimWrite, Load, StartAccepted, StartRefused, StartUnreachable, AttachTask,
       PollDone, PollGivesUp, PollStopped, RecordSuccess, RecordFailure, Events
  <2>5. QED
    BY <2>1, <2>2, <2>3, <2>4 DEF Next
<1>2. QED
  BY <1>t, <1>1, SpendType
RowsType ==
    /\ status \in [Tasks -> Statuses] /\ attempt \in [Tasks -> Nat]
    /\ of \in [Tasks -> Backups \cup {None}]
    /\ \A t \in Tasks : of[t] = None <=> status[t] = "none"
    /\ waiting \subseteq Tasks
    /\ upload \in [Backups -> Uploads] /\ linked \subseteq Backups
    /\ gone \subseteq Backups \X Places

FilesType ==
    /\ copies \in [Places -> SUBSET Backups] /\ taken \subseteq Backups \X Places

WorkType ==
    /\ pc \in Stations /\ cur \in Tasks \cup {None}
    /\ seen \in Backups \cup Nat \cup {None} /\ stopping \in BOOLEAN
    /\ pc \in Executing \cup {"claiming", "erring"} => cur \in Tasks

SlotType ==
    slot \in {None} \cup Slots /\ result \in {"none", "running"} \cup Ends

LanesType ==
    /\ api \in {None} \cup [op : {"upload", "verify", "cancel"},
                             id : Backups \cup Tasks, match : BOOLEAN]
    /\ deletion \in {None} \cup [backup : Backups, place : Places,
                                  by : {"retention", "operator"}, deleted : BOOLEAN]

LEMMA TypeParts ==
    /\ TypeOK <=> /\ RowsType /\ FilesType /\ WorkType /\ SlotType /\ LanesType
                  /\ left \in [Events -> Nat]
    /\ TypeOK' <=> /\ RowsType' /\ FilesType' /\ WorkType' /\ SlotType' /\ LanesType'
                   /\ left' \in [Events -> Nat]
  BY DEF TypeOK, RowsType, FilesType, WorkType, SlotType, LanesType, Statuses, Stations, Slots

\* The row of the task in hand is known, and so is the backup it is of.
LEMMA InHand ==
    ASSUME IInv, pc \in Executing \cup {"claiming", "erring"}
    PROVE  cur \in Tasks /\ status[cur] # "none" /\ of[cur] \in Backups
  BY DEF IInv, TypeOK, Registers, Known

\* What a handler commits is about a backup, or about a row that is there.
LEMMA Handling ==
    ASSUME IInv, api # None
    PROVE  /\ api.op \in {"upload", "verify", "cancel"} /\ api.match \in BOOLEAN
           /\ api.op = "cancel" => /\ api.id \in Tasks /\ status[api.id] # "none"
                                   /\ of[api.id] \in Backups
           /\ api.op # "cancel" => api.id \in Backups
           /\ deletion = None
<1>1. api \in [op : {"upload", "verify", "cancel"}, id : Backups \cup Tasks, match : BOOLEAN]
  BY DEF IInv, TypeOK
<1>2. QED
  BY <1>1 DEF IInv, TypeOK, HandlerIsCurrent, Known

LEMMA RowsStep == ASSUME IInv, [Next]_vars PROVE RowsType'
<1>t. RowsType
  BY TypeParts DEF IInv
<1> USE DEF RowsType, Statuses, Active, Uploads
<1>u. ASSUME NEW b, NEW s \in Uploads, SetUpload(b, s) PROVE upload' \in [Backups -> Uploads]
  BY <1>t, <1>u DEF SetUpload
<1>e. ASSUME NEW t \in Tasks, NEW b \in Backups, Enqueue(t, b)
      PROVE  /\ status' \in [Tasks -> Statuses] /\ of' \in [Tasks -> Backups \cup {None}]
             /\ \A s \in Tasks : of'[s] = None <=> status'[s] = "none"
             /\ UNCHANGED <<attempt, waiting>>
  BY <1>t, <1>e, NoneIsNone DEF Enqueue
<1>1. CASE UploadCommit
  <2>1. api.id \in Backups
    BY <1>1, Handling DEF UploadCommit, Commit
  <2>2. QED
    BY <1>1, <1>t, <1>e, <1>u, <2>1 DEF UploadCommit
<1>2. CASE VerifyCommit
  <2>1. api.id \in Backups /\ Verification(api.id, api.match) \in Uploads
    BY <1>2, <1>t, Handling DEF VerifyCommit, Commit, Verification
  <2>2. upload' \in [Backups -> Uploads]
    BY <1>2, <1>u, <2>1 DEF VerifyCommit
  <2>3. QED
    BY <1>2, <1>t, <2>2 DEF VerifyCommit, taskVars
<1>3. CASE CancelCommit
  <2>1. api.id \in Tasks /\ status[api.id] # "none"
    BY <1>3, Handling DEF CancelCommit, Commit
  <2>2. upload' \in [Backups -> Uploads]
    BY <1>3, <1>u DEF CancelCommit
  <2>3. QED
    BY <1>3, <1>t, <2>1, <2>2 DEF CancelCommit
<1>4. CASE DeleteRecord
  <2>1. deletion \in [backup : Backups, place : Places, by : {"retention", "operator"},
                      deleted : BOOLEAN]
    BY <1>4 DEF DeleteRecord, IInv, TypeOK
  <2>2. QED
    BY <1>4, <1>t, <2>1 DEF DeleteRecord, taskVars
<1>5. CASE Boot
  <2>1. attempt' \in [Tasks -> Nat]
    BY <1>5, <1>t DEF Boot, Caught
  <2>2. QED
    BY <1>5, <1>t, <2>1 DEF Boot, Caught, Forget, copyVars
<1>6. CASE EnqueueWrite
  <2>1. seen \in Backups
    BY <1>6 DEF EnqueueWrite, IInv, Registers
  <2>2. QED
    BY <1>6, <1>t, <1>e, <2>1 DEF EnqueueWrite, copyVars
<1>7. CASE ClaimWrite
  <2>1. cur \in Tasks /\ status[cur] # "none" /\ seen \in Nat
    BY <1>7, InHand DEF ClaimWrite, IInv, Registers
  <2>2. QED
    BY <1>7, <1>t, <2>1 DEF ClaimWrite, copyVars
<1>8. CASE Load
  BY <1>8, <1>t, <1>u DEF Load, taskVars
<1>9. CASE RecordSuccess
  <2>1. cur \in Tasks /\ status[cur] # "none" /\ of[cur] \in Backups
    BY <1>9, InHand DEF RecordSuccess, Executing
  <2>2. upload' \in [Backups -> Uploads]
    BY <1>9, <1>u DEF RecordSuccess
  <2>3. QED
    BY <1>9, <1>t, <2>1, <2>2 DEF RecordSuccess
<1>10. CASE RecordFailure
  <2>1. cur \in Tasks /\ status[cur] # "none"
    BY <1>10, InHand DEF RecordFailure, Executing
  <2>2. upload' \in [Backups -> Uploads]
    BY <1>10, <1>u DEF RecordFailure, UploadAfter
  <2>3. status' \in [Tasks -> Statuses] /\ waiting' \subseteq Tasks /\ status'[cur] # "none"
        /\ \A t \in Tasks \ {cur} : status'[t] = status[t]
    BY <1>10, <1>t, <2>1 DEF RecordFailure
  <2>4. QED
    BY <1>10, <1>t, <2>1, <2>2, <2>3 DEF RecordFailure
<1>11. ASSUME NEW t \in Tasks, RetryTask(t) PROVE RowsType'
  <2>1. upload' \in [Backups -> Uploads]
    BY <1>11, <1>u DEF RetryTask
  <2>2. QED
    BY <1>11, <1>t, <2>1 DEF RetryTask, Known
<1>12. ASSUME NEW t \in Tasks, Elapse(t) PROVE RowsType'
  BY <1>12, <1>t DEF Elapse, copyVars
<1>13. CASE UNCHANGED <<taskVars, copyVars>>
  BY <1>13, <1>t DEF taskVars, copyVars
<1>14. QED
  BY <1>1, <1>2, <1>3, <1>4, <1>5, <1>6, <1>7, <1>8, <1>9, <1>10, <1>11, <1>12, <1>13,
     Effects DEF RowEffect

\* A copy that arrived stays so, or is known to have been deleted or lost.
LEMMA FilesStep ==
    ASSUME IInv, [Next]_vars
    PROVE  FilesType' /\ \A b \in Backups : Arrived(b) => Arrived(b)'
<1>t. FilesType
  BY TypeParts DEF IInv
<1> USE DEF FilesType, Arrived, Drive, Places
<1>1. CASE UNCHANGED fileVars
  BY <1>1, <1>t DEF fileVars
<1>2. CASE DeleteFile
  <2>1. /\ deletion \in [backup : Backups, place : Places, by : {"retention", "operator"},
                         deleted : BOOLEAN]
        /\ deletion.by # "retention" => deletion.place = "host"
    BY <1>2 DEF DeleteFile, IInv, TypeOK, DeletionIsOfUploaded
  <2>2. QED
    BY <1>2, <1>t, <2>1 DEF DeleteFile
<1>3. CASE TransferSucceeds
  <2>1. of[slot.task] \in Backups
    BY <1>3 DEF TransferSucceeds, IInv, TypeOK, Registers, Known
  <2>2. QED
    BY <1>3, <1>t, <2>1 DEF TransferSucceeds
<1>4. ASSUME NEW b \in Backups, DriveLoses(b)
      PROVE  FilesType' /\ \A c \in Backups : Arrived(c) => Arrived(c)'
  BY <1>4, <1>t DEF DriveLoses
<1>5. QED
  BY <1>1, <1>2, <1>3, <1>4, Effects DEF FileEffect

LEMMA SlotStep == ASSUME IInv, [Next]_vars PROVE SlotType'
<1>t. SlotType
  BY TypeParts DEF IInv
<1> USE DEF SlotType, Slots
<1>1. CASE UNCHANGED <<slot, result>>
  BY <1>1, <1>t
<1>2. ASSUME NEW e \in Ends, Answer(e) PROVE SlotType'
  BY <1>2, <1>t DEF Answer
<1>3. CASE LetsGo
  BY <1>3, <1>t DEF LetsGo, Unfollow
<1>4. CASE StartAccepted \/ StartUnreachable
  <2>1. cur \in Tasks
    BY <1>4, InHand DEF StartAccepted, StartUnreachable, Executing
  <2>2. \A f \in BOOLEAN : Transfer(cur, f) \in Slots
    BY <2>1 DEF Transfer
  <2>3. result' \in {"none", "running"} \cup Ends
    BY <1>4, <1>t DEF StartAccepted, StartUnreachable, Goto
  <2>4. slot' \in {None} \cup Slots
    BY <1>4, <1>t, <2>2 DEF StartAccepted, StartUnreachable
  <2>5. QED
    BY <2>3, <2>4
<1>5. CASE AttachTask
  BY <1>5, <1>t DEF AttachTask, Goto
<1>6. ASSUME NEW t \in Tasks, CancelBegin(t) \/ RetryTask(t) PROVE SlotType'
  BY <1>6, <1>t DEF CancelBegin, Handle, RetryTask, workVars
<1>7. CASE Boot
  BY <1>7, <1>t DEF Boot, Forget
<1>8. QED
  BY <1>1, <1>2, <1>3, <1>4, <1>5, <1>6, <1>7, Effects DEF SlotEffect

LEMMA LanesStep == ASSUME IInv, [Next]_vars PROVE LanesType'
<1>t. LanesType
  BY TypeParts DEF IInv
<1> USE DEF LanesType
<1>1. CASE UNCHANGED <<api, deletion>> \/ (api' = None /\ deletion' = None)
  BY <1>1, <1>t
<1>2. CASE (\E b \in Backups : UploadBegin(b) \/ VerifyBegin(b))
           \/ \E t \in Tasks : CancelBegin(t)
  <2>1. /\ deletion' = deletion
        /\ \E op \in {"upload", "verify", "cancel"}, id \in Backups \cup Tasks,
              match \in BOOLEAN : api' = [op |-> op, id |-> id, match |-> match]
    <3>1. \A b : (b \in Drive) \in BOOLEAN
      OBVIOUS
    <3>2. QED
      BY <1>2, <3>1 DEF UploadBegin, VerifyBegin, CancelBegin, Handle
  <2>2. QED
    BY <1>t, <2>1
<1>3. CASE \E b \in Backups : DeleteBegin(b) \/ \E p \in Places : RetireBegin(b, p)
  <2>1. /\ api' = api
        /\ \E b \in Backups, p \in Places, by \in {"retention", "operator"} :
              deletion' = [backup |-> b, place |-> p, by |-> by, deleted |-> FALSE]
    BY <1>3 DEF DeleteBegin, RetireBegin, BeginDeletion, Places
  <2>2. QED
    BY <1>t, <2>1
<1>4. CASE UploadCommit \/ VerifyCommit \/ CancelCommit \/ HandlerFails
  <2>1. api' = None /\ deletion' = deletion
    BY <1>4 DEF UploadCommit, VerifyCommit, CancelCommit, HandlerFails, Commit
  <2>2. QED
    BY <1>t, <2>1
<1>5. CASE DeleteFile
  <2>1. /\ deletion \in [backup : Backups, place : Places, by : {"retention", "operator"},
                         deleted : BOOLEAN]
        /\ deletion' = [deletion EXCEPT !.deleted = TRUE] /\ api' = api
    BY <1>5, <1>t DEF DeleteFile
  <2>2. QED
    BY <1>t, <2>1
<1>r. CASE DeleteRecord \/ DeleteFails
  <2>1. deletion' = None /\ api' = api
    BY <1>r DEF DeleteRecord, DeleteFails
  <2>2. QED
    BY <1>t, <2>1
<1>6. QED
  BY <1>1, <1>2, <1>3, <1>4, <1>5, <1>r, Effects DEF LaneEffect

LEMMA WorkStep == ASSUME IInv, [Next]_vars PROVE WorkType'
<1>t. WorkType
  BY TypeParts DEF IInv
<1>s. stopping' \in BOOLEAN
  <2>1. CASE Begin \/ End \/ Deletions
    BY <2>1, <1>t DEF WorkType, Begin, UploadBegin, VerifyBegin, CancelBegin, RetryTask,
       Handle, End, UploadCommit, VerifyCommit, CancelCommit, HandlerFails, Commit,
       Deletions, DeleteBegin, RetireBegin, BeginDeletion, DeleteFile, DeleteRecord,
       DeleteFails
  <2>2. CASE Outside \/ (\E t \in Tasks : Elapse(t)) \/ UNCHANGED vars
    BY <2>2, <1>t DEF WorkType, Outside, TransferEnds, TransferSucceeds, TransferFails,
       TransferCancelled, AgentRestart, DriveLoses, Answer, Elapse, vars
  <2>3. CASE Boot \/ Exit \/ Failure
    BY <2>3, <1>t DEF WorkType, Boot, Exit, Failure, Crash, Stop, QueueError, WorkError,
       WorkerDies, Forget, WorkerStep
  <2>4. CASE Worker
    BY <2>4, <1>t DEF WorkType, Worker, EnqueueRead, EnqueueWrite, EnqueueNone, ClaimRead,
       ClaimNone, ClaimWrite, Load, StartAccepted, StartRefused, StartUnreachable,
       AttachTask, PollDone, PollGivesUp, PollStopped, RecordSuccess, RecordFailure,
       WorkerStep
  <2>5. QED
    BY <2>1, <2>2, <2>3, <2>4 DEF Next
<1>1. CASE UNCHANGED <<pc, cur, seen>>
  BY <1>1, <1>s, <1>t DEF WorkType
<1>2. CASE Boot \/ Crash \/ Exit \/ QueueError \/ WorkerDies
  BY <1>2, <1>s, <1>t DEF WorkType, Boot, Crash, Exit, QueueError, WorkerDies, Forget,
     Leave, Stations, Executing
<1>3. CASE WorkError
  BY <1>3, <1>s, <1>t DEF WorkType, WorkError, Goto, Stations
<1>4. ASSUME NEW b \in Backups, EnqueueRead(b) PROVE WorkType'
  BY <1>4, <1>s, <1>t DEF WorkType, EnqueueRead, Stations, Executing
<1>5. ASSUME NEW t \in Tasks, ClaimRead(t) PROVE WorkType'
  <2>1. attempt[t] \in Nat
    BY DEF IInv, TypeOK
  <2>2. QED
    BY <1>5, <1>s, <1>t, <2>1 DEF WorkType, ClaimRead, Stations, Executing
<1>6. CASE EnqueueWrite \/ EnqueueNone \/ ClaimNone \/ ClaimWrite \/ Load
  BY <1>6, <1>s, <1>t DEF WorkType, EnqueueWrite, EnqueueNone, ClaimNone, ClaimWrite, Load,
     Goto, Stations, Executing
<1>7. CASE StartAccepted \/ StartRefused \/ StartUnreachable \/ AttachTask
  BY <1>7, <1>s, <1>t DEF WorkType, StartAccepted, StartRefused, StartUnreachable,
     AttachTask, Goto, Stations, Executing
<1>8. CASE PollDone \/ PollGivesUp
  BY <1>8, <1>s, <1>t DEF WorkType, PollDone, PollGivesUp, Goto, Stations, Executing
<1>9. CASE PollStopped \/ RecordSuccess \/ RecordFailure
  BY <1>9, <1>s, <1>t DEF WorkType, PollStopped, RecordSuccess, RecordFailure, Leave,
     Stations, Executing
<1>10. QED
  BY <1>1, <1>2, <1>3, <1>4, <1>5, <1>6, <1>7, <1>8, <1>9, Effects DEF WorkEffect, Worker

LEMMA TypeNext == ASSUME IInv, [Next]_vars PROVE TypeOK'
  BY TypeParts, RowsStep, FilesStep, WorkStep, SlotStep, LanesStep, LeftType DEF IInv
(***************************************************************************)
(* The parts of the invariant, step by step                                *)
(***************************************************************************)
\* A row that is there stays, of the same backup.
LEMMA KnownStays ==
    ASSUME IInv, [Next]_vars, NEW t \in Tasks, status[t] # "none"
    PROVE  status'[t] # "none" /\ of'[t] = of[t]
<1>t. RowsType
  BY TypeParts DEF IInv
<1> USE DEF RowsType
<1>1. CASE UploadCommit \/ EnqueueWrite
  <2>1. (\E s \in Tasks : Enqueue(s, api.id)) \/ \E s \in Tasks : Enqueue(s, seen)
    BY <1>1 DEF UploadCommit, EnqueueWrite
  <2>2. QED
    BY <1>t, <2>1 DEF Enqueue, Fresh
<1>2. CASE VerifyCommit \/ DeleteRecord \/ Load
  BY <1>2 DEF VerifyCommit, DeleteRecord, Load, taskVars
<1>3. CASE CancelCommit
  BY <1>3, <1>t DEF CancelCommit
<1>4. CASE Boot
  BY <1>4, <1>t DEF Boot
<1>5. CASE ClaimWrite \/ RecordSuccess \/ RecordFailure
  BY <1>5, <1>t DEF ClaimWrite, RecordSuccess, RecordFailure
<1>6. ASSUME NEW s \in Tasks, RetryTask(s) \/ Elapse(s)
      PROVE  status'[t] # "none" /\ of'[t] = of[t]
  BY <1>6, <1>t DEF RetryTask, Elapse
<1>7. CASE UNCHANGED taskVars
  BY <1>7 DEF taskVars
<1>8. QED
  BY <1>1, <1>2, <1>3, <1>4, <1>5, <1>6, <1>7, Effects DEF RowEffect

\* Who writes upload_status, and on what grounds.
LEMMA UploadMoves ==
    ASSUME IInv, [Next]_vars
    PROVE  \/ UNCHANGED upload
           \/ /\ \E b \in Backups, s \in Uploads :
                    SetUpload(b, s) /\ (s = "uploaded" => Arrived(b))
              /\ UNCHANGED fileVars /\ deletion = None
<1>t. /\ RowsType /\ Registers
      /\ deletion = None \/ api = None
  BY TypeParts DEF IInv, HandlerIsCurrent
<1>1. CASE UploadCommit
  BY <1>1, <1>t, Handling DEF UploadCommit, Commit, Uploads
<1>2. CASE VerifyCommit
  <2>1. /\ api.id \in Backups /\ api.op = "verify" /\ api.match \in BOOLEAN
        /\ deletion = None
    BY <1>2, Handling DEF VerifyCommit, Commit
  <2>2. Verification(api.id, api.match) \in Uploads
    BY <1>t, <2>1 DEF Verification, RowsType, Uploads
  <2>3. Verification(api.id, api.match) = "uploaded" => Arrived(api.id)
    BY <1>2, <2>1 DEF Verification, VerifyCommit, Commit, IInv, HandlerIsCurrent
  <2>4. QED
    BY <1>2, <2>1, <2>2, <2>3 DEF VerifyCommit
<1>3. CASE CancelCommit
  BY <1>3, <1>t, Handling DEF CancelCommit, Commit, Uploads
<1>4. CASE Load \/ RecordFailure
  <2>1. of[cur] \in Backups
    BY <1>4, InHand DEF Load, RecordFailure, Executing
  <2>2. UploadAfter(cur) \in Uploads \ {"uploaded"}
    BY DEF UploadAfter, Uploads
  <2>3. QED
    BY <1>4, <2>1, <2>2 DEF Load, RecordFailure, Free, Uploads
<1>5. CASE RecordSuccess
  <2>1. of[cur] \in Backups /\ Arrived(of[cur])
    BY <1>5, <1>t, InHand DEF RecordSuccess, Executing, Registers
  <2>2. QED
    BY <1>5, <2>1 DEF RecordSuccess, Free, Uploads
<1>6. ASSUME NEW t \in Tasks, RetryTask(t)
      PROVE  /\ \E b \in Backups, s \in Uploads :
                   SetUpload(b, s) /\ (s = "uploaded" => Arrived(b))
             /\ UNCHANGED fileVars /\ deletion = None
  <2>1. of[t] \in Backups
    BY <1>6, <1>t DEF RetryTask, Known, RowsType
  <2>2. QED
    BY <1>6, <2>1 DEF RetryTask, Free, Uploads
<1>7. CASE \/ UNCHANGED copyVars
           \/ DeleteRecord \/ Boot \/ EnqueueWrite \/ ClaimWrite
           \/ \E t \in Tasks : Elapse(t)
  BY <1>7 DEF DeleteRecord, Boot, Forget, EnqueueWrite, ClaimWrite, Elapse, copyVars
<1>8. QED
  BY <1>1, <1>2, <1>3, <1>4, <1>5, <1>6, <1>7, Effects DEF RowEffect

LEMMA UploadedStep == ASSUME IInv, [Next]_vars PROVE UploadedIsThere'
<1>t. upload \in [Backups -> Uploads] /\ UploadedIsThere
  BY DEF IInv, TypeOK
<1>k. \A b \in Backups : Arrived(b) => Arrived(b)'
  BY FilesStep
<1>1. CASE UNCHANGED upload
  BY <1>1, <1>k, <1>t DEF UploadedIsThere
<1>2. ASSUME NEW b \in Backups, NEW s \in Uploads, SetUpload(b, s),
             s = "uploaded" => Arrived(b)
      PROVE  UploadedIsThere'
  BY <1>2, <1>k, <1>t DEF UploadedIsThere, SetUpload
<1>3. QED
  BY <1>1, <1>2, UploadMoves

LEMMA HandlerStep == ASSUME IInv, [Next]_vars PROVE HandlerIsCurrent'
<1>t. LanesType /\ RowsType /\ HandlerIsCurrent
  BY TypeParts DEF IInv
<1>k. \A b \in Backups : Arrived(b) => Arrived(b)'
  BY FilesStep
<1>s. \A t \in Tasks : status[t] # "none" => status'[t] # "none"
  BY KnownStays
<1> USE DEF HandlerIsCurrent, Known
<1>1. CASE api' = api /\ (api # None => deletion' = None)
  BY <1>1, <1>k, <1>s, <1>t
<1>2. CASE api' = None
  BY <1>2
<1>3. ASSUME NEW b \in Backups, UploadBegin(b) \/ VerifyBegin(b) PROVE HandlerIsCurrent'
  <2>0. /\ deletion' = None
        /\ \/ api' = [op |-> "upload", id |-> b, match |-> FALSE]
           \/ api' = [op |-> "verify", id |-> b, match |-> b \in Drive]
    BY <1>3 DEF UploadBegin, VerifyBegin, Handle, Free
  <2>1. /\ api'.op # "cancel" /\ api'.id = b /\ deletion' = None
        /\ api'.op = "verify" /\ api'.match => b \in Drive
    <3>1. CASE api' = [op |-> "upload", id |-> b, match |-> FALSE]
      BY <2>0, <3>1
    <3>2. CASE b \in Drive /\ api' = [op |-> "verify", id |-> b, match |-> b \in Drive]
      <4>1. api'.op = "verify" /\ api'.id = b
        BY <3>2
      <4>2. QED
        BY <2>0, <3>2, <4>1
    <3>3. CASE b \notin Drive /\ api' = [op |-> "verify", id |-> b, match |-> b \in Drive]
      <4>1. (b \in Drive) = FALSE
        BY <3>3
      <4>2. api' = [op |-> "verify", id |-> b, match |-> FALSE]
        BY <3>3, <4>1
      <4>3. QED
        BY <2>0, <4>2
    <3>4. QED
      BY <2>0, <3>1, <3>2, <3>3
  <2>2. b \in Drive => Arrived(b)'
    BY <1>k DEF Arrived
  <2>3. QED
    BY <2>1, <2>2
<1>4. ASSUME NEW t \in Tasks, CancelBegin(t) PROVE HandlerIsCurrent'
  BY <1>4, <1>s DEF CancelBegin, Handle, Free, Active
<1>5. CASE \E b \in Backups : DeleteBegin(b) \/ \E p \in Places : RetireBegin(b, p)
  BY <1>5 DEF DeleteBegin, RetireBegin, BeginDeletion, Free
<1>6. CASE DeleteFile \/ DeleteRecord \/ DeleteFails
  BY <1>6, <1>1, <1>t DEF DeleteFile, DeleteRecord, DeleteFails
<1>7. CASE UploadCommit \/ VerifyCommit \/ CancelCommit \/ HandlerFails
  BY <1>7, <1>2 DEF UploadCommit, VerifyCommit, CancelCommit, HandlerFails, Commit
<1>8. CASE UNCHANGED <<api, deletion>>
  BY <1>1, <1>8, <1>t
<1>9. QED
  BY <1>2, <1>3, <1>4, <1>5, <1>6, <1>7, <1>8, Effects DEF LaneEffect

LEMMA DeletionStep == ASSUME IInv, [Next]_vars PROVE DeletionIsOfUploaded'
<1>t. LanesType /\ RowsType /\ DeletionIsOfUploaded
  BY TypeParts DEF IInv
<1>u. deletion # None => UNCHANGED upload
  BY UploadMoves
<1> USE DEF DeletionIsOfUploaded
<1>1. CASE deletion' = deletion
  BY <1>1, <1>t, <1>u
<1>2. CASE deletion' = None
  BY <1>2
<1>3. ASSUME NEW b \in Backups, NEW p \in Places, RetireBegin(b, p)
      PROVE  DeletionIsOfUploaded'
  BY <1>3 DEF RetireBegin, BeginDeletion, Deletable, copyVars
<1>4. ASSUME NEW b \in Backups, DeleteBegin(b) PROVE DeletionIsOfUploaded'
  BY <1>4 DEF DeleteBegin, BeginDeletion
<1>5. CASE DeleteFile
  <2>1. /\ deletion \in [backup : Backups, place : Places, by : {"retention", "operator"},
                         deleted : BOOLEAN]
        /\ deletion # None /\ deletion' = [deletion EXCEPT !.deleted = TRUE]
    BY <1>5, <1>t DEF DeleteFile, LanesType
  <2>2. /\ deletion'.by = deletion.by /\ deletion'.backup = deletion.backup
        /\ deletion'.place = deletion.place
    BY <2>1
  <2>3. QED
    BY <1>t, <1>u, <2>1, <2>2
<1>6. CASE DeleteRecord \/ DeleteFails
  BY <1>6 DEF DeleteRecord, DeleteFails
<1>7. CASE \E t \in Tasks : CancelBegin(t)
  BY <1>1, <1>7 DEF CancelBegin, Handle
<1>8. CASE \E b \in Backups : UploadBegin(b) \/ VerifyBegin(b)
  BY <1>1, <1>8 DEF UploadBegin, VerifyBegin, Handle
<1>9. CASE UploadCommit \/ VerifyCommit \/ CancelCommit \/ HandlerFails
  BY <1>1, <1>9 DEF UploadCommit, VerifyCommit, CancelCommit, HandlerFails, Commit
<1>10. QED
  BY <1>1, <1>2, <1>3, <1>4, <1>5, <1>6, <1>7, <1>8, <1>9, Effects DEF LaneEffect
\* The registers of the worker agree with the row in hand.
LEMMA HandStep ==
    ASSUME IInv, [Next]_vars
    PROVE  /\ pc' \in Executing \cup {"claiming", "erring"} => cur' \in Tasks /\ Known(cur)'
           /\ pc' = "enqueue" => seen' \in Backups
           /\ pc' = "claiming" => seen' \in Nat
<1>t. /\ pc = "enqueue" => seen \in Backups
      /\ pc = "claiming" => seen \in Nat
  BY DEF IInv, Registers
<1>k. \A t \in Tasks : status[t] # "none" => status'[t] # "none"
  BY KnownStays
<1>h. pc \in Executing \cup {"claiming", "erring"} => cur \in Tasks /\ status'[cur] # "none"
  BY <1>k, InHand
<1> USE DEF Executing, Known
<1>1. CASE UNCHANGED <<pc, cur, seen>>
  BY <1>1, <1>h, <1>t
<1>2. CASE Boot \/ Crash \/ Exit \/ QueueError \/ WorkerDies
  BY <1>2 DEF Boot, Crash, Exit, QueueError, WorkerDies, Forget, Leave
<1>3. CASE WorkError
  BY <1>3, <1>h DEF WorkError, Goto
<1>4. ASSUME NEW b \in Backups, EnqueueRead(b)
      PROVE  pc' = "enqueue" /\ seen' \in Backups
  BY <1>4 DEF EnqueueRead
<1>5. ASSUME NEW t \in Tasks, ClaimRead(t)
      PROVE  pc' = "claiming" /\ seen' \in Nat /\ cur' \in Tasks /\ status'[cur'] # "none"
  BY <1>5, <1>k DEF ClaimRead, Ready, IInv, TypeOK
<1>6. CASE EnqueueWrite \/ EnqueueNone \/ ClaimNone \/ ClaimWrite \/ Load
  BY <1>6, <1>h DEF EnqueueWrite, EnqueueNone, ClaimNone, ClaimWrite, Load, Goto
<1>7. CASE StartAccepted \/ StartRefused \/ StartUnreachable \/ AttachTask
  BY <1>7, <1>h DEF StartAccepted, StartRefused, StartUnreachable, AttachTask, Goto
<1>8. CASE PollDone \/ PollGivesUp
  BY <1>8, <1>h DEF PollDone, PollGivesUp, Goto
<1>9. CASE PollStopped \/ RecordSuccess \/ RecordFailure
  BY <1>9 DEF PollStopped, RecordSuccess, RecordFailure, Leave
<1>10. QED
  BY <1>1, <1>2, <1>3, <1>4, <1>5, <1>6, <1>7, <1>8, <1>9, Effects DEF WorkEffect, Worker

\* What the worker hears is of the transfer it asked for.
Heard ==
    /\ slot # None => /\ Known(slot.task)
                      /\ slot.followed => /\ slot.task = cur /\ pc \in Following
                                          /\ result = "running"
    /\ pc \notin Following \cup {"succeeding"} => result = "none"
    /\ pc = "succeeding" => result = "success"
    /\ result = "success" => Arrived(of[cur])
\* Whoever has heard something has a row in hand.
LEMMA HeardHand ==
    ASSUME IInv
    PROVE  /\ Heard /\ slot \in {None} \cup Slots
           /\ result # "none" => cur \in Tasks /\ status[cur] # "none" /\ of[cur] \in Backups
<1>1. Heard
  BY DEF IInv, Registers, Heard
<1>2. slot \in {None} \cup Slots
  BY DEF IInv, TypeOK, Slots
<1>3. result # "none" => pc \in Executing \cup {"claiming", "erring"}
  BY <1>1 DEF Heard, Following, Executing
<1>4. QED
  BY <1>1, <1>2, <1>3, InHand

\* A step that neither answers nor starts a transfer.
LEMMA HeardStays ==
    ASSUME IInv, [Next]_vars, UNCHANGED <<slot, result>>,
           result # "none" => cur' = cur,
           slot # None /\ slot.followed => pc' \in Following /\ cur' = cur,
           pc' \notin Following \cup {"succeeding"} => result = "none",
           pc' = "succeeding" => result = "success"
    PROVE  Heard'
<1>t. /\ Heard /\ slot \in {None} \cup Slots
      /\ result # "none" => cur \in Tasks /\ status[cur] # "none" /\ of[cur] \in Backups
  BY HeardHand
<1>1. slot # None => Known(slot.task)'
  <2>1. slot # None => slot.task \in Tasks /\ status[slot.task] # "none"
    BY <1>t DEF Heard, Known, Slots
  <2>2. slot # None => status'[slot.task] # "none"
    BY <2>1, KnownStays
  <2>3. QED
    BY <2>2 DEF Known
<1>2. result' = "success" => Arrived(of[cur])'
  <2>1. SUFFICES ASSUME result = "success" PROVE Arrived(of[cur])'
    OBVIOUS
  <2>2. of'[cur'] = of[cur] /\ of[cur] \in Backups
    BY <1>t, <2>1, KnownStays
  <2>3. \A b \in Backups : Arrived(b) => Arrived(b)'
    BY FilesStep
  <2>4. Arrived(of[cur])
    BY <1>t, <2>1 DEF Heard
  <2>5. QED
    BY <2>2, <2>3, <2>4 DEF Arrived
<1>3. slot' # None /\ slot'.followed => /\ slot'.task = cur' /\ pc' \in Following
                                        /\ result' = "running"
  BY <1>t DEF Heard
<1>4. QED
  BY <1>1, <1>2, <1>3 DEF Heard

\* The agent answers: the copy is whole before its success is heard.
LEMMA HeardAnswer ==
    ASSUME IInv, [Next]_vars, NEW e \in Ends, slot # None, Answer(e),
           e = "success" => of[slot.task] \in copies'["drive"]
    PROVE  Heard'
<1>t. /\ Heard /\ slot \in Slots
      /\ result # "none" => cur \in Tasks /\ status[cur] # "none" /\ of[cur] \in Backups
  BY HeardHand
<1>p. slot' = None /\ pc' = pc /\ cur' = cur /\ of' = of
      /\ result' = IF slot.followed THEN e ELSE result
  BY DEF Answer, taskVars
<1>1. CASE slot.followed
  <2>1. slot.task = cur /\ pc \in Following /\ result' = e
    BY <1>1, <1>p, <1>t DEF Heard
  <2>2. e = "success" => Arrived(of[cur])'
    BY <1>p, <2>1 DEF Arrived, Drive
  <2>3. QED
    BY <1>p, <2>1, <2>2 DEF Heard, Following
<1>2. CASE ~slot.followed
  <2>1. result' = result
    BY <1>2, <1>p
  <2>2. result = "success" => of[cur] \in Backups /\ Arrived(of[cur])
    BY <1>t DEF Heard
  <2>3. \A b \in Backups : Arrived(b) => Arrived(b)'
    BY FilesStep
  <2>4. result = "success" => Arrived(of[cur])'
    BY <1>p, <2>2, <2>3 DEF Arrived
  <2>5. QED
    BY <1>t, <1>p, <2>1, <2>4 DEF Heard
<1>3. QED
  BY <1>1, <1>2
\* A step that leaves the slot and the result alone leaves the worker in a place where
\* they mean what they meant.
LEMMA HeardAside ==
    ASSUME IInv, [Next]_vars, UNCHANGED <<slot, result>> PROVE Heard'
<1>t. /\ Heard /\ slot \in {None} \cup Slots
  BY HeardHand
<1>o. TypeOK
  BY DEF IInv
<1> USE DEF Heard, Following
<1>1. CASE UNCHANGED <<pc, cur, seen>>
  BY <1>1, <1>t, HeardStays
<1>2. CASE Boot \/ Crash \/ Exit \/ QueueError \/ WorkerDies \/ PollStopped
           \/ RecordSuccess \/ RecordFailure
  <2>1. result' = "none" /\ pc' \in {"down", "loop", "dead"}
    BY <1>2 DEF Boot, Crash, Exit, QueueError, WorkerDies, PollStopped, RecordSuccess,
       RecordFailure, Forget, Leave
  <2>2. slot' = None \/ ~slot'.followed
    <3>1. CASE Boot
      BY <3>1, <1>t DEF Boot
    <3>2. CASE ~Boot
      <4>1. Unfollow
        BY <1>2, <3>2 DEF Crash, Exit, QueueError, WorkerDies, PollStopped, RecordSuccess,
           RecordFailure, Leave
      <4>2. QED
        BY <1>t, <4>1 DEF Unfollow, Slots
    <3>3. QED
      BY <3>1, <3>2
  <2>3. QED
    BY <1>t, <2>1, <2>2, HeardStays
<1>3. CASE WorkError
  <2>1. CASE pc \in Following
    BY <1>3, <1>t, <2>1, HeardStays DEF WorkError, Goto
  <2>2. CASE pc \notin Following
    BY <1>3, <1>t, <2>2, HeardStays DEF WorkError, Goto
  <2>3. QED
    BY <2>1, <2>2
<1>4. CASE (\E b \in Backups : EnqueueRead(b)) \/ \E t \in Tasks : ClaimRead(t)
  BY <1>4, <1>t, HeardStays DEF EnqueueRead, ClaimRead
<1>5. CASE EnqueueWrite \/ EnqueueNone \/ ClaimNone \/ ClaimWrite \/ Load
  BY <1>5, <1>t, HeardStays DEF EnqueueWrite, EnqueueNone, ClaimNone, ClaimWrite, Load, Goto
<1>6. CASE StartRefused \/ StartUnreachable
  BY <1>6, <1>t, HeardStays DEF StartRefused, StartUnreachable, Goto
<1>7. CASE StartAccepted \/ AttachTask
  BY <1>7, <1>t, HeardStays DEF StartAccepted, AttachTask, Goto
<1>8. CASE PollDone \/ PollGivesUp
  BY <1>8, <1>t, HeardStays DEF PollDone, PollGivesUp, Goto, Outcomes, Ends
<1>10. QED
  BY <1>1, <1>2, <1>3, <1>4, <1>5, <1>6, <1>7, <1>8, Effects DEF WorkEffect, Worker
\* A transfer starts, for the worker or without its knowing.
LEMMA HeardStart ==
    ASSUME IInv, [Next]_vars, StartAccepted \/ StartUnreachable PROVE Heard'
<1>t. /\ Heard /\ slot \in {None} \cup Slots
  BY HeardHand
<1>h. cur \in Tasks /\ status[cur] # "none" /\ status'[cur] # "none" /\ pc = "loaded"
      /\ cur' = cur
  BY InHand, KnownStays DEF StartAccepted, StartUnreachable, Executing, Goto
<1>f. slot # None => ~slot.followed
  BY <1>h, <1>t DEF Heard, Following
<1> USE DEF Heard, Following
<1>1. CASE StartAccepted
  <2>1. /\ slot' = Transfer(cur, TRUE) /\ result' = "running" /\ pc' = "attaching"
    BY <1>1 DEF StartAccepted
  <2>2. slot'.task = cur /\ slot'.followed = TRUE
    BY <2>1 DEF Transfer
  <2>3. QED
    BY <1>h, <2>1, <2>2 DEF Known
<1>2. CASE StartUnreachable
  <2>1. pc' = "failing" /\ result' = result /\ result = "none"
    BY <1>2, <1>h, <1>t DEF StartUnreachable, Goto
  <2>2. CASE slot' = slot
    BY <2>1, <2>2, HeardAside
  <2>3. CASE slot' = Transfer(cur, FALSE)
    <3>1. slot'.task = cur /\ slot'.followed = FALSE
      BY <2>3 DEF Transfer
    <3>2. QED
      BY <1>h, <2>1, <3>1 DEF Known
  <2>4. QED
    BY <1>2, <2>2, <2>3 DEF StartUnreachable
<1>3. QED
  BY <1>1, <1>2

\* The handles of the transfer on the host change, not what it is or whom it tells.
LEMMA HeardHandles ==
    ASSUME IInv, [Next]_vars,
           AttachTask \/ \E t \in Tasks : CancelBegin(t) \/ RetryTask(t)
    PROVE  Heard'
<1>t. /\ Heard /\ slot \in {None} \cup Slots
      /\ result # "none" => cur \in Tasks /\ status[cur] # "none" /\ of[cur] \in Backups
  BY HeardHand
<1>1. /\ cur' = cur /\ result' = result
      /\ pc' = pc \/ (pc = "attaching" /\ pc' = "polling")
      /\ \/ slot' = slot
         \/ slot # None /\ slot' = [slot EXCEPT !.stored = TRUE]
         \/ slot # None /\ slot' = [slot EXCEPT !.stored = FALSE]
         \/ slot # None /\ slot' = [slot EXCEPT !.killed = TRUE]
  BY DEF AttachTask, CancelBegin, RetryTask, Handle, Goto, workVars
<1>2. CASE slot' = slot
  BY <1>1, <1>2, HeardAside
<1>3. CASE slot' # slot
  <2>1. slot # None /\ slot'.task = slot.task /\ slot'.followed = slot.followed
    BY <1>1, <1>3, <1>t DEF Slots
  <2>2. slot.task \in Tasks /\ status[slot.task] # "none" /\ status'[slot.task] # "none"
    BY <1>t, <2>1, KnownStays DEF Heard, Known, Slots
  <2>3. result = "success" => /\ of'[cur] = of[cur] /\ of[cur] \in Backups
                              /\ Arrived(of[cur])
    BY <1>t, KnownStays DEF Heard
  <2>4. \A b \in Backups : Arrived(b) => Arrived(b)'
    BY FilesStep
  <2>5. result' = "success" => Arrived(of[cur])'
    BY <1>1, <2>3, <2>4 DEF Arrived
  <2>6. QED
    BY <1>1, <1>t, <2>1, <2>2, <2>5 DEF Heard, Known, Following
<1>4. QED
  BY <1>2, <1>3

LEMMA HeardStep == ASSUME IInv, [Next]_vars PROVE Heard'
<1>t. /\ Heard /\ slot \in {None} \cup Slots
  BY HeardHand
<1>1. ASSUME NEW e \in Ends, slot # None, Answer(e), e = "success" => TransferSucceeds
      PROVE  Heard'
  <2>1. e = "success" => of[slot.task] \in copies'["drive"]
    BY <1>1 DEF TransferSucceeds, IInv, TypeOK, Places
  <2>2. QED
    BY <1>1, <2>1, HeardAnswer
<1>2. CASE LetsGo
  <2>1. slot' # None => /\ slot # None /\ slot'.task = slot.task /\ ~slot'.followed
                        /\ slot.task \in Tasks /\ status[slot.task] # "none"
    BY <1>2, <1>t DEF LetsGo, Unfollow, Slots, Heard, Known
  <2>2. slot' # None => status'[slot'.task] # "none"
    BY <2>1, KnownStays
  <2>3. QED
    BY <1>2, <2>1, <2>2 DEF Heard, LetsGo, Known
<1>3. CASE Boot
  <2>1. result = "none" /\ result' = "none" /\ slot' = slot
    BY <1>3, <1>t DEF Boot, Forget, Heard, Following
  <2>2. QED
    BY <2>1, HeardAside
<1>4. QED
  BY <1>1, <1>2, <1>3, HeardAside, HeardStart, HeardHandles, Effects DEF SlotEffect

LEMMA RegistersStep == ASSUME IInv, [Next]_vars PROVE Registers'
  BY HandStep, HeardStep DEF Registers, Heard
(***************************************************************************)
(* The theorems                                                            *)
(***************************************************************************)
\* The registers of the worker, what a handler and a deletion have read and what the
\* rows say of the copies agree, in whatever order transfers, verifications, deletions
\* and faults come.
THEOREM Invariance == Spec => []IInv
<1>1. Init => IInv
  <2> SUFFICES ASSUME Init PROVE IInv
    OBVIOUS
  <2>1. TypeOK
    <3>1. left \in [Events -> Nat]
      BY BudgetsAssumption DEF Init
    <3>2. copies \in [Places -> SUBSET Backups]
      BY DEF Init, Places
    <3>3. upload \in [Backups -> Uploads]
      BY DEF Init, Uploads
    <3>4. QED
      BY <3>1, <3>2, <3>3 DEF Init, TypeOK, Executing
  <2>2. UploadedIsThere
    BY DEF Init, UploadedIsThere
  <2>3. pc = "down" /\ result = "none" /\ slot = None /\ api = None /\ deletion = None
    BY DEF Init
  <2>4. QED
    BY <2>1, <2>2, <2>3 DEF IInv, Registers, HandlerIsCurrent, DeletionIsOfUploaded,
       Executing, Following
<1>2. IInv /\ [Next]_vars => IInv'
  BY TypeNext, RegistersStep, HandlerStep, DeletionStep, UploadedStep DEF IInv
<1>3. QED
  BY <1>1, <1>2, PTL DEF Spec

\* A backup that says `uploaded` is whole on Drive, unless retention deleted that copy or
\* Drive lost it: RecordSuccess and VerifyCommit never write it for anything less.
THEOREM UploadsAreThere == Spec => []UploadedIsThere
<1>1. IInv => UploadedIsThere
  BY DEF IInv
<1>2. QED
  BY <1>1, Invariance, PTL

LEMMA AllowedBounds == Allowed \in Nat /\ Allowed >= 2 /\ MaxAttempts <= Allowed
  BY AttemptsAssumption DEF Allowed

LEMMA AttemptsInit == ASSUME Init PROVE AttemptsLeft /\ AttemptsBounded
  BY AllowedBounds DEF Init, AttemptsLeft, AttemptsBounded

LEMMA AttemptsStep ==
    ASSUME Consistent, [Next]_vars
    PROVE  AttemptsLeft' /\ AttemptsBounded'
<1>t. /\ IInv /\ AttemptsLeft /\ AttemptsBounded /\ MaxAttempts \in Nat /\ RowsType
     /\ Allowed \in Nat /\ Allowed >= 2 /\ MaxAttempts <= Allowed
  BY AttemptsAssumption, AllowedBounds, TypeParts DEF Consistent, IInv
<1>c. pc' = "claiming" => seen' \in Nat /\ seen' < Allowed
  <2>1. CASE UNCHANGED <<pc, cur, seen>>
    BY <1>t, <2>1 DEF AttemptsLeft
  <2>2. CASE \E t \in Tasks : ClaimRead(t)
    BY <1>t, <2>2 DEF AttemptsLeft, ClaimRead, Ready, RowsType
  <2>3. CASE Boot \/ Crash \/ Exit \/ QueueError \/ WorkError \/ WorkerDies
    BY <2>3 DEF Boot, Crash, Exit, QueueError, WorkError, WorkerDies, Forget, Leave, Goto
  <2>4. CASE Worker /\ ~\E t \in Tasks : ClaimRead(t)
    BY <2>4 DEF Worker, EnqueueRead, EnqueueWrite, EnqueueNone, ClaimNone, ClaimWrite, Load,
       StartAccepted, StartRefused, StartUnreachable, AttachTask, PollDone, PollGivesUp,
       PollStopped, RecordSuccess, RecordFailure, Goto, Leave
  <2>5. QED
    BY <2>1, <2>2, <2>3, <2>4, Effects DEF WorkEffect
<1> DEFINE Rows == \A t \in Tasks :
                     /\ status[t] \in {"none", "queued"} => attempt[t] < Allowed
                     /\ attempt[t] <= Allowed
<1>s. Rows
  BY <1>t DEF AttemptsLeft, AttemptsBounded
<1>r. SUFFICES Rows'
  BY <1>c DEF AttemptsLeft, AttemptsBounded
<1>n. status \in [Tasks -> Statuses] /\ attempt \in [Tasks -> Nat]
  BY <1>t DEF RowsType
<1>1. CASE UploadCommit \/ EnqueueWrite
  <2>1. (\E t \in Tasks : Enqueue(t, api.id)) \/ \E t \in Tasks : Enqueue(t, seen)
    BY <1>1 DEF UploadCommit, EnqueueWrite
  <2>2. QED
    BY <1>n, <1>s, <2>1 DEF Enqueue, Fresh
<1>2. CASE VerifyCommit \/ DeleteRecord \/ Load \/ UNCHANGED <<taskVars, copyVars>>
  <2>1. UNCHANGED <<status, attempt>>
    BY <1>2 DEF VerifyCommit, DeleteRecord, Load, taskVars
  <2>2. QED
    BY <1>s, <2>1
<1>3. CASE CancelCommit \/ RecordSuccess
  <2>1. attempt' = attempt /\ \E t, s : status' = [status EXCEPT ![t] = s]
                                      /\ s \notin {"none", "queued"}
    BY <1>3 DEF CancelCommit, RecordSuccess
  <2>2. QED
    BY <1>n, <1>s, <2>1
<1>4. CASE Boot
  <2>1. ASSUME NEW t \in Tasks
        PROVE  /\ status'[t] \in {"none", "queued"} => attempt'[t] < Allowed
               /\ attempt'[t] <= Allowed
    <3>1. /\ status'[t] = IF Caught(t) THEN "queued" ELSE status[t]
          /\ attempt'[t] = IF Caught(t) /\ attempt[t] > 0 THEN attempt[t] - 1
                           ELSE attempt[t]
      BY <1>4 DEF Boot
    <3>2. /\ status[t] \in {"none", "queued"} => attempt[t] < Allowed
          /\ attempt[t] <= Allowed /\ attempt[t] \in Nat
      BY <1>n, <1>s
    <3>3. QED
      BY <1>t, <3>1, <3>2
  <2>2. QED
    BY <2>1
<1>5. CASE ClaimWrite
  <2>1. seen \in Nat /\ seen < Allowed /\ cur \in Tasks
    BY <1>5, <1>t, InHand DEF ClaimWrite, AttemptsLeft
  <2>2. /\ status' = [status EXCEPT ![cur] = "running"]
        /\ attempt' = [attempt EXCEPT ![cur] = seen + 1]
    BY <1>5 DEF ClaimWrite
  <2>3. QED
    BY <1>n, <1>s, <1>t, <2>1, <2>2
<1>6. CASE RecordFailure
  <2>1. cur \in Tasks /\ attempt' = attempt
    BY <1>6, <1>t, InHand DEF RecordFailure, Executing
  <2>2. \/ status' = [status EXCEPT ![cur] = "failed"]
        \/ ~Exhausted(cur) /\ status' = [status EXCEPT ![cur] = "queued"]
    BY <1>6 DEF RecordFailure
  <2>3. QED
    BY <1>n, <1>s, <1>t, <2>1, <2>2 DEF Exhausted
<1>7. ASSUME NEW t \in Tasks, RetryTask(t) PROVE Rows'
  <2>1. /\ status' = [status EXCEPT ![t] = "queued"]
        /\ attempt' = [attempt EXCEPT ![t] = 1]
    BY <1>7 DEF RetryTask
  <2>2. QED
    BY <1>n, <1>s, <1>t, <2>1
<1>8. ASSUME NEW t \in Tasks, Elapse(t) PROVE Rows'
  BY <1>8, <1>s DEF Elapse
<1>9. QED
  BY <1>1, <1>2, <1>3, <1>4, <1>5, <1>6, <1>7, <1>8, <1>t, Effects DEF RowEffect

\* No transfer is charged more attempts than it was given, or than the second one of a retry
\* by hand, through refunds at Boot, retries by hand and rows that end twice, and whoever
\* claims one finds an attempt left.
THEOREM Consistency == Spec => []Consistent
<1>1. IInv /\ Init => Consistent
  BY AttemptsInit DEF Consistent
<1>2. IInv' /\ Consistent /\ [Next]_vars => Consistent'
  BY AttemptsStep DEF Consistent
<1>3. QED
  BY <1>1, <1>2, Invariance, PTL DEF Spec

\* What a step does to the ledger: a transfer arrives, a copy vanishes, retention gives up
\* the host's, or a row claims or withdraws a copy.
LEMMA LedgerStep == ASSUME IInv, [Next]_vars PROVE [Ledger!Next]_(Ledger!vars)
<1> DEFINE Left(p) == {b \in Backups : <<b, p>> \notin taken}
           Missed == {b \in Backups : <<b, "drive">> \in taken}
           Claims == {b \in Backups : upload[b] = "uploaded"}
<1>t. /\ FilesType /\ RowsType /\ LanesType /\ Drive \subseteq Backups
  BY TypeParts DEF IInv, FilesType, Drive, Places
<1>1. CASE UNCHANGED fileVars
  <2>1. UNCHANGED <<Left("host"), Drive, Missed>>
    BY <1>1 DEF fileVars, Drive
  <2>2. CASE UNCHANGED upload
    BY <2>1, <2>2 DEF Ledger!vars
  <2>3. ASSUME NEW b \in Backups, NEW s \in Uploads, SetUpload(b, s),
               s = "uploaded" => Arrived(b)
        PROVE  Ledger!Next
    <3>1. CASE s = "uploaded"
      <4>1. Claims' = Claims \cup {b}
        BY <1>t, <2>3, <3>1 DEF SetUpload, RowsType
      <4>2. b \in Drive \cup Missed
        BY <2>3, <3>1 DEF Arrived
      <4>3. Ledger!Claim(b)
        BY <2>1, <4>1, <4>2 DEF Ledger!Claim
      <4>4. QED
        BY <4>3 DEF Ledger!Next
    <3>2. CASE s # "uploaded"
      <4>1. Claims' = Claims \ {b}
        BY <1>t, <2>3, <3>2 DEF SetUpload, RowsType
      <4>2. Ledger!Withdraw(b)
        BY <2>1, <4>1 DEF Ledger!Withdraw
      <4>3. QED
        BY <4>2 DEF Ledger!Next
    <3>3. QED
      BY <3>1, <3>2
  <2>4. QED
    BY <2>2, <2>3, UploadMoves
<1>2. CASE TransferSucceeds
  <2>0. of[slot.task] \in Backups
    BY <1>2 DEF TransferSucceeds, IInv, TypeOK, Registers, Known
  <2>1. PICK one \in Backups : one = of[slot.task] /\ UNCHANGED upload
    BY <1>2, <2>0 DEF TransferSucceeds, Answer, copyVars
  <2>2. /\ copies' = [copies EXCEPT !["drive"] = @ \cup {one}]
        /\ taken' = taken \ {<<one, "drive">>}
    BY <1>2, <2>1 DEF TransferSucceeds
  <2>a. Drive' = Drive \cup {one}
    BY <1>t, <2>1, <2>2 DEF Drive, FilesType, Places
  <2>m. Missed' = Missed \ {one}
    BY <2>1, <2>2
  <2>h. Left("host")' = Left("host")
    BY <2>1, <2>2
  <2>3. Drive' = Drive \cup {one} /\ Missed' = Missed \ {one} /\ Left("host")' = Left("host")
    BY <2>a, <2>m, <2>h
  <2>4. Ledger!Arrive(one)
    BY <2>1, <2>3 DEF Ledger!Arrive
  <2>5. QED
    BY <2>1, <2>4 DEF Ledger!Next
<1>3. ASSUME NEW b \in Backups, Arrived(b), UNCHANGED upload,
             copies' = [copies EXCEPT !["drive"] = @ \ {b}],
             taken' = taken \cup {<<b, "drive">>}
      PROVE  Ledger!Next
  <2>1. Drive' = Drive \ {b} /\ Missed' = Missed \cup {b} /\ Left("host")' = Left("host")
    BY <1>t, <1>3 DEF Drive, FilesType, Places
  <2>2. b \in Drive \cup Missed
    BY <1>3 DEF Arrived
  <2>3. Ledger!Vanish(b)
    BY <1>3, <2>1, <2>2 DEF Ledger!Vanish
  <2>4. QED
    BY <2>3 DEF Ledger!Next
<1>4. CASE DeleteFile
  <2>0. deletion.backup \in Backups
    BY <1>4, <1>t DEF DeleteFile, LanesType
  <2>o. PICK one \in Backups : one = deletion.backup
    BY <2>0
  <2>1. /\ deletion.place \in Places /\ UNCHANGED upload
        /\ deletion.by \in {"retention", "operator"}
        /\ deletion.by = "retention" => upload[one] = "uploaded"
        /\ deletion.by = "operator" => deletion.place = "host"
    BY <1>4, <1>t, <2>o DEF DeleteFile, LanesType, copyVars, IInv, DeletionIsOfUploaded
  <2>2. /\ copies' = [copies EXCEPT ![deletion.place] = @ \ {one}]
        /\ taken' = IF deletion.by = "retention" THEN taken \cup {<<one, deletion.place>>}
                    ELSE taken
    BY <1>4, <2>o DEF DeleteFile
  <2>3. CASE deletion.place = "drive"
    <3>1. Arrived(one) /\ deletion.by = "retention"
      BY <2>1, <2>3 DEF IInv, UploadedIsThere
    <3>2. QED
      BY <1>3, <2>1, <2>2, <2>3, <3>1
  <2>4. CASE deletion.place = "host"
    <3>1. Drive' = Drive /\ Missed' = Missed
      BY <1>t, <2>1, <2>2, <2>4 DEF Drive, FilesType, Places
    <3>2. CASE deletion.by = "operator"
      <4>1. taken' = taken
        BY <2>2, <3>2
      <4>2. QED
        BY <2>1, <3>1, <4>1 DEF Ledger!vars
    <3>3. CASE deletion.by = "retention"
      <4>1. Left("host")' = Left("host") \ {one}
        BY <2>1, <2>2, <2>4, <3>3
      <4>2. Ledger!Retire(one)
        BY <2>1, <3>1, <3>3, <4>1 DEF Ledger!Retire
      <4>3. QED
        BY <2>1, <4>2 DEF Ledger!Next
    <3>4. QED
      BY <2>1, <3>2, <3>3
  <2>5. QED
    BY <2>1, <2>3, <2>4 DEF Places
<1>5. ASSUME NEW b \in Backups, DriveLoses(b) PROVE Ledger!Next
  BY <1>3, <1>5 DEF DriveLoses, Arrived, copyVars
<1>6. QED
  BY <1>1, <1>2, <1>4, <1>5, Effects DEF FileEffect

\* Seen from the rows and the files alone, the queue and the deletions keep the ledger: a
\* claim is made of a copy that arrived, and the host's archive is given up on a claim.
THEOREM Implements == Spec => KeepsLedger
<1>1. Init => Ledger!Init
  <2> SUFFICES ASSUME Init PROVE Ledger!Init
    OBVIOUS
  <2>1. /\ taken = {} /\ copies = [p \in Places |-> IF p = "host" THEN Backups ELSE {}]
        /\ \A b \in Backups : upload[b] # "uploaded"
    BY DEF Init
  <2>2. Drive = {}
    BY <2>1 DEF Drive, Places
  <2>3. QED
    BY <2>1, <2>2 DEF Ledger!Init
<1>2. IInv /\ [Next]_vars => [Ledger!Next]_(Ledger!vars)
  BY LedgerStep
<1>3. QED
  BY <1>1, <1>2, Invariance, PTL DEF Spec, KeepsLedger, Ledger!Spec

=============================================================================
