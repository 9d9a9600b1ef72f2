---------------------------- MODULE AgentProofs -----------------------------
(***************************************************************************)
(* Theorems about AgentTasks, for every set of tasks, every capacity and   *)
(* every budget of faults; and, at the end, about AgentLink.               *)
(***************************************************************************)
EXTENDS AgentTasks, AgentLink, FiniteSetTheorems, TLAPS

States == Open \cup Final \cup {None}
Stations == Commands \cup {"none", "scheduled", "collecting", "verifying", "done"}

(***************************************************************************)
(* Types                                                                   *)
(***************************************************************************)
LEMMA PayType ==
    ASSUME TypeOK, NEW es, Pay(es)
    PROVE  left' \in [Events -> Nat]
<1>1. \A e \in Events : e \in es => left[e] - 1 \in Nat
  BY DEF Pay, TypeOK
<1>2. QED
  BY <1>1 DEF Pay, TypeOK

LEMMA PersistType ==
    ASSUME TypeOK, NEW t \in Tasks, NEW s \in States, NEW es, Persist(t, s, es)
    PROVE  /\ journal' \in [Tasks -> States] /\ left' \in [Events -> Nat]
           /\ journal'[t] \in {s, journal[t]}
           /\ \A u \in Tasks \ {t} : journal'[u] = journal[u]
<1>1. left' \in [Events -> Nat]
  BY PayType DEF Persist
<1>2. QED
  BY <1>1 DEF Persist, TypeOK, States

LEMMA TypeInit == Init => TypeOK
  BY CapacityAssumption, BudgetAssumption DEF Init, TypeOK, Kinds

\* The execution ends with state s: what is known of it then.
Ends(t, s) ==
    /\ t \in Running /\ s \in {"success", "failed", "cancelled"}
    /\ \E es : Finish(t, s, es)
    /\ proc' = [proc EXCEPT ![t] = "none"]
    /\ code' \in [Tasks -> {"ok", "bad"}]
    /\ cause' \in [Tasks -> {"none", "timeout", "fault"}]
    /\ \A u \in Tasks \ {t} : code'[u] = code[u]
    /\ matched \subseteq matched' /\ matched' \subseteq Tasks
    /\ s = "success" =>
          /\ t \in complete /\ t \notin ending \cup heard
          /\ work[t].kind = "sync" /\ work[t].after => t \in matched'

\* The execution goes on with its next command, or with what follows the main one.
GoesOn(t) ==
    \E next \in {"main", "collecting", "starter", "verifying"} :
       /\ Continue(t, next)
       /\ IF next = "main" THEN pc[t] = "stopper"
          ELSE pc[t] = "main" /\ handle[t] # "cancelled" /\ t \in complete
       /\ next = "collecting" => work[t].kind = "backup"

\* What a step of an execution does.
LEMMA Executes ==
    ASSUME IInv, NEW t \in Tasks, Execution(t)
    PROVE  \/ Begin(t) \/ Spawn(t) \/ Reap(t) \/ TimesOut(t) \/ LogBreaks(t) \/ GoesOn(t)
           \/ \E s \in {"success", "failed", "cancelled"} : Ends(t, s)
<1>t. /\ pc \in [Tasks -> Stations] /\ proc \in [Tasks -> {"none", "alive", "dead", "reaped"}]
      /\ code \in [Tasks -> {"ok", "bad"}] /\ cause \in [Tasks -> {"none", "timeout", "fault"}]
      /\ matched \subseteq Tasks
  BY DEF IInv, TypeOK, Stations
<1>s. Stages /\ CancelReachesMain
  BY DEF IInv
<1>r. \A s : FinishRun(t, s) =>
         /\ proc' = [proc EXCEPT ![t] = "none"] /\ \E es : Finish(t, s, es)
         /\ code' \in [Tasks -> {"ok", "bad"}]
         /\ cause' \in [Tasks -> {"none", "timeout", "fault"}]
         /\ \A u \in Tasks \ {t} : code'[u] = code[u]
         /\ matched' = matched
  <2>1. code' = [code EXCEPT ![t] = "ok"] => /\ code' \in [Tasks -> {"ok", "bad"}]
                                             /\ \A u \in Tasks \ {t} : code'[u] = code[u]
    BY <1>t
  <2>2. cause' = [cause EXCEPT ![t] = "none"] =>
           cause' \in [Tasks -> {"none", "timeout", "fault"}]
    BY <1>t
  <2>3. QED
    BY <2>1, <2>2 DEF FinishRun
<1>k. \A s, es : Finish(t, s, es) => \E fs : Finish(t, s, fs)
  OBVIOUS
<1>1. CASE SpawnFails(t)
  <2>1. proc' = [proc EXCEPT ![t] = "none"]
    BY <1>1, <1>t DEF SpawnFails, childVars
  <2>2. Ends(t, "failed")
    BY <1>1, <1>t, <2>1 DEF SpawnFails, Ends, childVars, Running, Commands
  <2>3. QED
    BY <2>2
<1>2. CASE RunCrashes(t)
  <2>1. t \in Running
    BY <1>2, <1>s, <1>t DEF RunCrashes, Stages, Commands, Running
  <2>2. Ends(t, "failed")
    BY <1>2, <1>t, <1>r, <2>1 DEF RunCrashes, Ends
  <2>3. QED
    BY <2>2
<1>3. ASSUME NEW next \in {"collecting", "starter", "verifying"}, proc[t] = "reaped",
             MainEnds(t, next), next = "collecting" => work[t].kind = "backup"
      PROVE  GoesOn(t) \/ \E s \in {"success", "failed", "cancelled"} : Ends(t, s)
  <2>1. t \in Running /\ pc[t] = "main"
    BY <1>3 DEF MainEnds, Running
  <2>2. Verdict(t) \in {"success", "failed", "cancelled"}
    BY DEF Verdict
  <2>3. ASSUME Verdict(t) = "success" PROVE handle[t] # "cancelled" /\ t \in complete
    BY <1>3, <2>1, <2>3, <1>s DEF Verdict, Ok, Stages
  <2>4. CASE Verdict(t) = "success" /\ work[t].after
    BY <1>3, <2>1, <2>3, <2>4 DEF MainEnds, GoesOn
  <2>5. CASE ~(Verdict(t) = "success" /\ work[t].after)
    <3>1. FinishRun(t, Verdict(t))
      BY <1>3, <2>5 DEF MainEnds
    <3>2. t \in ending \cup heard => handle[t] = "cancelled"
      BY <1>s, <2>1 DEF CancelReachesMain
    <3>3. Ends(t, Verdict(t))
      BY <1>t, <1>r, <2>1, <2>2, <2>3, <2>5, <3>1, <3>2 DEF Ends
    <3>4. QED
      BY <2>2, <3>3
  <2>6. QED
    BY <2>4, <2>5
<1>4. CASE BackupReturned(t)
  BY <1>3, <1>4 DEF BackupReturned
<1>5. CASE TransferReturned(t)
  BY <1>3, <1>5 DEF TransferReturned
<1>6. CASE RestoreReturned(t)
  <2>1. CASE pc[t] = "stopper" /\ cause[t] # "fault"
             /\ IF Ok(t) THEN Continue(t, "main") ELSE FinishRun(t, "failed")
    <3>1. CASE Ok(t)
      BY <2>1, <3>1 DEF GoesOn
    <3>2. CASE ~Ok(t)
      <4>1. Ends(t, "failed")
        BY <1>t, <1>r, <2>1, <3>2 DEF Ends, Running
      <4>2. QED
        BY <4>1
    <3>3. QED
      BY <3>1, <3>2
  <2>2. CASE MainEnds(t, "starter")
    BY <1>3, <1>6, <2>2 DEF RestoreReturned
  <2>3. CASE pc[t] = "starter" /\ FinishRun(t, "success")
    <3>1. t \in complete /\ t \notin ending \cup heard /\ t \in Running
      BY <1>s, <2>3 DEF Stages, CancelReachesMain, Running
    <3>2. Ends(t, "success")
      BY <1>t, <1>r, <1>6, <2>3, <3>1 DEF Ends, RestoreReturned
    <3>3. QED
      BY <3>2
  <2>4. QED
    BY <1>6, <2>1, <2>2, <2>3 DEF RestoreReturned
<1>7. CASE Collected(t) \/ Verified(t) \/ Crashes(t)
  <2>1. /\ t \in complete /\ t \notin ending \cup heard /\ t \in Running
        /\ proc[t] = "none" /\ (pc[t] = "collecting" => work[t].kind = "backup")
    BY <1>7, <1>s, <1>t DEF Collected, Verified, Crashes, Stages, CancelReachesMain, Running,
       Commands
  <2>2. proc' = [proc EXCEPT ![t] = "none"] /\ UNCHANGED <<code, cause>>
    BY <1>7, <1>t, <2>1 DEF Collected, Verified, Crashes, childVars
  <2>3. CASE Collected(t)
    <3>1. Ends(t, "success")
      BY <1>t, <2>1, <2>2, <2>3 DEF Collected, Ends
    <3>2. QED
      BY <3>1
  <2>4. CASE Crashes(t)
    <3>1. Ends(t, "failed")
      BY <1>t, <2>1, <2>2, <2>4 DEF Crashes, Ends
    <3>2. QED
      BY <3>1
  <2>5. CASE Verified(t)
    <3>1. PICK c \in Listings :
             /\ Finish(t, IF Outcome(c) = "match" THEN "success" ELSE "failed", {})
             /\ matched' = IF c.there /\ c.sameSize /\ c.md5 = "same"
                           THEN matched \cup {t} ELSE matched
      BY <2>5 DEF Verified
    <3>2. c.md5 \in {"same", "other", "none"}
      BY DEF Listings
    <3>3. Outcome(c) = "match" => t \in matched'
      BY <3>1, <3>2 DEF Outcome
    <3>4. matched \subseteq matched' /\ matched' \subseteq Tasks
      BY <1>t, <3>1
    <3>5. CASE Outcome(c) = "match"
      <4>1. Ends(t, "success")
        BY <1>t, <2>1, <2>2, <3>1, <3>3, <3>4, <3>5 DEF Ends
      <4>2. QED
        BY <4>1
    <3>6. CASE Outcome(c) # "match"
      <4>1. Ends(t, "failed")
        BY <1>t, <2>1, <2>2, <3>1, <3>4, <3>6 DEF Ends
      <4>2. QED
        BY <4>1
    <3>7. QED
      BY <3>5, <3>6
  <2>6. QED
    BY <1>7, <2>3, <2>4, <2>5
<1>8. QED
  BY <1>1, <1>2, <1>4, <1>5, <1>6, <1>7 DEF Execution
\* A step inside an execution that ends nothing.
Inner(t) ==
    \/ Begin(t) \/ Spawn(t) \/ Reap(t) \/ TimesOut(t) \/ LogBreaks(t) \/ GoesOn(t)
    \/ ChildExits(t) \/ CancelBegin(t) \/ CancelEnds(t)

Effect ==
    \/ \E t \in Tasks, w \in Works : Accept(t, w)
    \/ \E t \in Tasks : Inner(t)
    \/ \E t \in Tasks, s \in {"success", "failed", "cancelled"} : Ends(t, s)
    \/ Dies \/ Load \/ Age \/ UNCHANGED vars

\* Every step has one of these effects.
LEMMA Effects == ASSUME IInv, [Next]_vars PROVE Effect
<1>1. ASSUME NEW t \in Tasks, Start(t) PROVE Effect
  BY <1>1, AskedAssumption DEF Start, StartBackup, StartRestore, StartTransfer, Effect
<1>2. ASSUME NEW t \in Tasks, Execution(t) PROVE Effect
  BY <1>2, Executes DEF Effect, Inner
<1>3. QED
  BY <1>1, <1>2 DEF Next, Effect, Inner

LEMMA TypeInner == ASSUME TypeOK, NEW t \in Tasks, Inner(t) PROVE TypeOK'
<1> USE DEF TypeOK
<1>1. CASE Begin(t)
  <2>1. journal' \in [Tasks -> States] /\ left' \in [Events -> Nat]
    BY <1>1, PersistType DEF Begin, States, Open
  <2>2. QED
    BY <1>1, <2>1 DEF Begin, Open, Commands, childVars, histVars, States
<1>2. CASE Spawn(t)
  BY <1>2 DEF Spawn, registryVars, histVars
<1>3. CASE Reap(t)
  BY <1>3 DEF Reap, registryVars, histVars
<1>4. CASE TimesOut(t) \/ LogBreaks(t)
  <2>1. PICK why \in {"timeout", "fault"}, es \in SUBSET Events : Terminate(t, why, es)
    BY <1>4 DEF TimesOut, LogBreaks, Events
  <2>2. left' \in [Events -> Nat]
    BY <2>1, PayType DEF Terminate
  <2>3. QED
    BY <2>1, <2>2 DEF Terminate, registryVars, histVars
<1>5. CASE GoesOn(t)
  BY <1>5 DEF GoesOn, Continue, Commands, registryVars, histVars
<1>6. CASE ChildExits(t)
  BY <1>6 DEF ChildExits, registryVars
<1>7. CASE CancelBegin(t)
  <2>1. left' \in [Events -> Nat]
    BY <1>7, PayType DEF CancelBegin
  <2>2. QED
    BY <1>7, <2>1 DEF CancelBegin, registryVars, childVars, histVars
<1>8. CASE CancelEnds(t)
  BY <1>8 DEF CancelEnds, registryVars, childVars
<1>9. QED
  BY <1>1, <1>2, <1>3, <1>4, <1>5, <1>6, <1>7, <1>8 DEF Inner

\* What load() reads of the journal, and what it leaves there.
LEMMA Loading ==
    ASSUME TypeOK, Load
    PROVE  /\ ~up /\ up' = TRUE
           /\ task' \in [Tasks -> States] /\ journal' \in [Tasks -> States]
           /\ old' \subseteq Tasks /\ left' \in [Events -> Nat]
           /\ \A t \in Tasks : /\ task'[t] \in {None, Reconciled(journal[t])}
                               /\ journal'[t] \in {None, journal[t], Reconciled(journal[t])}
           /\ UNCHANGED <<inUse, pc, childVars, handle, ending, histVars>>
<1>1. PICK unread \in SUBSET {t \in Tasks : journal[t] # None},
           unwritten \in SUBSET {t \in Tasks : journal[t] \in Open} :
          /\ Pay((IF unread = {} THEN {} ELSE {"unreadable"})
                 \cup (IF unwritten = {} THEN {} ELSE {"journal"}))
          /\ LET read   == {t \in Tasks : journal[t] # None} \ unread
                 pruned == {t \in read \cap old : journal[t] \in Final}
             IN  /\ task' = [t \in Tasks |->
                                 IF t \in read \ pruned THEN Reconciled(journal[t]) ELSE None]
                 /\ journal' = [t \in Tasks |->
                                    CASE t \in pruned -> None
                                      [] t \in read \ (pruned \cup unwritten) ->
                                            Reconciled(journal[t])
                                      [] OTHER -> journal[t]]
                 /\ old' = old \ pruned
  BY DEF Load
<1>2. left' \in [Events -> Nat]
  BY <1>1, PayType
<1>3. \A t \in Tasks : Reconciled(journal[t]) \in States /\ journal[t] \in States
  BY DEF TypeOK, States, Reconciled, Open, Final
<1>4. \A t \in Tasks : /\ task'[t] \in {None, Reconciled(journal[t])}
                       /\ journal'[t] \in {None, journal[t], Reconciled(journal[t])}
  BY <1>1
<1>5. task' \in [Tasks -> States] /\ journal' \in [Tasks -> States] /\ old' \subseteq Tasks
  <2>1. None \in States
    BY DEF States
  <2>2. DOMAIN task' = Tasks /\ DOMAIN journal' = Tasks
    BY <1>1
  <2>3. task' = [t \in Tasks |-> task'[t]] /\ journal' = [t \in Tasks |-> journal'[t]]
    BY <1>1
  <2>4. \A t \in Tasks : task'[t] \in States /\ journal'[t] \in States
    BY <1>3, <1>4, <2>1
  <2>5. old' \subseteq Tasks
    BY <1>1 DEF TypeOK
  <2>6. QED
    BY <2>3, <2>4, <2>5
<1>6. QED
  BY <1>2, <1>4, <1>5 DEF Load

\* Of each kind finitely many executions run, so that counting them means something.
InUse(k) == {t \in Running : work[t].kind = k}

Countable == \A k \in Kinds : IsFiniteSet(InUse(k))

LEMMA TypeNext == ASSUME IInv, Countable, [Next]_vars PROVE TypeOK'
<1>t. TypeOK
  BY DEF IInv
<1>1. ASSUME NEW t \in Tasks, NEW w \in Works, Accept(t, w) PROVE TypeOK'
  <2>1. journal' \in [Tasks -> States] /\ left' \in [Events -> Nat]
    BY <1>1, <1>t, PersistType DEF Accept, States, Open
  <2>2. inUse' \in [Kinds -> Nat]
    BY <1>1, <1>t DEF Accept, TypeOK, Works
  <2>3. QED
    BY <1>1, <1>t, <2>1, <2>2 DEF Accept, Open, childVars, States, TypeOK
<1>2. ASSUME NEW t \in Tasks, Inner(t) PROVE TypeOK'
  BY <1>2, <1>t, TypeInner
<1>3. ASSUME NEW t \in Tasks, NEW s \in {"success", "failed", "cancelled"}, Ends(t, s)
      PROVE  TypeOK'
  <2>1. PICK es : Finish(t, s, es)
    BY <1>3 DEF Ends
  <2>2. journal' \in [Tasks -> States] /\ left' \in [Events -> Nat]
    BY <2>1, <1>t, PersistType DEF Finish, States, Final
  <2>3. inUse' \in [Kinds -> Nat]
    <3>1. work[t] \in Works
      BY <1>3, <1>t DEF Ends, IInv, Stages, Running, TypeOK
    <3>2. work[t].kind \in Kinds /\ t \in InUse(work[t].kind)
      BY <1>3, <3>1 DEF Works, Ends, InUse
    <3>3. inUse[work[t].kind] = Cardinality(InUse(work[t].kind))
      BY <3>2 DEF IInv, SlotsExact, InUse
    <3>4. Cardinality(InUse(work[t].kind)) - 1 \in Nat
      <4> DEFINE S == InUse(work[t].kind)
      <4>1. IsFiniteSet(S) /\ t \in S
        BY <3>2 DEF Countable
      <4>2. /\ IsFiniteSet(S \ {t}) /\ Cardinality(S) \in Nat
            /\ Cardinality(S \ {t}) = Cardinality(S) - 1
        <5> HIDE DEF S
        <5> QED
          BY <4>1, FS_RemoveElement, FS_CardinalityType
      <4>3. Cardinality(S \ {t}) \in Nat
        BY <4>2, FS_CardinalityType
      <4>4. QED
        BY <4>2, <4>3
    <3>5. QED
      BY <2>1, <1>t, <3>2, <3>3, <3>4 DEF Finish, TypeOK
  <2>4. QED
    BY <1>3, <2>1, <2>2, <2>3, <1>t DEF Finish, Ends, Final, States, TypeOK
<1>4. CASE Dies
  <2>1. left' \in [Events -> Nat]
    BY <1>4, <1>t, PayType DEF Dies
  <2>2. QED
    BY <1>4, <1>t, <2>1 DEF Dies, TypeOK, histVars
<1>5. CASE Load
  BY <1>5, <1>t, Loading DEF TypeOK, States, childVars, histVars
<1>6. CASE Age
  <2>1. left' \in [Events -> Nat]
    BY <1>6, <1>t, PayType DEF Age
  <2>2. QED
    BY <1>6, <1>t, <2>1 DEF Age, TypeOK, childVars, histVars
<1>7. CASE UNCHANGED vars
  BY <1>7, <1>t DEF vars, registryVars, childVars, histVars, TypeOK
<1>8. QED
  BY <1>1, <1>2, <1>3, <1>4, <1>5, <1>6, <1>7, Effects DEF Effect
(***************************************************************************)
(* The parts of the invariant, step by step                                *)
(***************************************************************************)
\* What the steps inside an execution leave alone.
LEMMA InnerKeeps ==
    ASSUME IInv, NEW t \in Tasks, Inner(t)
    PROVE  /\ UNCHANGED <<up, inUse, work>> /\ Running' = Running
           /\ \A u \in Tasks : task'[u] = task[u] \/ (u = t /\ Begin(t))
           /\ \A u \in Tasks : journal'[u] = journal[u] \/ (u = t /\ Begin(t))
           /\ complete \subseteq complete' /\ matched' = matched
<1>t. pc \in [Tasks -> Stations] /\ task \in [Tasks -> States] /\ TypeOK
  BY DEF IInv, TypeOK, Stations, States
<1>1. CASE Begin(t)
  <2>1. \A u \in Tasks \ {t} : journal'[u] = journal[u]
    BY <1>1, <1>t, PersistType DEF Begin, States, Open
  <2>2. pc[t] = "scheduled" /\ pc' = [pc EXCEPT ![t] = IF work[t].before THEN "stopper" ELSE "main"]
    BY <1>1 DEF Begin
  <2>3. Running' = Running
    BY <2>2, <1>t DEF Running
  <2>4. QED
    BY <1>1, <1>t, <2>1, <2>3 DEF Begin, histVars
<1>2. CASE GoesOn(t)
  <2>1. pc[t] \in {"stopper", "main"} /\ t \in Running
    BY <1>2 DEF GoesOn, Running
  <2>2. PICK next \in {"main", "collecting", "starter", "verifying"} : Continue(t, next)
    BY <1>2 DEF GoesOn
  <2>3. Running' = Running
    BY <2>1, <2>2, <1>t DEF Continue, Running
  <2>4. QED
    BY <2>2, <2>3 DEF Continue, registryVars, histVars
<1>3. CASE ~Begin(t) /\ ~GoesOn(t)
  <2>1. UNCHANGED <<up, inUse, work, task, journal, pc, matched>>
    BY <1>3 DEF Inner, Spawn, Reap, TimesOut, LogBreaks, Terminate, ChildExits, CancelBegin,
       CancelEnds, registryVars, childVars, histVars
  <2>2. complete \subseteq complete'
    BY <1>3 DEF Inner, Spawn, Reap, TimesOut, LogBreaks, Terminate, ChildExits, CancelBegin,
       CancelEnds, registryVars, childVars, histVars
  <2>3. QED
    BY <2>1, <2>2 DEF Running
<1>4. QED
  BY <1>1, <1>2, <1>3

\* What the end of an execution does to the others, and to itself.
LEMMA EndKeeps ==
    ASSUME IInv, NEW t \in Tasks, NEW s \in {"success", "failed", "cancelled"}, Ends(t, s)
    PROVE  /\ UNCHANGED <<up, work, heard, complete, ending>> /\ Running' = Running \ {t}
           /\ pc' = [pc EXCEPT ![t] = "done"] /\ task' = [task EXCEPT ![t] = s]
           /\ handle' = [handle EXCEPT ![t] = "none"]
           /\ inUse' = [inUse EXCEPT ![work[t].kind] = @ - 1]
           /\ journal'[t] \in {s, journal[t]}
           /\ \A u \in Tasks \ {t} : journal'[u] = journal[u]
           /\ work[t] \in Works
<1>1. PICK es : Finish(t, s, es)
  BY DEF Ends
<1>t. TypeOK /\ pc \in [Tasks -> Stations]
  BY DEF IInv, TypeOK, Stations
<1>2. /\ journal'[t] \in {s, journal[t]}
      /\ \A u \in Tasks \ {t} : journal'[u] = journal[u]
  BY <1>1, <1>t, PersistType DEF Finish, States, Final
<1>3. work[t] \in Works
  BY <1>t DEF Ends, IInv, Stages, Running, TypeOK
<1>4. Running' = Running \ {t}
  BY <1>1, <1>t DEF Finish, Running
<1>5. QED
  BY <1>1, <1>2, <1>3, <1>4 DEF Finish

LEMMA AcceptKeeps ==
    ASSUME IInv, NEW t \in Tasks, NEW w \in Works, Accept(t, w)
    PROVE  /\ work[t] = None /\ pc[t] = "none" /\ up
           /\ UNCHANGED <<up, childVars, handle, ending, heard, complete, matched>>
           /\ Running' = Running \cup {t} /\ t \notin Running
           /\ pc' = [pc EXCEPT ![t] = "scheduled"] /\ task' = [task EXCEPT ![t] = "queued"]
           /\ work' = [work EXCEPT ![t] = w]
           /\ journal'[t] \in {"queued", None}
           /\ \A u \in Tasks \ {t} : journal'[u] = journal[u]
<1>t. TypeOK /\ pc \in [Tasks -> Stations]
  BY DEF IInv, TypeOK, Stations
<1>1. work[t] = None /\ pc[t] = "none" /\ journal[t] = None /\ up
  BY DEF Accept, IInv, Stages
<1>2. /\ journal'[t] \in {"queued", None}
      /\ \A u \in Tasks \ {t} : journal'[u] = journal[u]
  BY <1>1, <1>t, PersistType DEF Accept, States, Open
<1>3. Running' = Running \cup {t} /\ t \notin Running
  BY <1>1, <1>t DEF Accept, Running
<1>4. QED
  BY <1>1, <1>2, <1>3 DEF Accept

\* Between a death and the next start nothing runs, and nothing is held.
LEMMA DownIsIdle ==
    ASSUME IInv, Dies \/ Load
    PROVE  /\ Running' = {} /\ UNCHANGED <<work, heard, complete, matched>> /\ ending' \subseteq ending
           /\ \A t \in Tasks : proc'[t] = "none" /\ handle'[t] \in {"none", handle[t]}
           /\ \A t \in Tasks : pc'[t] = IF pc[t] = "none" THEN "none" ELSE "done"
           /\ inUse' = [k \in Kinds |-> 0]
           /\ \A t \in Tasks : /\ task'[t] \in {None, Reconciled(journal[t])}
                               /\ journal'[t] \in {None, journal[t], Reconciled(journal[t])}
<1>t. TypeOK /\ pc \in [Tasks -> Stations] /\ Stages /\ OpenMeansRunning
  BY DEF IInv, TypeOK, Stations
<1>1. CASE Dies
  <2>1. \A t \in Tasks : pc'[t] = IF pc[t] = "none" THEN "none" ELSE "done"
    BY <1>1 DEF Dies
  <2>2. Running' = {}
    BY <2>1 DEF Running
  <2>3. QED
    BY <1>1, <2>1, <2>2 DEF Dies, histVars
<1>2. CASE Load
  <2>1. ~up /\ UNCHANGED <<inUse, pc, childVars, handle, ending, histVars>>
    BY <1>2 DEF Load
  <2>2. Running = {} /\ Running' = {}
    BY <1>t, <2>1 DEF Stages, Running
  <2>3. \A t \in Tasks : pc[t] \in {"none", "done"} /\ proc[t] = "none"
    BY <1>t, <2>2 DEF Running, OpenMeansRunning
  <2>4. \A k \in Kinds : inUse[k] = 0
    <3>1. \A k \in Kinds : InUse(k) = {}
      BY <2>2 DEF InUse
    <3>2. QED
      BY <3>1, FS_EmptySet DEF IInv, SlotsExact, InUse
  <2>5. inUse' = [k \in Kinds |-> 0]
    BY <2>1, <2>4, <1>t DEF TypeOK
  <2>6. QED
    BY <1>2, <1>t, <2>1, <2>2, <2>3, <2>5, Loading DEF childVars, histVars
<1>3. QED
  BY <1>1, <1>2

LEMMA SlotsStep ==
    ASSUME IInv, Countable, [Next]_vars PROVE SlotsExact' /\ Countable'
<1>t. /\ inUse \in [Kinds -> Nat] /\ work \in [Tasks -> Works \cup {None}]
      /\ \A k \in Kinds : /\ inUse[k] = Cardinality(InUse(k)) /\ inUse[k] <= Capacity[k]
                          /\ IsFiniteSet(InUse(k))
  BY DEF IInv, TypeOK, SlotsExact, InUse, Countable
<1> SUFFICES ASSUME NEW k \in Kinds
             PROVE  /\ inUse'[k] = Cardinality(InUse(k)') /\ inUse'[k] <= Capacity[k]
                    /\ IsFiniteSet(InUse(k)')
  BY DEF SlotsExact, Countable, InUse
<1>c. Capacity[k] \in Nat
  BY CapacityAssumption
<1>0. CASE inUse'[k] = inUse[k] /\ InUse(k)' = InUse(k)
  BY <1>0, <1>t
<1>1. ASSUME NEW t \in Tasks, NEW w \in Works, Accept(t, w)
      PROVE  /\ inUse'[k] = Cardinality(InUse(k)') /\ inUse'[k] <= Capacity[k]
             /\ IsFiniteSet(InUse(k)')
  <2>1. /\ Running' = Running \cup {t} /\ t \notin Running
        /\ work' = [work EXCEPT ![t] = w]
    BY <1>1, AcceptKeeps
  <2>2. inUse[w.kind] < Capacity[w.kind] /\ inUse' = [inUse EXCEPT ![w.kind] = @ + 1]
    BY <1>1 DEF Accept
  <2>r. Running \subseteq Tasks
    BY DEF Running
  <2>3. CASE k = w.kind
    <3>1. InUse(k)' = InUse(k) \cup {t} /\ t \notin InUse(k)
      BY <2>1, <2>3, <2>r, <1>t DEF InUse
    <3>2. IsFiniteSet(InUse(k)') /\ Cardinality(InUse(k)') = inUse[k] + 1
      BY <3>1, <1>t, FS_AddElement
    <3>3. QED
      BY <2>2, <2>3, <3>2, <1>t, <1>c
  <2>4. CASE k # w.kind
    <3>1. InUse(k)' = InUse(k)
      BY <2>1, <2>4, <2>r, <1>t DEF InUse
    <3>2. QED
      BY <2>2, <2>4, <3>1, <1>0, <1>t
  <2>5. QED
    BY <2>3, <2>4
<1>2. ASSUME NEW t \in Tasks, Inner(t)
      PROVE  /\ inUse'[k] = Cardinality(InUse(k)') /\ inUse'[k] <= Capacity[k]
             /\ IsFiniteSet(InUse(k)')
  BY <1>0, <1>2, InnerKeeps DEF InUse
<1>3. ASSUME NEW t \in Tasks, NEW s \in {"success", "failed", "cancelled"}, Ends(t, s)
      PROVE  /\ inUse'[k] = Cardinality(InUse(k)') /\ inUse'[k] <= Capacity[k]
             /\ IsFiniteSet(InUse(k)')
  <2>1. /\ Running' = Running \ {t} /\ t \in Running /\ work' = work /\ work[t] \in Works
        /\ inUse' = [inUse EXCEPT ![work[t].kind] = @ - 1]
    BY <1>3, EndKeeps DEF Ends
  <2>2. CASE k = work[t].kind
    <3>1. InUse(k)' = InUse(k) \ {t} /\ t \in InUse(k)
      BY <2>1, <2>2 DEF InUse
    <3>2. IsFiniteSet(InUse(k)') /\ Cardinality(InUse(k)') = inUse[k] - 1
      BY <3>1, <1>t, FS_RemoveElement
    <3>3. QED
      BY <2>1, <2>2, <3>2, <1>t, <1>c
  <2>3. CASE k # work[t].kind
    <3>1. InUse(k)' = InUse(k)
      BY <2>1, <2>3 DEF InUse
    <3>2. QED
      BY <2>1, <2>3, <3>1, <1>0, <1>t
  <2>4. QED
    BY <2>2, <2>3
<1>4. CASE Dies \/ Load
  <2>1. InUse(k)' = {} /\ inUse'[k] = 0
    BY <1>4, DownIsIdle DEF InUse
  <2>2. QED
    BY <2>1, <1>c, FS_EmptySet
<1>5. CASE Age \/ UNCHANGED vars
  <2>1. UNCHANGED <<inUse, pc, work>>
    BY <1>5 DEF Age, vars, histVars
  <2>2. QED
    BY <2>1, <1>0 DEF InUse, Running
<1>6. QED
  BY <1>1, <1>2, <1>3, <1>4, <1>5, Effects DEF Effect
LEMMA OpenStep == ASSUME IInv, [Next]_vars PROVE OpenMeansRunning'
<1>t. /\ task \in [Tasks -> States] /\ proc \in [Tasks -> {"none", "alive", "dead", "reaped"}]
      /\ pc \in [Tasks -> Stations]
      /\ OpenMeansRunning /\ Stages
  BY DEF IInv, TypeOK, States, Stations
<1> SUFFICES ASSUME NEW u \in Tasks
             PROVE  (task'[u] \in Open <=> u \in Running') /\ (proc'[u] # "none" => u \in Running')
  BY DEF OpenMeansRunning
<1>u. (task[u] \in Open <=> u \in Running) /\ (proc[u] # "none" => u \in Running)
  BY <1>t DEF OpenMeansRunning
<1> USE DEF Open
<1>1. ASSUME NEW t \in Tasks, NEW w \in Works, Accept(t, w)
      PROVE  (task'[u] \in Open <=> u \in Running') /\ (proc'[u] # "none" => u \in Running')
  BY <1>1, <1>t, <1>u, AcceptKeeps DEF childVars
<1>2. ASSUME NEW t \in Tasks, Inner(t)
      PROVE  (task'[u] \in Open <=> u \in Running') /\ (proc'[u] # "none" => u \in Running')
  <2>1. /\ Running' = Running /\ (task'[u] = task[u] \/ (u = t /\ Begin(t)))
    BY <1>2, InnerKeeps
  <2>2. Begin(t) => task'[t] = "running" /\ t \in Running
    BY <1>t DEF Begin, Running
  <2>3. proc'[u] # "none" => proc[u] # "none" \/ (u = t /\ t \in Running)
    BY <1>2, <1>t DEF Inner, Begin, Spawn, Reap, TimesOut, LogBreaks, Terminate, GoesOn,
       Continue, ChildExits, CancelBegin, CancelEnds, childVars, Running, Commands
  <2>4. QED
    BY <1>u, <2>1, <2>2, <2>3
<1>3. ASSUME NEW t \in Tasks, NEW s \in {"success", "failed", "cancelled"}, Ends(t, s)
      PROVE  (task'[u] \in Open <=> u \in Running') /\ (proc'[u] # "none" => u \in Running')
  <2>1. proc' = [proc EXCEPT ![t] = "none"]
    BY <1>3 DEF Ends
  <2>2. QED
    BY <1>3, <1>t, <1>u, <2>1, EndKeeps
<1>4. CASE Dies \/ Load
  BY <1>4, <1>t, DownIsIdle, NoneAssumption DEF Reconciled, Final
<1>5. CASE Age \/ UNCHANGED vars
  <2>1. UNCHANGED <<task, pc, proc>>
    BY <1>5 DEF Age, vars, registryVars, childVars
  <2>2. QED
    BY <2>1, <1>u DEF Running
<1>6. QED
  BY <1>1, <1>2, <1>3, <1>4, <1>5, Effects DEF Effect
LEMMA StagesStep == ASSUME IInv, [Next]_vars PROVE Stages'
<1>t. /\ task \in [Tasks -> States] /\ proc \in [Tasks -> {"none", "alive", "dead", "reaped"}]
      /\ pc \in [Tasks -> Stations] /\ journal \in [Tasks -> States]
      /\ code \in [Tasks -> {"ok", "bad"}] /\ work \in [Tasks -> Works \cup {None}]
      /\ Stages
  BY DEF IInv, TypeOK, States, Stations
<1> DEFINE Named(u) == work[u] = None <=> pc[u] = "none"
           Fresh(u) == work[u] = None => task[u] = None /\ journal[u] = None
           Awake(u) == u \in Running => up /\ journal[u] \in Open \cup {None}
           Child(u) == proc[u] # "none" => pc[u] \in Commands
           Backup(u) == pc[u] = "collecting" => work[u].kind = "backup"
           Done(u) == \/ pc[u] \in {"collecting", "starter", "verifying"}
                      \/ pc[u] = "main" /\ proc[u] \in {"dead", "reaped"} /\ code[u] = "ok"
                      => u \in complete
           Stage(u) == Named(u) /\ Fresh(u) /\ Awake(u) /\ Child(u) /\ Backup(u) /\ Done(u)
<1> SUFFICES ASSUME NEW u \in Tasks PROVE Stage(u)'
  BY DEF Stages
<1>u. Stage(u)
  BY <1>t DEF Stages
<1>1. ASSUME NEW t \in Tasks, NEW w \in Works, Accept(t, w) PROVE Stage(u)'
  <2>1. /\ work[t] = None /\ pc[t] = "none" /\ up
        /\ UNCHANGED <<up, childVars, handle, ending, heard, complete, matched>>
        /\ Running' = Running \cup {t}
        /\ pc' = [pc EXCEPT ![t] = "scheduled"] /\ task' = [task EXCEPT ![t] = "queued"]
        /\ work' = [work EXCEPT ![t] = w]
        /\ journal'[t] \in {"queued", None}
        /\ \A v \in Tasks \ {t} : journal'[v] = journal[v]
    BY <1>1, AcceptKeeps
  <2>2. CASE u = t
    BY <1>t, <1>u, <2>1, <2>2, NoneAssumption DEF childVars, Open, Commands
  <2>3. CASE u # t
    BY <1>t, <1>u, <2>1, <2>3 DEF childVars
  <2>4. QED
    BY <2>2, <2>3
<1>2. ASSUME NEW t \in Tasks, Inner(t) PROVE Stage(u)'
  <2>1. /\ UNCHANGED <<up, work>> /\ Running' = Running
        /\ (task'[u] = task[u] \/ (u = t /\ Begin(t)))
        /\ (journal'[u] = journal[u] \/ (u = t /\ Begin(t)))
        /\ complete \subseteq complete'
    BY <1>2, InnerKeeps
  <2>2. CASE Begin(t)
    <3>1. /\ pc[t] = "scheduled" /\ UNCHANGED <<proc, code>> /\ proc[t] = "none"
          /\ pc' = [pc EXCEPT ![t] = IF work[t].before THEN "stopper" ELSE "main"]
      BY <2>2, <1>t DEF Begin, childVars, Stages, Commands
    <3>2. journal'[t] \in {"running", journal[t]}
      BY <2>2, <1>t, PersistType DEF Begin, IInv, States, Open
    <3>3. work[t] # None /\ t \in Running
      BY <3>1, <1>t DEF Stages, Running
    <3>4. pc'[t] \in {"stopper", "main"} /\ (u # t => pc'[u] = pc[u])
      BY <3>1, <1>t
    <3>5. CASE u = t
      BY <1>t, <1>u, <2>1, <3>1, <3>2, <3>3, <3>4, <3>5 DEF Open, Commands
    <3>6. CASE u # t
      BY <1>u, <2>1, <3>1, <3>4, <3>6
    <3>7. QED
      BY <3>5, <3>6
  <2>3. CASE GoesOn(t)
    <3>1. PICK next \in {"main", "collecting", "starter", "verifying"} :
             /\ Continue(t, next)
             /\ IF next = "main" THEN pc[t] = "stopper" ELSE pc[t] = "main" /\ t \in complete
             /\ next = "collecting" => work[t].kind = "backup"
      BY <2>3 DEF GoesOn
    <3>2. /\ pc' = [pc EXCEPT ![t] = next] /\ proc' = [proc EXCEPT ![t] = "none"]
          /\ code' = [code EXCEPT ![t] = "ok"] /\ UNCHANGED <<task, journal, complete>>
      BY <3>1 DEF Continue, registryVars, histVars
    <3>3. CASE u = t
      BY <1>t, <1>u, <2>1, <3>1, <3>2, <3>3
    <3>4. CASE u # t
      BY <1>t, <1>u, <2>1, <3>2, <3>4
    <3>5. QED
      BY <3>3, <3>4
  <2>4. CASE ~Begin(t) /\ ~GoesOn(t)
    <3>1. UNCHANGED <<pc, task, journal>>
      BY <1>2, <2>4 DEF Inner, Spawn, Reap, TimesOut, LogBreaks, Terminate, ChildExits,
         CancelBegin, CancelEnds, registryVars
    <3>2. Child(u)'
      BY <1>2, <1>t, <1>u, <2>4, <3>1 DEF Inner, Spawn, Reap, TimesOut, LogBreaks, Terminate,
         ChildExits, CancelBegin, CancelEnds, childVars
    <3>3. Done(u)'
      BY <1>2, <1>t, <1>u, <2>1, <2>4, <3>1 DEF Inner, Spawn, Reap, TimesOut, LogBreaks,
         Terminate, ChildExits, CancelBegin, CancelEnds, childVars, histVars
    <3>4. QED
      BY <1>u, <2>1, <3>1, <3>2, <3>3
  <2>5. QED
    BY <2>2, <2>3, <2>4
<1>3. ASSUME NEW t \in Tasks, NEW s \in {"success", "failed", "cancelled"}, Ends(t, s)
      PROVE  Stage(u)'
  <2>1. /\ UNCHANGED <<up, work, complete>> /\ Running' = Running \ {t}
        /\ pc' = [pc EXCEPT ![t] = "done"] /\ task' = [task EXCEPT ![t] = s]
        /\ \A v \in Tasks \ {t} : journal'[v] = journal[v]
        /\ work[t] \in Works
    BY <1>3, EndKeeps
  <2>2. /\ proc' = [proc EXCEPT ![t] = "none"]
        /\ \A v \in Tasks \ {t} : code'[v] = code[v]
    BY <1>3 DEF Ends
  <2>3. QED
    BY <1>t, <1>u, <2>1, <2>2, NoneAssumption
<1>4. CASE Dies \/ Load
  <2>1. /\ Running' = {} /\ UNCHANGED <<work, complete>>
        /\ proc'[u] = "none" /\ pc'[u] = (IF pc[u] = "none" THEN "none" ELSE "done")
        /\ task'[u] \in {None, Reconciled(journal[u])}
        /\ journal'[u] \in {None, journal[u], Reconciled(journal[u])}
    BY <1>4, DownIsIdle
  <2>2. journal[u] = None => Reconciled(journal[u]) = None
    BY NoneAssumption DEF Reconciled, Open
  <2>3. QED
    BY <1>u, <2>1, <2>2
<1>5. CASE Age \/ UNCHANGED vars
  <2>1. UNCHANGED <<up, work, task, journal, pc, proc, code, complete>>
    BY <1>5 DEF Age, vars, registryVars, childVars, histVars
  <2>2. QED
    BY <2>1, <1>u DEF Running
<1>6. QED
  BY <1>1, <1>2, <1>3, <1>4, <1>5, Effects DEF Effect

LEMMA CancelStep == ASSUME IInv, [Next]_vars PROVE CancelReachesMain'
<1>t. /\ task \in [Tasks -> States] /\ proc \in [Tasks -> {"none", "alive", "dead", "reaped"}]
      /\ pc \in [Tasks -> Stations] /\ journal \in [Tasks -> States]
      /\ handle \in [Tasks -> {"none", "made", "attached", "cancelled"}]
      /\ ending \subseteq Tasks /\ heard \subseteq Tasks
      /\ work \in [Tasks -> Works \cup {None}]
      /\ CancelReachesMain /\ Stages /\ OpenMeansRunning
  BY DEF IInv, TypeOK, States, Stations
<1> DEFINE Reach(u) == handle[u] \in {"attached", "cancelled"} =>
                          \/ pc[u] = "main" /\ proc[u] # "none"
                          \/ pc[u] \in {"collecting", "starter", "verifying"}
           Heed(u) == u \in ending \cup heard =>
                         /\ work[u] # None /\ "success" \notin {task[u], journal[u]}
                         /\ u \in Running => pc[u] = "main" /\ handle[u] = "cancelled"
<1> SUFFICES ASSUME NEW u \in Tasks PROVE Reach(u)' /\ Heed(u)'
  BY DEF CancelReachesMain
<1>u. Reach(u) /\ Heed(u)
  BY <1>t DEF CancelReachesMain
<1>1. ASSUME NEW t \in Tasks, NEW w \in Works, Accept(t, w) PROVE Reach(u)' /\ Heed(u)'
  <2>1. /\ pc[t] = "none" /\ work[t] = None /\ work' = [work EXCEPT ![t] = w]
        /\ UNCHANGED <<childVars, handle, ending, heard>>
        /\ Running' = Running \cup {t}
        /\ pc' = [pc EXCEPT ![t] = "scheduled"] /\ task' = [task EXCEPT ![t] = "queued"]
        /\ \A v \in Tasks \ {t} : journal'[v] = journal[v]
    BY <1>1, AcceptKeeps
  <2>2. t \notin ending \cup heard /\ handle[t] \notin {"attached", "cancelled"}
    BY <1>1, <2>1, <1>t DEF CancelReachesMain
  <2>3. QED
    BY <1>t, <1>u, <2>1, <2>2 DEF childVars
<1>2. ASSUME NEW t \in Tasks, Inner(t) PROVE Reach(u)' /\ Heed(u)'
  <2>1. /\ Running' = Running /\ work' = work
        /\ (task'[u] = task[u] \/ (u = t /\ Begin(t)))
        /\ (journal'[u] = journal[u] \/ (u = t /\ Begin(t)))
    BY <1>2, InnerKeeps
  <2>2. CASE Begin(t)
    <3>1. /\ pc[t] = "scheduled" /\ UNCHANGED <<proc, ending, heard>>
          /\ pc' = [pc EXCEPT ![t] = IF work[t].before THEN "stopper" ELSE "main"]
          /\ handle' = [handle EXCEPT ![t] = "made"]
      BY <2>2 DEF Begin, childVars, histVars
    <3>2. t \in Running
      BY <3>1 DEF Running
    <3>3. t \notin ending \cup heard
      BY <3>1, <3>2, <1>t DEF CancelReachesMain
    <3>4. QED
      BY <1>t, <1>u, <2>1, <3>1, <3>3
  <2>3. CASE GoesOn(t)
    <3>1. PICK next \in {"main", "collecting", "starter", "verifying"} :
             /\ Continue(t, next)
             /\ IF next = "main" THEN pc[t] = "stopper"
                ELSE pc[t] = "main" /\ handle[t] # "cancelled"
      BY <2>3 DEF GoesOn
    <3>2. /\ pc' = [pc EXCEPT ![t] = next] /\ proc' = [proc EXCEPT ![t] = "none"]
          /\ UNCHANGED <<task, journal, handle, ending, heard>>
      BY <3>1 DEF Continue, registryVars, histVars
    <3>3. t \in Running
      BY <3>1 DEF Running
    <3>4. t \notin ending \cup heard
      BY <3>1, <3>3, <1>t DEF CancelReachesMain
    <3>5. next = "main" => handle[t] \notin {"attached", "cancelled"}
      BY <3>1, <1>t DEF CancelReachesMain
    <3>6. QED
      BY <1>t, <1>u, <2>1, <3>1, <3>2, <3>4, <3>5
  <2>4. CASE Spawn(t)
    <3>1. /\ proc[t] = "none" /\ proc' = [proc EXCEPT ![t] = "alive"]
          /\ handle' = [handle EXCEPT ![t] = IF pc[t] = "main" THEN "attached" ELSE @]
          /\ UNCHANGED <<task, journal, pc, ending, heard>> /\ pc[t] \in Commands
      BY <2>4 DEF Spawn, registryVars, histVars
    <3>2. t \notin ending \cup heard /\ t \in Running
      BY <3>1, <1>t DEF CancelReachesMain, Running, Commands
    <3>3. QED
      BY <1>t, <1>u, <2>1, <3>1, <3>2 DEF Commands
  <2>5. CASE CancelBegin(t)
    <3>1. /\ pc[t] = "main" /\ handle' = [handle EXCEPT ![t] = "cancelled"]
          /\ handle[t] \in {"attached", "cancelled"}
          /\ ending' = ending \cup {t} /\ UNCHANGED <<task, journal, pc, proc, heard>>
      BY <2>5 DEF CancelBegin, Cancellable, registryVars, childVars, histVars
    <3>2. t \in Running /\ task[t] \in Open /\ journal[t] \in Open \cup {None}
      BY <3>1, <1>t DEF Running, OpenMeansRunning, Stages
    <3>3. "success" \notin {task[t], journal[t]} /\ work[t] # None
      BY <1>t, <3>2, NoneAssumption DEF Open, Final, Stages, Running
    <3>4. CASE u = t
      BY <1>t, <1>u, <2>1, <3>1, <3>3, <3>4
    <3>5. CASE u # t
      BY <1>t, <1>u, <2>1, <3>1, <3>5
    <3>6. QED
      BY <3>4, <3>5
  <2>6. CASE CancelEnds(t)
    <3>1. /\ ending' \cup heard' = ending \cup heard
          /\ UNCHANGED <<task, journal, pc, proc, handle>>
      BY <2>6 DEF CancelEnds, registryVars, childVars
    <3>2. QED
      BY <1>u, <2>1, <3>1
  <2>7. CASE Reap(t) \/ TimesOut(t) \/ LogBreaks(t) \/ ChildExits(t)
    <3>1. UNCHANGED <<task, journal, pc, handle, ending, heard>>
      BY <2>7 DEF Reap, TimesOut, LogBreaks, Terminate, ChildExits, registryVars, histVars
    <3>2. proc[u] # "none" => proc'[u] # "none"
      BY <2>7, <1>t DEF Reap, TimesOut, LogBreaks, Terminate, ChildExits
    <3>3. QED
      BY <1>u, <2>1, <3>1, <3>2
  <2>8. QED
    BY <1>2, <2>2, <2>3, <2>4, <2>5, <2>6, <2>7 DEF Inner
<1>3. ASSUME NEW t \in Tasks, NEW s \in {"success", "failed", "cancelled"}, Ends(t, s)
      PROVE  Reach(u)' /\ Heed(u)'
  <2>1. /\ UNCHANGED <<work, heard, ending>> /\ Running' = Running \ {t}
        /\ pc' = [pc EXCEPT ![t] = "done"] /\ task' = [task EXCEPT ![t] = s]
        /\ handle' = [handle EXCEPT ![t] = "none"] /\ journal'[t] \in {s, journal[t]}
        /\ \A v \in Tasks \ {t} : journal'[v] = journal[v]
    BY <1>3, EndKeeps
  <2>2. /\ proc' = [proc EXCEPT ![t] = "none"]
        /\ s = "success" => t \notin ending \cup heard
    BY <1>3 DEF Ends
  <2>3. CASE u = t
    BY <1>t, <1>u, <2>1, <2>2, <2>3
  <2>4. CASE u # t
    BY <1>t, <1>u, <2>1, <2>2, <2>4
  <2>5. QED
    BY <2>3, <2>4
<1>4. CASE Dies \/ Load
  <2>1. /\ Running' = {} /\ UNCHANGED <<work, heard>> /\ ending' \subseteq ending
        /\ handle'[u] \in {"none", handle[u]}
        /\ pc'[u] = (IF pc[u] = "none" THEN "none" ELSE "done")
        /\ task'[u] \in {None, Reconciled(journal[u])}
        /\ journal'[u] \in {None, journal[u], Reconciled(journal[u])}
    BY <1>4, DownIsIdle
  <2>2. journal[u] # "success" => Reconciled(journal[u]) # "success"
    BY DEF Reconciled
  <2>3. handle'[u] \notin {"attached", "cancelled"}
    <3>1. Dies => handle'[u] = "none"
      BY DEF Dies
    <3>2. ASSUME Load PROVE pc[u] \in {"none", "done"} /\ handle' = handle
      BY <3>2, <1>t DEF Load, Stages, Running
    <3>3. QED
      BY <1>4, <1>u, <3>1, <3>2
  <2>4. None # "success"
    BY NoneAssumption DEF Final
  <2>5. QED
    BY <1>u, <2>1, <2>2, <2>3, <2>4
<1>5. CASE Age \/ UNCHANGED vars
  <2>1. UNCHANGED <<work, task, journal, pc, proc, handle, ending, heard>>
    BY <1>5 DEF Age, vars, registryVars, childVars, histVars
  <2>2. QED
    BY <2>1, <1>u DEF Running
<1>6. QED
  BY <1>1, <1>2, <1>3, <1>4, <1>5, Effects DEF Effect
LEMMA SuccessStep == ASSUME IInv, [Next]_vars PROVE SuccessIsReal'
<1>t. /\ task \in [Tasks -> States] /\ journal \in [Tasks -> States]
      /\ SuccessIsReal /\ Stages /\ matched \subseteq Tasks
      /\ work \in [Tasks -> Works \cup {None}]
  BY DEF IInv, TypeOK, States
<1>n. None # "success"
  BY NoneAssumption DEF Final
<1> DEFINE Real(u) == "success" \in {task[u], journal[u]} =>
                         /\ u \in complete
                         /\ work[u].kind = "sync" /\ work[u].after => u \in matched
<1> SUFFICES ASSUME NEW u \in Tasks PROVE Real(u)'
  BY DEF SuccessIsReal
<1>u. Real(u)
  BY <1>t DEF SuccessIsReal
<1>1. ASSUME NEW t \in Tasks, NEW w \in Works, Accept(t, w) PROVE Real(u)'
  BY <1>1, <1>t, <1>u, <1>n, AcceptKeeps
<1>2. ASSUME NEW t \in Tasks, Inner(t) PROVE Real(u)'
  <2>1. /\ (task'[u] = task[u] /\ journal'[u] = journal[u]) \/ (u = t /\ Begin(t))
        /\ complete \subseteq complete' /\ matched' = matched /\ work' = work
    BY <1>2, InnerKeeps
  <2>2. Begin(t) => task'[t] = "running" /\ journal'[t] \in {"running", journal[t]}
    BY <1>t, PersistType DEF Begin, IInv, States, Open
  <2>3. QED
    BY <1>u, <2>1, <2>2
<1>3. ASSUME NEW t \in Tasks, NEW s \in {"success", "failed", "cancelled"}, Ends(t, s)
      PROVE  Real(u)'
  <2>1. /\ UNCHANGED <<work, complete>> /\ task' = [task EXCEPT ![t] = s]
        /\ journal'[t] \in {s, journal[t]}
        /\ \A v \in Tasks \ {t} : journal'[v] = journal[v]
    BY <1>3, EndKeeps
  <2>2. /\ matched \subseteq matched'
        /\ s = "success" => /\ t \in complete
                            /\ work[t].kind = "sync" /\ work[t].after => t \in matched'
    BY <1>3 DEF Ends
  <2>3. CASE u = t
    BY <1>t, <1>u, <2>1, <2>2, <2>3
  <2>4. CASE u # t
    BY <1>t, <1>u, <2>1, <2>2, <2>4
  <2>5. QED
    BY <2>3, <2>4
<1>4. CASE Dies \/ Load
  <2>1. /\ UNCHANGED <<work, complete, matched>>
        /\ task'[u] \in {None, Reconciled(journal[u])}
        /\ journal'[u] \in {None, journal[u], Reconciled(journal[u])}
    BY <1>4, DownIsIdle
  <2>2. Reconciled(journal[u]) = "success" => journal[u] = "success"
    BY DEF Reconciled
  <2>3. QED
    BY <1>u, <1>n, <2>1, <2>2
<1>5. CASE Age \/ UNCHANGED vars
  BY <1>5, <1>u DEF Age, vars, registryVars, histVars
<1>6. QED
  BY <1>1, <1>2, <1>3, <1>4, <1>5, Effects DEF Effect

(***************************************************************************)
(* Theorems                                                                *)
(***************************************************************************)
\* Whatever is asked, cancelled and killed, and whatever the journal fails to hold: the
\* slots are exact, an open task is one that runs, a success is a real one, and a
\* cancel that was answered with success stands.
THEOREM Invariance == Spec => []IInv
<1>1. Init => IInv /\ Countable
  <2> SUFFICES ASSUME Init PROVE IInv /\ Countable
    OBVIOUS
  <2>1. Running = {}
    BY DEF Init, Running
  <2>2. \A k \in Kinds : IsFiniteSet(InUse(k)) /\ Cardinality(InUse(k)) = 0
    <3>1. \A k \in Kinds : InUse(k) = {}
      BY <2>1 DEF InUse
    <3>2. QED
      BY <3>1, FS_EmptySet
  <2>3. SlotsExact /\ Countable
    <3>1. \A k \in Kinds : inUse[k] = 0 /\ 0 <= Capacity[k]
      BY CapacityAssumption DEF Init
    <3>2. \A k \in Kinds : inUse[k] = Cardinality(InUse(k)) /\ inUse[k] <= Capacity[k]
      BY <2>2, <3>1
    <3>3. QED
      BY <2>2, <3>2 DEF SlotsExact, Countable, InUse
  <2>4. /\ \A t \in Tasks : /\ task[t] = None /\ journal[t] = None /\ proc[t] = "none"
                            /\ work[t] = None /\ pc[t] = "none"
        /\ ending = {} /\ heard = {}
    BY DEF Init
  <2>o. OpenMeansRunning /\ Stages
    BY <2>1, <2>4, NoneAssumption DEF OpenMeansRunning, Stages
  <2>5. SuccessIsReal /\ CancelHeard /\ CancelReachesMain
    BY NoneAssumption DEF Init, SuccessIsReal, CancelHeard, CancelReachesMain, Final
  <2>6. QED
    BY <2>3, <2>o, <2>5, TypeInit DEF IInv
<1>2. IInv /\ Countable /\ [Next]_vars => IInv' /\ Countable'
  <2> SUFFICES ASSUME IInv, Countable, [Next]_vars PROVE IInv' /\ Countable'
    OBVIOUS
  <2>1. CancelReachesMain' => CancelHeard'
    BY TypeNext DEF CancelReachesMain, CancelHeard, TypeOK
  <2>2. QED
    BY <2>1, TypeNext, SlotsStep, OpenStep, SuccessStep, StagesStep, CancelStep DEF IInv
<1>3. QED
  BY <1>1, <1>2, PTL DEF Spec

\* A verdict that was told is told again, or forgotten when its time has come or its file
\* cannot be read; only one whose journal write failed may be told differently.
THEOREM VerdictsStand == Spec => VerdictStands
<1>1. ASSUME IInv, [Next]_vars
      PROVE  [\A t \in Tasks : Told(t) \in Final =>
                 \/ Told(t)' \in {Told(t), None}
                 \/ journal[t] # Told(t)]_vars
  <2> SUFFICES ASSUME NEW u \in Tasks, Told(u) \in Final, journal[u] = Told(u)
               PROVE  Told(u)' \in {Told(u), None}
    OBVIOUS
  <2>t. /\ task \in [Tasks -> States] /\ pc \in [Tasks -> Stations]
        /\ OpenMeansRunning /\ Stages
    BY <1>1 DEF IInv, TypeOK, States, Stations
  <2>u. u \notin Running /\ work[u] # None
    <3>1. CASE up
      BY <2>t, <3>1, NoneAssumption DEF Told, OpenMeansRunning, Stages, Open, Final
    <3>2. CASE ~up
      BY <2>t, <3>2, NoneAssumption DEF Told, Stages
    <3>3. QED
      BY <3>1, <3>2
  <2>k. CASE UNCHANGED up /\ task'[u] = task[u] /\ journal'[u] = journal[u]
    BY <2>k DEF Told
  <2>1. ASSUME NEW t \in Tasks, NEW w \in Works, Accept(t, w)
        PROVE  Told(u)' \in {Told(u), None}
    BY <1>1, <2>1, <2>t, <2>u, <2>k, AcceptKeeps
  <2>2. ASSUME NEW t \in Tasks, Inner(t) PROVE Told(u)' \in {Told(u), None}
    <3>1. Begin(t) => t \in Running
      BY DEF Begin, Running
    <3>2. QED
      BY <1>1, <2>2, <2>u, <2>k, <3>1, InnerKeeps
  <2>3. ASSUME NEW t \in Tasks, NEW s \in {"success", "failed", "cancelled"}, Ends(t, s)
        PROVE  Told(u)' \in {Told(u), None}
    <3>1. t \in Running
      BY <2>3 DEF Ends
    <3>2. QED
      BY <1>1, <2>3, <2>t, <2>u, <2>k, <3>1, EndKeeps
  <2>4. CASE Dies
    BY <2>4 DEF Dies, Told
  <2>5. CASE Load
    <3>1. journal[u] \in Final /\ up' /\ task'[u] \in {None, Reconciled(journal[u])}
      BY <1>1, <2>5, DownIsIdle DEF Load
    <3>2. Reconciled(journal[u]) = journal[u]
      BY <3>1 DEF Reconciled, Open, Final
    <3>3. QED
      BY <3>1, <3>2 DEF Told
  <2>6. CASE Age \/ UNCHANGED vars
    BY <2>6, <2>k DEF Age, vars, registryVars
  <2>7. QED
    BY <1>1, <2>1, <2>2, <2>3, <2>4, <2>5, <2>6, Effects DEF Effect
<1>2. QED
  BY <1>1, Invariance, PTL DEF Spec, VerdictStands

-----------------------------------------------------------------------------
(***************************************************************************)
(* The dashboard's link to the agent (AgentLink), for every set of         *)
(* callers, every threshold and number of retries, and any number of       *)
(* faults.                                                                 *)
(***************************************************************************)
\* The end of a call, for the breaker and for its caller.
Concluded(c, answer) ==
    /\ Busy(c) /\ Strays(c) /\ Finished(c, answer)
    /\ call' = [call EXCEPT ![c] = NoCall]
    /\ \/ RecordSuccess
       \/ RecordFailure
    /\ answer = "done" => call[c].at = "served"
    /\ answer = "error" => call[c].at = "refused"
    /\ answer \in {"done", "error", "unavailable"}
    /\ UNCHANGED reachable /\ linkLeft' \in [LinkEvents -> Nat]

\* A call goes on: served, refused, or to be sent again.
Continues(c) ==
    /\ Busy(c)
    /\ call'[c] \in Calls /\ call' = [call EXCEPT ![c] = call'[c]]
    /\ call'[c].op = call[c].op /\ call'[c].probe = call[c].probe
    /\ \/ /\ call[c].at = "sent" /\ call'[c].at = "served"
          /\ call'[c].executed = call[c].executed + 1 /\ call'[c].tries = call[c].tries
       \/ /\ call[c].at = "sent" /\ call'[c].at = "refused"
          /\ call'[c].executed = call[c].executed /\ call'[c].tries = call[c].tries
       \/ call[c].tries > 0
       \/ call[c].at = "backoff"
    /\ UNCHANGED <<failures, opened, elapsed, probing, abandoned, reachable, last, strayed>>
    /\ linkLeft' \in [LinkEvents -> Nat]

LinkEffect ==
    \/ Elapses \/ GoesDown \/ ComesBack \/ UNCHANGED linkVars
    \/ \E c \in Callers, op \in Used : Ask(c, op) \/ Paused(c, op)
    \/ \E c \in Callers : Continues(c) \/ Breaks(c) \/ \E a \in Answers : Concluded(c, a)

LEMMA SpendType ==
    ASSUME LinkTypeOK, NEW e \in LinkEvents, Spend(e)
    PROVE  linkLeft' \in [LinkEvents -> Nat]
  BY DEF LinkTypeOK, Spend

\* Every step has one of these effects.
LEMMA LinkEffects == ASSUME LinkTypeOK, [LinkNext]_linkVars PROVE LinkEffect
<1>t. call \in [Callers -> Calls \cup {NoCall}] /\ linkLeft \in [LinkEvents -> Nat]
  BY DEF LinkTypeOK
<1>1. ASSUME NEW c \in Callers, Serve(c) PROVE LinkEffect
  <2>1. Busy(c) /\ call[c] \in Calls
    BY <1>1, <1>t DEF Serve, Busy
  <2>2. Continues(c)
    BY <1>1, <1>t, <2>1 DEF Serve, Continues, Calls
  <2>3. QED
    BY <2>2 DEF LinkEffect
<1>2. ASSUME NEW c \in Callers, Receive(c) PROVE LinkEffect
  <2>1. Concluded(c, IF call[c].at = "served" THEN "done" ELSE "error")
    BY <1>2, <1>t DEF Receive, Concluded
  <2>2. QED
    BY <2>1 DEF LinkEffect, Answers
<1>3. ASSUME NEW c \in Callers, Busy(c), Fails(c), UNCHANGED reachable,
             linkLeft' \in [LinkEvents -> Nat]
      PROVE  LinkEffect
  <2>1. call[c] \in Calls
    BY <1>3, <1>t DEF Busy
  <2>2. CASE call[c].tries > 0
             /\ call' = [call EXCEPT ![c].at = "backoff", ![c].tries = @ - 1]
             /\ UNCHANGED <<failures, opened, elapsed, probing, abandoned, last, strayed>>
    <3>1. Continues(c)
      BY <1>3, <1>t, <2>1, <2>2 DEF Continues, Calls
    <3>2. QED
      BY <3>1 DEF LinkEffect
  <2>3. CASE RecordFailure /\ Strays(c) /\ Finished(c, "unavailable")
             /\ call' = [call EXCEPT ![c] = NoCall]
    <3>1. Concluded(c, "unavailable")
      BY <1>3, <2>3 DEF Concluded
    <3>2. QED
      BY <3>1 DEF LinkEffect, Answers
  <2>4. QED
    BY <1>3, <2>2, <2>3 DEF Fails
<1>4. ASSUME NEW c \in Callers, NotReached(c) \/ AnswerLost(c) PROVE LinkEffect
  <2>1. linkLeft' \in [LinkEvents -> Nat]
    BY <1>4, <1>t, SpendType DEF NotReached, AnswerLost, LinkEvents
  <2>2. QED
    BY <1>3, <1>4, <2>1 DEF NotReached, AnswerLost
<1>5. ASSUME NEW c \in Callers, SendAgain(c) PROVE LinkEffect
  <2>1. Busy(c) /\ call[c] \in Calls
    BY <1>5, <1>t DEF SendAgain, Busy
  <2>2. Continues(c)
    BY <1>5, <1>t, <2>1 DEF SendAgain, Continues, Calls
  <2>3. QED
    BY <2>2 DEF LinkEffect
<1>6. QED
  BY <1>1, <1>2, <1>4, <1>5 DEF LinkNext, Asks, Proceeds, LinkEffect

\* What both ends of a call do to the breaker.
LEMMA Recorded ==
    ASSUME LinkTypeOK, ProbeIsOut,
           RecordSuccess \/ RecordFailure
    PROVE  /\ failures' \in 0..Threshold /\ opened' \in BOOLEAN /\ elapsed' \in BOOLEAN
           /\ probing' = FALSE /\ abandoned' = FALSE /\ (opened' <=> failures' >= Threshold)
           /\ elapsed' => opened'
<1>1. CASE RecordSuccess
  <2>1. 0 \in 0..Threshold /\ ~(0 >= Threshold)
    BY BreakerAssumption
  <2>2. QED
    BY <1>1, <2>1 DEF RecordSuccess
<1>2. CASE RecordFailure
  <2>1. Counted \in 0..Threshold
    BY BreakerAssumption DEF Counted, LinkTypeOK
  <2>2. CASE Counted >= Threshold
    BY <1>2, <2>1, <2>2 DEF RecordFailure
  <2>3. CASE ~(Counted >= Threshold)
    <3>1. ~(failures >= Threshold)
      BY <2>3, BreakerAssumption DEF Counted, LinkTypeOK
    <3>2. QED
      BY <1>2, <2>1, <2>3, <3>1, BreakerAssumption
         DEF RecordFailure, LinkTypeOK, ProbeIsOut
  <2>4. QED
    BY <2>2, <2>3
<1>3. QED
  BY <1>1, <1>2

LEMMA LinkTypeNext ==
    ASSUME LinkTypeOK, ProbeIsOut, [LinkNext]_linkVars
    PROVE  LinkTypeOK'
<1>t. call \in [Callers -> Calls \cup {NoCall}]
  BY DEF LinkTypeOK
<1>1. ASSUME NEW c \in Callers, NEW op \in Used, Ask(c, op) PROVE LinkTypeOK'
  <2>1. HalfOpen \in BOOLEAN /\ ExtraTries(op) \in Nat
    BY BreakerAssumption DEF HalfOpen, ExtraTries, LinkTypeOK
  <2>2. [op |-> op, at |-> "sent", tries |-> ExtraTries(op), probe |-> HalfOpen,
         executed |-> 0] \in Calls
    BY <2>1 DEF Calls
  <2>3. call' \in [Callers -> Calls \cup {NoCall}]
    BY <1>1, <1>t, <2>2 DEF Ask
  <2>4. QED
    BY <1>1, <2>1, <2>3 DEF Ask, LinkTypeOK
<1>2. ASSUME NEW c \in Callers, NEW op \in Used, Paused(c, op) PROVE LinkTypeOK'
  BY <1>2 DEF Paused, LinkTypeOK, CallEnds, Answers
<1>3. ASSUME NEW c \in Callers, Continues(c) PROVE LinkTypeOK'
  BY <1>3 DEF Continues, LinkTypeOK
<1>4. ASSUME NEW c \in Callers, NEW a \in Answers, Concluded(c, a) PROVE LinkTypeOK'
  <2>1. call[c] \in Calls
    BY <1>4, <1>t DEF Concluded, Busy
  <2>2. last' \in CallEnds
    BY <1>4, <2>1 DEF Concluded, Finished, CallEnds, Calls
  <2>3. strayed' \in BOOLEAN
    BY <1>4, <2>1 DEF Concluded, Strays, LinkTypeOK, Calls
  <2>4. call' \in [Callers -> Calls \cup {NoCall}]
    BY <1>4, <1>t DEF Concluded
  <2>5. QED
    BY <1>4, <2>2, <2>3, <2>4, Recorded DEF Concluded, LinkTypeOK
<1>b. ASSUME NEW c \in Callers, Breaks(c) PROVE LinkTypeOK'
  <2>1. call[c] \in Calls
    BY <1>b, <1>t DEF Breaks, Busy
  <2>2. last' \in CallEnds
    BY <1>b, <2>1 DEF Breaks, Finished, CallEnds, Calls, Answers
  <2>3. abandoned' \in BOOLEAN
    <3>1. call[c].probe \in BOOLEAN
      BY <2>1 DEF Calls
    <3>2. QED
      BY <1>b, <3>1, Zenon DEF Breaks, LinkTypeOK
  <2>4. call' \in [Callers -> Calls \cup {NoCall}]
    BY <1>b, <1>t DEF Breaks
  <2>5. linkLeft' \in [LinkEvents -> Nat]
    BY <1>b, SpendType DEF Breaks, LinkEvents
  <2>6. QED
    BY <1>b, <2>2, <2>3, <2>4, <2>5 DEF Breaks, LinkTypeOK
<1>5. CASE Elapses \/ GoesDown \/ ComesBack \/ UNCHANGED linkVars
  BY <1>5, SpendType
     DEF Elapses, GoesDown, ComesBack, linkVars, LinkTypeOK, LinkEvents
<1>6. QED
  BY <1>1, <1>2, <1>3, <1>4, <1>b, <1>5, LinkEffects DEF LinkEffect

\* The probes after a step, from those before.
LEMMA ProbesStep ==
    ASSUME LinkInv, [LinkNext]_linkVars
    PROVE  (ProbeIsOut /\ ProbeIsKnown)'
<1>t. /\ call \in [Callers -> Calls \cup {NoCall}] /\ LinkTypeOK
      /\ ProbeIsOut /\ ProbeIsKnown
  BY DEF LinkInv, LinkTypeOK
<1> DEFINE Breaker == /\ opened <=> failures >= Threshold
                      /\ elapsed => opened
                      /\ probing => HalfOpen /\ (Probes # {} \/ abandoned)
                      /\ abandoned => probing
<1>g. Breaker' /\ ProbeIsKnown' => (ProbeIsOut /\ ProbeIsKnown)'
  <2>1. ASSUME ProbeIsKnown' PROVE strayed' \/ \A c, d \in Probes' : c = d
    BY <2>1 DEF ProbeIsKnown
  <2>2. QED
    BY <2>1 DEF ProbeIsOut
<1>k. CASE UNCHANGED <<failures, opened, probing, abandoned, strayed>> /\ Probes' = Probes
           /\ (elapsed' = elapsed \/ (opened /\ elapsed'))
  BY <1>k, <1>g, <1>t DEF ProbeIsOut, ProbeIsKnown, HalfOpen
<1>1. ASSUME NEW c \in Callers, NEW op \in Used, Ask(c, op)
      PROVE  (ProbeIsOut /\ ProbeIsKnown)'
  <2> DEFINE new == [op |-> op, at |-> "sent", tries |-> ExtraTries(op),
                     probe |-> HalfOpen, executed |-> 0]
  <2>1. ~Busy(c) /\ call' = [call EXCEPT ![c] = new] /\ new.probe = HalfOpen
    BY <1>1 DEF Ask
  <2>2. new \in Calls
    BY BreakerAssumption DEF HalfOpen, ExtraTries, LinkTypeOK, Calls
  <2>3. new # NoCall
    BY <2>2, NoCallAssumption
  <2> HIDE DEF new
  <2>4. CASE HalfOpen
    <3>1. Probes' = Probes \cup {c}
      BY <1>t, <2>1, <2>3, <2>4 DEF Probes, Busy
    <3>2. ~probing /\ probing' = TRUE
          /\ UNCHANGED <<failures, opened, elapsed, abandoned, strayed>>
      BY <1>1, <1>t, <2>4 DEF Ask, Allows, HalfOpen, LinkTypeOK
    <3>3. ~strayed => Probes = {}
      BY <1>t, <3>2 DEF ProbeIsKnown
    <3>4. QED
      BY <1>g, <1>t, <2>4, <3>1, <3>2, <3>3 DEF ProbeIsOut, ProbeIsKnown, HalfOpen
  <2>5. CASE ~HalfOpen
    <3>1. Probes' = Probes
      BY <1>t, <2>1, <2>3, <2>5 DEF Probes, Busy
    <3>2. UNCHANGED <<failures, opened, elapsed, probing, abandoned, strayed>>
      BY <1>1, <1>t, <2>5 DEF Ask, LinkTypeOK
    <3>3. QED
      BY <1>k, <3>1, <3>2
  <2>6. QED
    BY <2>4, <2>5
<1>2. ASSUME NEW c \in Callers, NEW op \in Used, Paused(c, op)
      PROVE  (ProbeIsOut /\ ProbeIsKnown)'
  BY <1>2, <1>k DEF Paused, Probes, Busy
<1>3. ASSUME NEW c \in Callers, Continues(c) PROVE (ProbeIsOut /\ ProbeIsKnown)'
  <2>1. call'[c] # NoCall
    BY <1>3, NoCallAssumption DEF Continues
  <2>2. Probes' = Probes
    BY <1>3, <1>t, <2>1 DEF Continues, Probes, Busy
  <2>3. QED
    BY <1>3, <1>k, <2>2 DEF Continues
<1>4. ASSUME NEW c \in Callers, NEW a \in Answers, Concluded(c, a)
      PROVE  (ProbeIsOut /\ ProbeIsKnown)'
  <2>1. Probes' = Probes \ {c}
    BY <1>4, <1>t DEF Concluded, Probes, Busy
  <2>2. ~strayed' => ~strayed /\ (call[c].probe \/ ~probing)
    BY <1>4, <1>t DEF Concluded, Strays, LinkTypeOK
  <2>3. c \in Probes <=> call[c].probe
    BY <1>4 DEF Concluded, Probes
  <2>4. ~strayed' => Probes' = {}
    BY <1>t, <2>1, <2>2, <2>3 DEF ProbeIsKnown
  <2>5. QED
    BY <1>4, <1>g, <1>t, <2>4, Recorded DEF Concluded, ProbeIsKnown
<1>b. ASSUME NEW c \in Callers, Breaks(c) PROVE (ProbeIsOut /\ ProbeIsKnown)'
  <2>1. Probes' = Probes \ {c}
    BY <1>b, <1>t DEF Breaks, Probes, Busy
  <2>2. UNCHANGED <<failures, opened, elapsed, probing, strayed>>
    BY <1>b DEF Breaks
  <2>3. c \in Probes <=> call[c].probe
    BY <1>b DEF Breaks, Probes
  <2>4. abandoned' <=> (abandoned \/ (probing /\ c \in Probes))
    BY <1>b, <2>3, Zenon DEF Breaks
  <2>5. ProbeIsKnown'
    BY <1>t, <2>1, <2>2 DEF ProbeIsKnown
  <2>6. Breaker'
    BY <1>t, <2>1, <2>2, <2>4 DEF ProbeIsOut, HalfOpen
  <2>7. QED
    BY <1>g, <2>5, <2>6
<1>5. CASE Elapses \/ GoesDown \/ ComesBack \/ UNCHANGED linkVars
  BY <1>5, <1>k DEF Elapses, GoesDown, ComesBack, linkVars, Probes, Busy
<1>6. QED
  BY <1>1, <1>2, <1>3, <1>4, <1>b, <1>5, <1>t, LinkEffects DEF LinkEffect

LEMMA TruthStep ==
    ASSUME LinkInv, [LinkNext]_linkVars
    PROVE  (ToldTheTruth /\ SentOnce)'
<1>t. /\ call \in [Callers -> Calls \cup {NoCall}] /\ LinkTypeOK
      /\ ToldTheTruth /\ SentOnce
  BY DEF LinkInv, LinkTypeOK
<1>k. UNCHANGED last => ToldTheTruth'
  BY <1>t DEF ToldTheTruth
<1>1. ASSUME NEW c \in Callers, NEW op \in Used, Ask(c, op)
      PROVE  (ToldTheTruth /\ SentOnce)'
  <2>1. op \in Changes => ExtraTries(op) = 0
    BY DEF ExtraTries, Changes, Starts, Transfers, Reads
  <2>2. QED
    BY <1>1, <1>t, <1>k, <2>1 DEF Ask, SentOnce, Busy
<1>2. ASSUME NEW c \in Callers, NEW op \in Used, Paused(c, op)
      PROVE  (ToldTheTruth /\ SentOnce)'
  BY <1>2, <1>t DEF Paused, ToldTheTruth, SentOnce, Busy
<1>3. ASSUME NEW c \in Callers, Continues(c) PROVE (ToldTheTruth /\ SentOnce)'
  BY <1>3, <1>t, <1>k DEF Continues, SentOnce, Busy, Calls
<1>4. ASSUME NEW c \in Callers, NEW a \in Answers, Concluded(c, a)
      PROVE  (ToldTheTruth /\ SentOnce)'
  <2>1. Busy(c) /\ last' = [op |-> call[c].op, answer |-> a, executed |-> call[c].executed]
    BY <1>4 DEF Concluded, Finished
  <2>2. call[c].op \in Changes => call[c].executed = IF call[c].at = "served" THEN 1 ELSE 0
    BY <1>t, <2>1 DEF SentOnce
  <2>3. last'.op = call[c].op /\ last'.answer = a /\ last'.executed = call[c].executed
    BY <2>1
  <2>t. ToldTheTruth'
    <3>1. CASE a = "done"
      BY <1>4, <2>2, <2>3, <3>1 DEF ToldTheTruth, Concluded
    <3>2. CASE a = "error"
      BY <1>4, <2>2, <2>3, <3>2 DEF ToldTheTruth, Concluded
    <3>3. CASE a = "unavailable"
      BY <1>4, <2>2, <2>3, <3>3 DEF ToldTheTruth, Concluded
    <3>4. QED
      BY <1>4, <3>1, <3>2, <3>3 DEF Concluded
  <2>4. SentOnce'
    BY <1>4, <1>t DEF Concluded, SentOnce, Busy
  <2>5. QED
    BY <2>t, <2>4
<1>b. ASSUME NEW c \in Callers, Breaks(c) PROVE (ToldTheTruth /\ SentOnce)'
  <2>1. /\ Busy(c) /\ call' = [call EXCEPT ![c] = NoCall]
        /\ last' = [op |-> call[c].op, answer |-> "broken", executed |-> call[c].executed]
    BY <1>b DEF Breaks, Finished
  <2>2. call[c].op \in Changes => call[c].executed = IF call[c].at = "served" THEN 1 ELSE 0
    BY <1>t, <2>1 DEF SentOnce
  <2>3. last'.op = call[c].op /\ last'.answer = "broken" /\ last'.executed = call[c].executed
    BY <2>1
  <2>4. ToldTheTruth'
    BY <2>2, <2>3 DEF ToldTheTruth
  <2>5. SentOnce'
    BY <1>t, <2>1 DEF SentOnce, Busy
  <2>6. QED
    BY <2>4, <2>5
<1>5. CASE Elapses \/ GoesDown \/ ComesBack \/ UNCHANGED linkVars
  BY <1>5, <1>t, <1>k
     DEF Elapses, GoesDown, ComesBack, linkVars, SentOnce, Busy
<1>6. QED
  BY <1>1, <1>2, <1>3, <1>4, <1>b, <1>5, <1>t, LinkEffects DEF LinkEffect

\* However calls overlap, fail, are retried and are broken off: the circuit is open exactly
\* past the threshold and waits for a probe that is over only if that was broken off, and
\* what a caller is told of a change is what the agent did.
THEOREM LinkInvariance == LinkSpec => []LinkInv
<1>1. LinkInit => LinkInv
  <2> SUFFICES ASSUME LinkInit PROVE LinkInv
    OBVIOUS
  <2>1. Probes = {}
    BY DEF LinkInit, Probes, Busy
  <2>2. ProbeIsOut /\ ProbeIsKnown
    BY <2>1, BreakerAssumption DEF LinkInit, ProbeIsOut, ProbeIsKnown
  <2>3. LinkTypeOK
    <3>1. linkLeft \in [LinkEvents -> Nat] /\ 0 \in 0..Threshold
      BY BreakerAssumption, LinkBudgetAssumption DEF LinkInit
    <3>2. QED
      BY <3>1 DEF LinkInit, LinkTypeOK
  <2>4. ToldTheTruth /\ SentOnce
    BY DEF LinkInit, ToldTheTruth, SentOnce, Busy
  <2>5. QED
    BY <2>2, <2>3, <2>4 DEF LinkInv
<1>2. LinkInv /\ [LinkNext]_linkVars => LinkInv'
  BY LinkTypeNext, ProbesStep, TruthStep DEF LinkInv
<1>3. QED
  BY <1>1, <1>2, PTL DEF LinkSpec

=============================================================================
