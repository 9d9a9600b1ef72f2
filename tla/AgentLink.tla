----------------------------- MODULE AgentLink ------------------------------
(***************************************************************************)
(* The dashboard's calls to the backup agent: the circuit breaker that all *)
(* of them share (clients/circuit_breaker.py) and the retries of one call  *)
(* (clients/agent_client.py).                                              *)
(*                                                                         *)
(* Every page, worker and sampler of the dashboard calls through the same  *)
(* breaker, so calls overlap: one that was let through long ago may end    *)
(* while the circuit is open and another one is its probe.  The signature  *)
(* and the nonce, fresh for each attempt, and what a payload says are left *)
(* out.                                                                    *)
(***************************************************************************)
EXTENDS Naturals

CONSTANTS
    Callers,        \* the coroutines that call the agent, one call at a time each
    Used,           \* the operations they use
    Threshold,      \* agent_circuit_failure_threshold
    Retries,        \* agent_max_retries
    NoCall,
    LinkBudgets     \* scenarios: how often each fault may happen in a behaviour

\* The operations, by the method of their request.
Reads     == {"health", "list_backups", "get_task", "get_task_log", "storage_status",
              "list_remote", "remote_quota"}
Starts    == {"start_backup", "start_restore"}
Transfers == {"start_upload", "start_download", "verify_remote", "delete_remote"}
Changes   == Starts \cup Transfers \cup {"delete_backup", "cancel_task"}

ASSUME UsedAssumption == Used \subseteq Reads \cup Changes

ASSUME BreakerAssumption == Threshold \in Nat \ {0} /\ Retries \in Nat

\* lost: the answer to a request is lost; down: the agent goes away; broken: a call is
\* cut off, or ends in an exception that is no httpx.HTTPError.
LinkEvents == {"lost", "down", "broken"}

ASSUME LinkBudgetAssumption == LinkBudgets \subseteq [LinkEvents -> Nat]

VARIABLES
    \* the breaker
    failures,   \* _failures, counted up to Threshold: nothing reads more of it
    opened,     \* _opened_at is set
    elapsed,    \* reset_seconds have passed since
    probing,    \* _half_open_in_flight
    abandoned,  \* history: it was raised for a call that has been broken since
    \* the calls and the agent
    call,       \* the call of each caller in flight, or NoCall
    reachable,  \* the agent can be reached
    \* history
    last,       \* how the call that ended last was answered, and what the agent did
    strayed,    \* a call let through earlier has ended while a probe was out
    linkLeft    \* what is left of the scenario's budget

linkVars == <<failures, opened, elapsed, probing, abandoned, call, reachable, last, strayed, linkLeft>>

Spend(e) == linkLeft[e] > 0 /\ linkLeft' = [linkLeft EXCEPT ![e] = @ - 1]

\* tries: the attempts left after this one; probe: it was let through half-open;
\* executed: history, how often the agent did what the call asks for.
Calls ==
    [op : Used, at : {"sent", "served", "refused", "backoff"}, tries : Nat, probe : BOOLEAN,
     executed : Nat]

Answers == {"done", "error", "unavailable", "paused", "broken"}
CallEnds == [op : Used, answer : Answers, executed : Nat]

ASSUME NoCallAssumption == NoCall \notin Calls \cup CallEnds

LinkInit ==
    /\ failures = 0 /\ opened = FALSE /\ elapsed = FALSE /\ probing = FALSE
    /\ abandoned = FALSE
    /\ call = [c \in Callers |-> NoCall] /\ reachable = TRUE
    /\ last = NoCall /\ strayed = FALSE
    /\ linkLeft \in LinkBudgets

Busy(c) == call[c] # NoCall
Probes  == {c \in Callers : Busy(c) /\ call[c].probe}

-----------------------------------------------------------------------------
(***************************************************************************)
(* The breaker.                                                            *)
(***************************************************************************)
HalfOpen == opened /\ elapsed
Allows   == ~opened \/ (HalfOpen /\ ~probing)

RecordSuccess ==
    /\ failures' = 0 /\ opened' = FALSE /\ elapsed' = FALSE /\ probing' = FALSE
    /\ abandoned' = FALSE

Counted == IF failures < Threshold THEN failures + 1 ELSE failures

FlagKept ==         \* mutant: a failed probe leaves the flag set
    /\ failures' = Counted /\ UNCHANGED probing /\ abandoned' = FALSE
    /\ IF Counted >= Threshold
       THEN opened' = TRUE /\ elapsed' = FALSE
       ELSE UNCHANGED <<opened, elapsed>>

\* At the threshold and past it, each failure stamps the time anew.
RecordFailure ==
    /\ failures' = Counted /\ probing' = FALSE /\ abandoned' = FALSE
    /\ IF Counted >= Threshold
       THEN opened' = TRUE /\ elapsed' = FALSE
       ELSE UNCHANGED <<opened, elapsed>>

\* reset_seconds pass.
Elapses ==
    /\ opened /\ ~elapsed /\ elapsed' = TRUE
    /\ UNCHANGED <<failures, opened, probing, abandoned, call, reachable, last, strayed, linkLeft>>

-----------------------------------------------------------------------------
(***************************************************************************)
(* A call.                                                                 *)
(***************************************************************************)
AlwaysRetries(op) == Retries        \* mutant: every method is retried

\* Only a GET is sent again.
ExtraTries(op) == IF op \in Reads THEN Retries ELSE 0

Finished(c, answer) ==
    last' = [op |-> call[c].op, answer |-> answer, executed |-> call[c].executed]

Ask(c, op) ==
    /\ ~Busy(c) /\ Allows
    /\ call' = [call EXCEPT ![c] = [op |-> op, at |-> "sent", tries |-> ExtraTries(op),
                                    probe |-> HalfOpen, executed |-> 0]]
    /\ probing' = (probing \/ HalfOpen)
    /\ UNCHANGED <<failures, opened, elapsed, abandoned, reachable, last, strayed, linkLeft>>

\* An open circuit, or one whose probe is out, answers at once.
Paused(c, op) ==
    /\ ~Busy(c) /\ ~Allows
    /\ last' = [op |-> op, answer |-> "paused", executed |-> 0]
    /\ UNCHANGED <<failures, opened, elapsed, probing, abandoned, call, reachable, strayed, linkLeft>>

\* The agent does what it is asked for, or refuses it (any status but a success).
Serve(c) ==
    /\ Busy(c) /\ call[c].at = "sent" /\ reachable
    /\ \/ call' = [call EXCEPT ![c].at = "served", ![c].executed = @ + 1]
       \/ call' = [call EXCEPT ![c].at = "refused"]
    /\ UNCHANGED <<failures, opened, elapsed, probing, abandoned, reachable, last, strayed, linkLeft>>

\* The end of a call that is no probe, while one is out: it stops counting as one.
Strays(c) == strayed' = (strayed \/ (~call[c].probe /\ probing))

\* Any answer is a success for the breaker; _parse makes an error of a refusal.
Receive(c) ==
    /\ Busy(c) /\ call[c].at \in {"served", "refused"}
    /\ RecordSuccess /\ Strays(c)
    /\ Finished(c, IF call[c].at = "served" THEN "done" ELSE "error")
    /\ call' = [call EXCEPT ![c] = NoCall]
    /\ UNCHANGED <<reachable, linkLeft>>

\* An attempt fails: another one after a pause, or the call counts as one failure.
Fails(c) ==
    \/ /\ call[c].tries > 0
       /\ call' = [call EXCEPT ![c].at = "backoff", ![c].tries = @ - 1]
       /\ UNCHANGED <<failures, opened, elapsed, probing, abandoned, last, strayed>>
    \/ /\ call[c].tries = 0
       /\ RecordFailure /\ Strays(c) /\ Finished(c, "unavailable")
       /\ call' = [call EXCEPT ![c] = NoCall]

NotReached(c) ==
    /\ Busy(c) /\ call[c].at = "sent" /\ ~reachable /\ Fails(c)
    /\ UNCHANGED <<reachable, linkLeft>>

AnswerLost(c) ==
    /\ Busy(c) /\ call[c].at \in {"served", "refused"} /\ Spend("lost") /\ Fails(c)
    /\ UNCHANGED reachable

\* An exception passes the call by, or it is cancelled: the breaker hears nothing of it,
\* and if it was the probe the flag stays up for nobody.
Breaks(c) ==
    /\ Busy(c) /\ Spend("broken") /\ Finished(c, "broken")
    /\ abandoned' = (abandoned \/ (probing /\ call[c].probe))
    /\ call' = [call EXCEPT ![c] = NoCall]
    /\ UNCHANGED <<failures, opened, elapsed, probing, reachable, strayed>>

SendAgain(c) ==
    /\ Busy(c) /\ call[c].at = "backoff"
    /\ call' = [call EXCEPT ![c].at = "sent"]
    /\ UNCHANGED <<failures, opened, elapsed, probing, abandoned, reachable, last, strayed, linkLeft>>

\* The agent, or the network to it, goes away and comes back.
GoesDown ==
    /\ reachable /\ Spend("down") /\ reachable' = FALSE
    /\ UNCHANGED <<failures, opened, elapsed, probing, abandoned, call, last, strayed>>

ComesBack ==
    /\ ~reachable /\ reachable' = TRUE
    /\ UNCHANGED <<failures, opened, elapsed, probing, abandoned, call, last, strayed, linkLeft>>

-----------------------------------------------------------------------------
Asks(c)     == \E op \in Used : Ask(c, op) \/ Paused(c, op)
Proceeds(c) == Serve(c) \/ Receive(c) \/ NotReached(c) \/ SendAgain(c)

LinkNext ==
    \/ Elapses \/ GoesDown \/ ComesBack
    \/ \E c \in Callers : Asks(c) \/ Proceeds(c) \/ AnswerLost(c) \/ Breaks(c)

\* Time passes, a call that was let through goes on until its timeout at the latest, and
\* somebody calls again: the storage sampler does as long as the process runs.
LinkFairness ==
    /\ WF_linkVars(Elapses)
    /\ WF_linkVars(\E c \in Callers, op \in Used : Ask(c, op))
    /\ \A c \in Callers : WF_linkVars(Proceeds(c))

LinkSpec == LinkInit /\ [][LinkNext]_linkVars /\ LinkFairness

-----------------------------------------------------------------------------
(***************************************************************************)
(* Properties.                                                             *)
(***************************************************************************)
\* Every variable has its type.
LinkTypeOK ==
    /\ failures \in 0..Threshold /\ opened \in BOOLEAN /\ elapsed \in BOOLEAN
    /\ probing \in BOOLEAN /\ abandoned \in BOOLEAN /\ strayed \in BOOLEAN
    /\ reachable \in BOOLEAN
    /\ call \in [Callers -> Calls \cup {NoCall}]
    /\ last \in CallEnds \cup {NoCall}
    /\ linkLeft \in [LinkEvents -> Nat]

\* The circuit is open when the threshold is reached, and it waits for a probe that is over
\* only if that was broken off and no call has ended since; only a call let through before
\* the circuit opened, ending now, lets a second probe out beside the first.
ProbeIsOut ==
    /\ opened <=> failures >= Threshold
    /\ elapsed => opened
    /\ probing => HalfOpen /\ (Probes # {} \/ abandoned)
    /\ abandoned => probing
    /\ strayed \/ \A c, d \in Probes : c = d

\* What a caller is told is true of the agent: a change was made once if the call
\* succeeded, not at all if it was refused or never sent, and at most once if the agent
\* could not be reached or the call was broken off.
ToldTheTruth ==
    last # NoCall /\ last.op \in Changes =>
       CASE last.answer = "done" -> last.executed = 1
         [] last.answer \in {"error", "paused"} -> last.executed = 0
         [] last.answer \in {"unavailable", "broken"} -> last.executed <= 1

\* Until a call has strayed, whoever was let through as the probe is the one flagged.
ProbeIsKnown == ~strayed => \A c \in Probes : probing /\ Probes = {c}

\* A change is sent once: it is not retried, and its answer says whether it was made.
SentOnce ==
    \A c \in Callers : Busy(c) /\ call[c].op \in Changes =>
       /\ call[c].tries = 0 /\ call[c].at # "backoff"
       /\ call[c].executed = IF call[c].at = "served" THEN 1 ELSE 0

\* An inductive invariant: the flag is the probe's, and the answer is the agent's.
LinkInv == LinkTypeOK /\ ProbeIsOut /\ ProbeIsKnown /\ ToldTheTruth /\ SentOnce

\* Once the agent stays within reach, the circuit closes and stays closed, whatever was in
\* flight as it came back; but for a probe that was broken off, after which it stays shut
\* until a call let through before it ends.
CircuitCloses == <>[]reachable => <>[](~opened) \/ <>[]abandoned

=============================================================================
