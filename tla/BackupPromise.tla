---------------------------- MODULE BackupPromise ----------------------------
(***************************************************************************)
(* What the run executor promises about the guests of a run, whatever      *)
(* happens to the processes and the network between them: a vzdump starts  *)
(* at most once, never before the row that accounts for it exists, and the *)
(* row's verdict is given once and does not claim what did not happen.     *)
(***************************************************************************)
CONSTANT Keys      \* the <<run, guest>> pairs

VARIABLES
    verdict,       \* the history row: none, running, or how it was closed
    dump           \* the vzdump on the host: none, running, or how it ended

vars == <<verdict, dump>>

Ends == {"success", "failed", "cancelled", "interrupted"}

Init == /\ verdict = [k \in Keys |-> "none"]
        /\ dump = [k \in Keys |-> "none"]

Open(k) ==
    /\ verdict[k] = "none"
    /\ verdict' = [verdict EXCEPT ![k] = "running"]
    /\ UNCHANGED dump

Start(k) ==
    /\ verdict[k] # "none" /\ dump[k] = "none"
    /\ dump' = [dump EXCEPT ![k] = "running"]
    /\ UNCHANGED verdict

\* A vzdump ends, or a restart of the host's agent ends whatever runs.
End ==
    /\ dump' \in [Keys -> {"none", "running"} \cup Ends]
    /\ \A k \in Keys : dump'[k] # dump[k] =>
          dump[k] = "running" /\ dump'[k] \in Ends
    /\ UNCHANGED verdict

\* `interrupted` and `failed` close a row whose vzdump may never have started,
\* or may still be running unseen; `success` and `cancelled` repeat its outcome.
Conclude(k, v) ==
    /\ verdict[k] = "running"
    /\ v \in {"success", "cancelled"} => dump[k] = v
    /\ verdict' = [verdict EXCEPT ![k] = v]
    /\ UNCHANGED dump

Next ==
    \/ \E k \in Keys : Open(k) \/ Start(k) \/ \E v \in Ends : Conclude(k, v)
    \/ End

Spec == Init /\ [][Next]_vars

=============================================================================
