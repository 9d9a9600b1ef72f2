--------------------------- MODULE RestorePromise ---------------------------
(***************************************************************************)
(* What the dashboard promises about restores, whatever is lost, killed or *)
(* restarted on the way: the host is touched at most once for a restore,   *)
(* only after somebody confirmed it and never after it was recorded as     *)
(* refused, cancelled or expired; and a recorded outcome is final and does *)
(* not claim what did not happen.                                          *)
(***************************************************************************)
CONSTANT Restores

VARIABLES
    verdict,   \* restore_history.status
    host       \* the restore on the host: none, running, or how it ended

vars == <<verdict, host>>

Ends == {"success", "failed", "cancelled", "interrupted"}

Init == /\ verdict = [r \in Restores |-> "none"]
        /\ host = [r \in Restores |-> "none"]

Move(r, from, to) ==
    /\ verdict[r] = from
    /\ verdict' = [verdict EXCEPT ![r] = to]
    /\ UNCHANGED host

Propose(r)   == Move(r, "none", "pending")
Authorise(r) == Move(r, "pending", "confirmed")
Take(r)      == Move(r, "confirmed", "running")

\* Restores the host has not been asked for; several windows close at once.
Withdraw ==
    /\ verdict' \in [Restores -> {"none", "pending", "confirmed", "running",
                                  "expired"} \cup Ends]
    /\ \A r \in Restores : verdict'[r] # verdict[r] =>
          \/ verdict[r] = "pending" /\ verdict'[r] \in {"expired", "cancelled"}
          \/ verdict[r] = "confirmed" /\ verdict'[r] = "cancelled"
    /\ UNCHANGED host

\* A request whose answer was lost may still arrive after the row was closed
\* as interrupted: nothing else leaves the host free to begin.
Touch(r) ==
    /\ verdict[r] \in {"running", "interrupted"} /\ host[r] = "none"
    /\ host' = [host EXCEPT ![r] = "running"]
    /\ UNCHANGED verdict

End ==
    /\ host' \in [Restores -> {"none", "running"} \cup Ends]
    /\ \A r \in Restores : host'[r] # host[r] =>
          host[r] = "running" /\ host'[r] \in Ends
    /\ UNCHANGED verdict

Conclude(r, v) ==
    /\ v \in {"success", "cancelled"} => host[r] = v
    /\ v = "failed" => host[r] \in {"none", "failed"}
    /\ Move(r, "running", v)

Next ==
    \/ \E r \in Restores : \/ Propose(r) \/ Authorise(r) \/ Take(r) \/ Touch(r)
                           \/ \E v \in Ends : Conclude(r, v)
    \/ Withdraw \/ End

Spec == Init /\ [][Next]_vars

=============================================================================
