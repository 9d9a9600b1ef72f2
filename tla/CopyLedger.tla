----------------------------- MODULE CopyLedger -----------------------------
(***************************************************************************)
(* What uploading and retention promise about the copies of the backups:   *)
(* the row claims a remote copy only once it is whole, and the local       *)
(* archive is given up by retention only on the strength of such a claim.  *)
(***************************************************************************)
CONSTANT Backups

VARIABLES
    local,     \* the backups whose archive retention has left on the host
    remote,    \* the backups with a whole copy on Drive
    missed,    \* the backups whose copy on Drive was deleted or lost
    claim      \* the backups whose row says `uploaded`

vars == <<local, remote, missed, claim>>

Init == local = Backups /\ remote = {} /\ missed = {} /\ claim = {}

\* A transfer completes.
Arrive(b) ==
    /\ remote' = remote \cup {b} /\ missed' = missed \ {b}
    /\ UNCHANGED <<local, claim>>

\* Retention deletes the copy, or Drive loses it.
Vanish(b) ==
    /\ b \in remote \cup missed
    /\ remote' = remote \ {b} /\ missed' = missed \cup {b}
    /\ UNCHANGED <<local, claim>>

\* A success or a verification is recorded: of a copy that did arrive.
Claim(b) ==
    /\ b \in remote \cup missed
    /\ claim' = claim \cup {b}
    /\ UNCHANGED <<local, remote, missed>>

\* The copy is sent again, or was not found.
Withdraw(b) ==
    /\ claim' = claim \ {b}
    /\ UNCHANGED <<local, remote, missed>>

\* Retention deletes the local archive on the strength of the claim.
Retire(b) ==
    /\ b \in claim
    /\ local' = local \ {b}
    /\ UNCHANGED <<remote, missed, claim>>

Next == \E b \in Backups :
            Arrive(b) \/ Vanish(b) \/ Claim(b) \/ Withdraw(b) \/ Retire(b)

Spec == Init /\ [][Next]_vars
=============================================================================
