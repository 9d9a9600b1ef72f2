----------------------------- MODULE MCSyncQueue -----------------------------
(***************************************************************************)
(* Instances of SyncQueue for TLC: one backup whose archive is sent, sent  *)
(* again, verified and retired in any order, or that meets the faults of   *)
(* the processes, or deletions and losses of its copies.                   *)
(***************************************************************************)
EXTENDS SyncQueue

CONSTANTS b1

Allow(many, one) ==
    [e \in Events |-> IF e \in many THEN 2 ELSE IF e \in one THEN 1 ELSE 0]

\* Most requests, with both copies retired; every fault of the processes and the
\* agent; deletion and loss of the copies, with a retry by hand.
Copies   == Allow({"retire"}, {"upload", "verify", "cancel", "crash", "rclone", "restart"})
Process  == Allow({"error"}, {"crash", "stop", "outage", "restart", "rclone", "upload"})
Archives == Allow({"rclone"}, {"crash", "stop", "outage", "loss", "delete", "verify", "retry"})

Scenarios == {Copies, Process, Archives}

-----------------------------------------------------------------------------
(* The comparison of the two places. *)

V == INSTANCE Reports

Listings == UNION {[names -> 1 .. 2] : names \in SUBSET {"a", "b", "c"}}

\* Every name appears once, in the state its two sizes give; the counts add up; exchanging
\* the places exchanges the states; and a remote that cannot be listed is never `in_sync`.
ASSUME \A local \in Listings, remote \in Listings :
    LET here  == V!Compare(local, remote)
        there == V!Compare(remote, local)
        blind == V!Compare(local, None)
        both  == DOMAIN local \cap DOMAIN remote
    IN  /\ here.counts["in_sync"] = Cardinality({f \in both : local[f] = remote[f]})
        /\ here.counts["in_sync"] + here.counts["size_mismatch"] = Cardinality(both)
        /\ here.counts["local_only"] = there.counts["remote_only"]
        /\ Cardinality(DOMAIN here.entries) = here.counts["in_sync"] + here.counts["size_mismatch"]
                + here.counts["local_only"] + here.counts["remote_only"]
        /\ blind.counts["local_only"] = Cardinality(DOMAIN local)

=============================================================================
