----------------------------- MODULE MCRetention -----------------------------
(***************************************************************************)
(* Instances of Retention for TLC: the backups of one guest, one of them   *)
(* made by a job with counts of its own, one by an old run that only its   *)
(* job can speak for.  Each Budget names the events that one scenario      *)
(* allows.                                                                 *)
(***************************************************************************)
EXTENDS Retention

CONSTANTS g

Allow(many, one) ==
    [e \in Events |-> IF e \in many THEN 2 ELSE IF e \in one THEN 1 ELSE 0]

OfGuest  == [b \in Backups |-> g]
One      == [local |-> 1, remote |-> 1]
Void    == [local |-> 0, remote |-> 0]

MadeBy   == [b \in Backups |->
    CASE b = 1 -> [source |-> "absent", frozen |-> Void, linked |-> TRUE, job |-> One]
      [] b = 2 -> [source |-> "job", frozen |-> One, linked |-> TRUE, job |-> Void]
      [] OTHER -> [source |-> "global", frozen |-> None, linked |-> FALSE, job |-> None]]
Settings == {[local |-> 1, remote |-> 2, deletes |-> TRUE,  dry |-> FALSE],
             [local |-> 2, remote |-> 0, deletes |-> TRUE,  dry |-> FALSE],
             [local |-> 1, remote |-> 0, deletes |-> FALSE, dry |-> FALSE],
             [local |-> 1, remote |-> 1, deletes |-> TRUE,  dry |-> TRUE]}

Operators  == Allow({}, {"pin", "restore"})
Faults     == Allow({}, {"crash", "error", "outage"})
Uploads    == Allow({}, {"doubt", "retry"})
Edits      == Allow({}, {"configure", "delete"})
Sundry == {Operators, Faults, Uploads, Edits}

-----------------------------------------------------------------------------
(* Whose counts hold. *)

SomePairs == [local : {0, 1, 365, 366}, remote : {0, 366}]
Contexts == [source : {"global", "job", "other", "absent"}, frozen : SomePairs \cup {None},
             linked : BOOLEAN, job : SomePairs \cup {None}]

\* Nothing is deleted under counts that nobody chose: they are the ones in force, or in
\* range and the run's or its job's; a job that still exists never overrides what a run
\* froze, and a run that lost its job and has no source keeps everything.
ASSUME \A run \in Contexts :
    LET global   == [local |-> 3, remote |-> 3]
        resolved == ResolvePolicy(run, global)
    IN  /\ resolved \in {Unresolved, global, run.frozen, run.job}
        /\ resolved # Unresolved => resolved.local \in 1..365 /\ resolved.remote \in 0..365
        /\ resolved = global => run.source = "global"
        /\ (run.source = "job" /\ resolved = Unresolved) => Counts(run.frozen) = None
        /\ (run.source = "absent" /\ ~run.linked) => resolved = Unresolved

=============================================================================
