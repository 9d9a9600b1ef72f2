--------------------------- MODULE MCBackupRunner ---------------------------
(***************************************************************************)
(* Instances of BackupRunner for TLC: a run of two guests and a run of one,*)
(* with scenarios that budget the requests and the faults.                 *)
(***************************************************************************)
EXTENDS BackupRunner, TLC

CONSTANTS g1, g2

MCTargets == 1 :> <<g1, g2>> @@ 2 :> <<g1>>

Times(n, kinds) == [f \in Events |-> IF f \in kinds THEN n ELSE 0]

\* One run with a cancel, and the executor failing twice, killed and cut off from
\* the agent, or shut down while the agent restarts; two runs and the kills; or a run
\* with a cancel and a kill, and an archive deleted.
Killed  == [Times(1, {"request", "cancel", "crash", "outage"}) EXCEPT !["error"] = 2]
ShutDown == Times(1, {"request", "cancel", "stop", "restart", "error", "outage"})
TwoRuns == [Times(1, {"crash", "restart", "outage"}) EXCEPT !["request"] = 2]
Deletes == Times(1, {"request", "cancel", "crash", "delete"})
Scenarios == {Killed, ShutDown, TwoRuns, Deletes}

OneStop == {[Times(1, {"stop"}) EXCEPT !["request"] = 2]}

-----------------------------------------------------------------------------
(* How the guests of a run are chosen. *)

R == INSTANCE RunTargets WITH Refused <- None

Inventories == UNION {[known -> BOOLEAN] : known \in SUBSET {g1, g2, "g3"}}
Lists       == UNION {[1 .. n -> {g1, g2, "g3"}] : n \in 0 .. 3}

\* Nobody backs up a guest that is not enabled, whoever named it; a guest a job names is
\* a target or reported as skipped; an operator gets the whole list or an error.
ASSUME \A inventory \in Inventories, named \in Lists :
    LET enabled  == R!EnabledGuests(inventory)
        job(s)   == R!ResolveJobTargets(s, named, inventory)
        explicit == R!ResolveExplicitTargets(named, inventory)
    IN  /\ \A s \in {"all", "include", "exclude"} : job(s).targets \subseteq enabled
        /\ job("include").targets \cup job("exclude").targets = job("all").targets
        /\ job("include").targets \cap job("exclude").targets = {}
        /\ R!Values(named) = job("include").targets \cup R!Values(job("include").skipped)
        /\ \A i \in DOMAIN job("include").skipped :
              LET g == job("include").skipped[i]
              IN  R!SkipReason(g, inventory) = "disabled" <=> g \in DOMAIN inventory
        /\ IF explicit = None THEN ~(R!Values(named) \subseteq enabled)
           ELSE explicit = named /\ R!Values(named) \subseteq enabled

Defaults == [mode |-> "stop", storage |-> "dump", threads |-> 2, bwlimit |-> 5,
             upload |-> TRUE, keep |-> 3]
Wishes   == [mode : {None, "snapshot"}, storage : {None, "", "other"}, threads : {None, 0, 1},
             bwlimit : {None, 0, 1}, upload : {None, FALSE}, targets : Lists]

\* What an operator states is what is done, zero and FALSE included but not an
\* empty name, whatever the defaults.
ASSUME \A wish \in Wishes :
    LET made == R!RequestManualRun(wish, [g \in {g1, g2} |-> TRUE], Defaults)
    IN  IF made = None THEN "g3" \in R!Values(wish.targets)
        ELSE \A o \in DOMAIN made.options \ {"keep"} :
                 made.options[o] =
                    IF wish[o] = None \/ (o = "storage" /\ wish.storage = "") THEN Defaults[o]
                    ELSE wish[o]

=============================================================================
