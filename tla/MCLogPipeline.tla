--------------------------- MODULE MCLogPipeline ---------------------------
(***************************************************************************)
(* Instances of LogPipeline for TLC: a sink of two lines, so that a batch  *)
(* put back fills it, with scenarios that budget the lines and the faults. *)
(***************************************************************************)
EXTENDS LogPipeline

Times(n, kinds) == [e \in Events |-> IF e \in kinds THEN n ELSE 0]

\* Failing writes, a shutdown, a crash, and an export among writes and prunes.
Failing  == [Times(2, {"log", "dberror"}) EXCEPT !["dangling"] = 1, !["lostack"] = 1]
ShutDown == [Times(1, {"dangling", "stop", "dberror", "lostack"}) EXCEPT !["log"] = 3]
Killed   == [Times(1, {"dangling", "crash", "dberror", "stop"}) EXCEPT !["log"] = 2]
Exported == [Times(1, {"export", "dberror"}) EXCEPT !["log"] = 3, !["prune"] = 2]
Scenarios == {Failing, ShutDown, Killed, Exported}

=============================================================================
