--------------------------- MODULE MCRestoreFlow ---------------------------
(***************************************************************************)
(* An instance of RestoreFlow for TLC: two restores of one backup, the     *)
(* second requested while the first is anywhere in its life; or one whose  *)
(* worker fails twice, is killed and cut off from the agent, or is shut    *)
(* down while the agent restarts; or one with deletions that are given up  *)
(* before the agent has carried them out.                                  *)
(***************************************************************************)
EXTENDS RestoreFlow, TLC

CONSTANTS b1

SameBackup == [r \in Restores |-> b1]

Times(n, kinds) == [f \in Events |-> IF f \in kinds THEN n ELSE 0]

Killed   == [Times(1, {"request", "crash", "outage"}) EXCEPT !["error"] = 2]
ShutDown == Times(1, {"request", "stop", "restart", "outage"})
Two      == [Times(1, {}) EXCEPT !["request"] = 2]
Strays   == [Times(1, {"request", "crash"}) EXCEPT !["timeout"] = 2]

Scenarios == {Killed, ShutDown, Two, Strays}

=============================================================================
