---------------------------- MODULE MCAgentTasks ----------------------------
(***************************************************************************)
(* Instances of AgentTasks for TLC: two tasks that may want the same slot, *)
(* one slot of each kind, and scenarios that budget the faults.            *)
(***************************************************************************)
EXTENDS AgentTasks

Times(n, kinds) == [e \in Events |-> IF e \in kinds THEN n ELSE 0]

OneSlotEach == [k \in Kinds |-> 1]

Jobs ==
    {[kind |-> "backup", before |-> FALSE, after |-> TRUE],
     [kind |-> "restore", before |-> TRUE, after |-> TRUE],
     [kind |-> "restore", before |-> FALSE, after |-> FALSE],
     [kind |-> "sync", before |-> FALSE, after |-> TRUE]}

\* Cancellations that race faults; deaths among failing journal writes.
Cancelled == [Times(1, {"fault"}) EXCEPT !["cancel"] = 2]
Restarted == [Times(1, {"journal", "age", "cancel"}) EXCEPT !["death"] = 2]
Unread    == Times(1, {"unreadable", "journal", "death"})
Scenarios == {Cancelled, Restarted, Unread}

=============================================================================
