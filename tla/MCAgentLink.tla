---------------------------- MODULE MCAgentLink -----------------------------
(***************************************************************************)
(* Instances of AgentLink for TLC: three callers that read and change, and *)
(* scenarios of lost answers, of an agent that goes away and of calls that *)
(* are broken off.                                                         *)
(***************************************************************************)
EXTENDS AgentLink

Times(lost, down, broken) == [lost |-> lost, down |-> down, broken |-> broken]

Scenarios == {Times(3, 0, 0), Times(1, 1, 0), Times(2, 0, 2)}

=============================================================================
