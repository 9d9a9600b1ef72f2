----------------------------- MODULE MCSessions -----------------------------
(***************************************************************************)
(* Instances of Sessions for TLC: a browser with three tabs, which are     *)
(* alike, and another with one, and scenarios that budget the requests and *)
(* the faults.                                                             *)
(***************************************************************************)
EXTENDS Sessions, TLC

CONSTANTS d1, d2, d3, p1

Times(n, kinds) == [e \in Events |-> IF e \in kinds THEN n ELSE 0]

TwoBrowsers == d1 :> "desk" @@ d2 :> "desk" @@ d3 :> "desk" @@ p1 :> "phone"

DeskTabs == Permutations({d1, d2, d3})

\* Rotations among lost answers and failing commits; sessions ended among rotations.
Rotating == [Times(1, {"login", "lost", "dberror", "expire"}) EXCEPT !["refresh"] = 3]
Ending   == [Times(1, {"logout", "revoke", "refresh"}) EXCEPT !["login"] = 2]
Changing == [Times(1, {"password", "refresh"}) EXCEPT !["login"] = 3]
Scenarios == {Rotating, Ending, Changing}

=============================================================================
