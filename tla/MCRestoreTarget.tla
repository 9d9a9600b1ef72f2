--------------------------- MODULE MCRestoreTarget ---------------------------
(* RestoreTarget on a small instance: a restore that loses touch with the agent *)
(* while the operator changes the guest, or the storage changes, twice, and two *)
(* restores, one after the other or one while the agent still works on the      *)
(* other, with one disturbance.                                                 *)
EXTENDS RestoreTarget

Only(requests, one, two) ==
    [e \in TargetEvents |-> CASE e = "request" -> requests
                        [] e \in one      -> 1
                        [] e \in two      -> 2
                        [] OTHER          -> 0]

With(guests, lefts) == [guest : guests, left : lefts]

\* Where nothing disturbs the guest, it is there from the start.
Scenarios ==
    With(Guests, {Only(1, {"lost"}, {"guest"}), Only(2, {"guest"}, {}), Only(1, {"lost"}, {"storage"})})
        \cup With([type : {Type}, up : BOOLEAN], {Only(2, {"lost"}, {}), Only(2, {"archive"}, {})})
=============================================================================
