\* A shutdown while the last guest of a run is being backed up.
CONSTANTS
    g1 = g1
    g2 = g2
    None = None
    Runs = {1, 2}
    Guests = {g1, g2}
    Targets <- MCTargets
    Budgets <- OneStop
SPECIFICATION Spec
INVARIANTS
    RunningRowHasActiveRun
CHECK_DEADLOCK FALSE
