\* One run of two guests with every fault, or two runs with kills and outages.
CONSTANTS
    g1 = g1
    g2 = g2
    None = None
    Runs = {1, 2}
    Guests = {g1, g2}
    Targets <- MCTargets
    Budgets <- Scenarios
SPECIFICATION FairSpec
INVARIANTS
    Consistent
    RunAddsUp
    HeardCancelWins
    Serialised
PROPERTIES
    KeepsPromise
    NotReopened
    EveryRunSettles
CHECK_DEADLOCK FALSE
