\* Two tasks, one slot of each kind; three scenarios of cancellations and faults.
CONSTANTS
    Tasks = {1, 2}
    Asked <- Jobs
    Capacity <- OneSlotEach
    None = None
    Budgets <- Scenarios
SPECIFICATION FairSpec
INVARIANTS
    IInv
PROPERTIES
    VerdictStands
    EveryTaskEnds
CHECK_DEADLOCK FALSE
