\* A sink of two lines; four scenarios of failures and an export.
CONSTANTS
    Capacity = 2
    Batch = 2
    Chunk = 1
    Lines = {1, 3}
    None = None
    Budgets <- Scenarios
SPECIFICATION FairSpec
INVARIANTS
    IInv
    ExportIsExact
PROPERTIES
    EveryLineSettles
CHECK_DEADLOCK FALSE
