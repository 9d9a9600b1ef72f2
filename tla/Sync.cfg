\* One backup: every request, faults of the processes, or faults of the copies.
CONSTANTS
    b1 = b1
    None = None
    Backups = {b1}
    Tasks = {1, 2}
    MaxAttempts = 2
    Budgets <- Scenarios
SPECIFICATION FairSpec
INVARIANTS
    Consistent
    UploadedIsThere
PROPERTIES
    KeepsLedger
    EveryUploadSettles
CHECK_DEADLOCK FALSE
