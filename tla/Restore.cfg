\* One restore with every fault, two of one backup, or one with deletions that are
\* given up halfway.
CONSTANTS
    b1 = b1
    None = None
    Restores = {1, 2}
    Backups = {b1}
    Source <- SameBackup
    Budgets <- Scenarios
SPECIFICATION FairSpec
INVARIANTS
    IInv
    FetchedIsTracked
PROPERTIES
    KeepsPromise
    NamedArchiveKept
    EveryRestoreSettles
CHECK_DEADLOCK FALSE
