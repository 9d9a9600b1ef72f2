SPECIFICATION TargetSpec
CONSTANTS
    RestoreIds = {1, 2}
    Here = here
    Elsewhere = elsewhere
    Nothing = Nothing
    TargetStarts <- Scenarios
INVARIANTS
    Consistent
    RefusalIsNews
PROPERTIES
    TouchesAsConfirmed
