\* Reports, resends, tests and reconfigurations under every fault, and the alerts of a disk
\* whose fill, and whose lines, move.
CONSTANTS
    run = run
    None = None
    Unreadable = Unreadable
    Once <- OneRun
    MaxRows = 3
    MaxAttempts = 2
    Fills <- Percentages
    Lines <- LinesSet
    Starts <- Scenarios
SPECIFICATION FairSpec
INVARIANTS
    Consistent
    DeliveriesAccounted
    ToldOnce
    AlarmWasRaised
PROPERTIES
    EveryMessageEnds
