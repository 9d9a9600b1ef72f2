\* Two browsers, one with three tabs, and four tokens; three scenarios of requests and faults.
CONSTANTS
    d1 = d1
    d2 = d2
    d3 = d3
    p1 = p1
    Tabs = {d1, d2, d3, p1}
    Browser <- TwoBrowsers
    Tokens = {1, 2, 3, 4}
    None = None
    Budgets <- Scenarios
SPECIFICATION Spec
SYMMETRY DeskTabs
INVARIANTS
    IInv
    EndedStaysEnded
    SessionLasts
CHECK_DEADLOCK FALSE
