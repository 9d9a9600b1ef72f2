\* Two jobs; an edit or a press of "run now", each with an error and a crash.
CONSTANTS
    Unset = Unset
    Jobs = {1, 2}
    Crons <- Expressions
    Tables <- JobTables
    Horizon = 3
    Grace = 1
    ScheduleBudgets <- Scenarios
SPECIFICATION ScheduleSpec
INVARIANTS
    ScheduleInv
    OneRunPerWindow
    NothingForgotten
CHECK_DEADLOCK FALSE
