\* Three callers, one read and one change, a retry, and two failures open the circuit.
CONSTANTS
    Callers = {1, 2, 3}
    Used = {"storage_status", "start_backup"}
    Threshold = 2
    Retries = 1
    NoCall = NoCall
    LinkBudgets <- Scenarios
SPECIFICATION LinkSpec
INVARIANTS
    LinkInv
PROPERTIES
    CircuitCloses
