\* Three backups of a guest in four scenarios: restores and pins, faults, uploads, and edits.
CONSTANTS
    g = g
    None = None
    Backups = {1, 2, 3}
    Guests = {g}
    Guest <- OfGuest
    Run <- MadeBy
    Policies <- Settings
    MaxRetries = 1
    Budgets <- Sundry
SPECIFICATION Spec
INVARIANTS
    Consistent
PROPERTIES
    PolicyKept
CHECK_DEADLOCK FALSE
