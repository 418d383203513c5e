SPECIFICATION Spec
CONSTANTS
    Callers = {a, b}
    MaxIds = 2
    MaxStates = 2
    MaxGrants = 2
    MaxEdits = 1
    MaxPast = 1
SYMMETRY Clients
INVARIANTS
    RowsConsistent
    SpentIsSpent
    ConnectedHasToken
PROPERTIES
    SettingsKept
CHECK_DEADLOCK FALSE
