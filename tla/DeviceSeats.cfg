CONSTANTS
    Devices = {d1, d2, d3}
    Activations = {a1, a2, a3}
    Migrated = {}
    Mode = "enforce"
    Waits = FALSE
    Lossy = TRUE
    MaxBusy = 2
    MaxRows = 3
    MaxTokens = 2
SPECIFICATION SeatsSpec
CHECK_DEADLOCK FALSE
SYMMETRY Symmetry
INVARIANTS TypeOK
PROPERTIES SeatsHold ObservedSeatsHold
