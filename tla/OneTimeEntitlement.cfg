CONSTANTS
    MaxEvents = 4
    Visits = {v1}
    Paid = 2
    Disputes = {q1}
    MaxReading = 3
    SameSecond = FALSE
SPECIFICATION Spec
CHECK_DEADLOCK FALSE
INVARIANTS
    TypeOK
    NoAccessAgainstFacts
PROPERTIES
    LostIsFinal
    RevivedOnlyByNewerEvent
    RefundUndoneOnlyByFailure
