CONSTANTS
    Events = {e1, e2}
    Drains = {t1, t2, t3}
    MaxAttempts = 2
    BatchSize = 2
    NoDrain = NoDrain
    NoEvent = NoEvent
    Nobody = Nobody
SPECIFICATION DeliverySpec
SYMMETRY Symmetry
CHECK_DEADLOCK FALSE
INVARIANTS TypeOK SettledIsHandled DeadLetterSpentItsAttempts LedgerHolds
PROPERTIES LeaseIsExclusive TerminalIsFinal ImplementsOutcomes LeadsHold
