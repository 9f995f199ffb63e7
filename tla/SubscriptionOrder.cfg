CONSTANTS
    Kind = "legacy"
    Workers = {w1, w2}
    MaxEvents = 3
    Ids = {1, 2}
    Changes = {"renew", "cancel", "end"}
    None = None
SPECIFICATION Spec
CHECK_DEADLOCK FALSE
INVARIANTS SettledAgrees
