\* A lead that falls back twice, while the replay runs.
CONSTANTS
    Leads = {l1}
    Keys = {}
    NoKey = NoKey
    Legacy = {}
    Migrated = {}
    Routes = {"web"}
    Requests = {r1, r2}
    Replays = {p1}
    EmailLimit = 5
    MaxWrites = 5
    Outages = 1
    Ambiguous = FALSE
    MaxTime = 2
SPECIFICATION Spec
CHECK_DEADLOCK FALSE
INVARIANT LastSubmissionKept
