CONSTANTS
    Devices = {d1, d2}
    Accounts = {a1, a2}
    Keys = {k1}
    Requests = {r1}
    Starter = 5
    Cost = 2
    Pack = 2
    LegacyUses = {0}
    NoAccount = NoAccount
SPECIFICATION Spec
CHECK_DEADLOCK FALSE
INVARIANT PurchaseReachesBuyer
