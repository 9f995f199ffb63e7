CONSTANTS
    Devices = {d1, d2}
    Accounts = {a1, a2}
    Keys = {k1, k2}
    Requests = {r1}
    Starter = 5
    Cost = 2
    Pack = 2
    LegacyUses = {0, 3}
    NoAccount = NoAccount
    None = None
    founder = founder
    guest = guest
    home = home
    laptop = laptop
SPECIFICATION AllSpec
SYMMETRY Symmetry
CHECK_DEADLOCK FALSE
INVARIANTS TypeOK Conservation LedgerExplainsBalance GrantedOncePerSession NoReservationLeftBehind BoundDeviceHasAccountWallet
PROPERTIES OutcomeIsFinal DownloadsHold
