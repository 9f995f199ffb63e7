CONSTANTS
    Messages = {m1}
    Emails <- MCEmails
    Answers <- MCAnswers
    Artifacts <- MCArtifacts
    Opinions <- MCOpinions
    Workers = {u1, u2}
    Auditors = {q1, q2}
    MaxAttempts = 2
    MaxClaims = 2
    MaxRecover = 1
    Accounts = {t, o}
    Customers = {ct, co}
    Licences = {l1}
    Activations = {v1, v2}
    Intents = {i1}
    ProfileRows = {p1, p2}
    TestAccounts = {t}
    TestCustomers = {ct}
    None = None
    AbsentRow = AbsentRow
SPECIFICATION OperationsSpec
SYMMETRY Symmetry
CHECK_DEADLOCK FALSE
INVARIANTS TypeOK
PROPERTIES DeskHolds OperatorsHold
