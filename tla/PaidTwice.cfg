CONSTANTS
    Objects <- Subscribed
    TypeOf <- Itself
    Rank <- Ordered
    Events <- Snapshots
    PaymentOf <- OnePayment
    Links = {"session", "customer", "plan", "pay"}
    Strong = {"session", "plan", "pay"}
    Profiles = {1}
    None = None
SPECIFICATION Spec
CHECK_DEADLOCK FALSE
INVARIANT SettledReplacesFallback
