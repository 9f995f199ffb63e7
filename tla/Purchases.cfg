CONSTANTS
    None = None
    p1 = p1
    b1 = b1
    b2 = b2
    a1 = a1
    a2 = a2
    i1 = i1
    x1 = x1
    x2 = x2
    x3 = x3
    c1 = c1
    o1 = o1
    o2 = o2
    n1 = n1
    n2 = n2
    Requests = {x1, x2, x3}
    Entries = {a1, a2}
    Keys = {k1, k2}
    Cookies = {c1, o1}
    Paid = {c1}
    Ageing = {a1, c1}
SPECIFICATION PurchasesSpec
SYMMETRY Symmetry
CHECK_DEADLOCK FALSE
INVARIANTS TypeOK PaidCheckoutHolds OffersHold SignInHolds
PROPERTIES ClaimHolds CheckoutHolds SubscriptionHolds
