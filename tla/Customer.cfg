CONSTANTS
    a1 = a1
    i1 = i1
    i2 = i2
    b1 = b1
    b2 = b2
    s1 = s1
    k1 = k1
    r1 = r1
    r2 = r2
    t1 = t1
    t2 = t2
    c1 = c1
    c2 = c2
    e1 = e1
    e2 = e2
    p1 = p1
    p2 = p2
    None = None
SPECIFICATION Spec
CHECK_DEADLOCK FALSE
PROPERTIES IdentityHolds UsageHolds VisitsHold
