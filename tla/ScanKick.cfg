SPECIFICATION Spec
CONSTANTS
    Requests = {r1, r2, r3}
    Orgs = {o1, o2}
    Keys = {k1, k2}
    None = None
    Blank = Blank
    TooLong = TooLong
INVARIANTS
    MeterExact
    SameKeySameScan
    SentOnce
PROPERTY
    ImplementsLedger
CHECK_DEADLOCK FALSE
