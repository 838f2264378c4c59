SPECIFICATION Spec
CONSTANTS
    Scans = {s1}
    Jobs = {j1, j2}
    ScanOf <- MCScanOf
    MaxAttempt = 1
    MaxDispatch = 2
    MaxResult = 2
    Faults = {"dispatch", "pubAck", "ack", "handler", "crash", "unsupported"}
SYMMETRY Symmetric
INVARIANTS
    TypeOK
    VerdictNeverHides
    SettledVerdict
    EarlyCloseNeedsRecount
    SuccessHasFindings
CHECK_DEADLOCK FALSE
