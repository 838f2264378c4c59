SPECIFICATION Spec
CONSTANTS
    Scans = {s1}
    Jobs = {j1, j2}
    ScanOf <- MCScanOf
    MaxAttempt = 2
    MaxDispatch = 1
    MaxResult = 1
    Faults = {}
INVARIANT
    ClosedMeansAllReported
CHECK_DEADLOCK FALSE
