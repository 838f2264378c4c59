SPECIFICATION FairSpec
CONSTANTS
    Scans = {s1}
    Jobs = {j1, j2}
    ScanOf <- MCScanOf
    MaxAttempt = 2
    MaxDispatch = 1
    MaxResult = 1
    Faults = {"dispatch", "ack"}
PROPERTY
    EveryScanCloses
CHECK_DEADLOCK FALSE
