\* After the last report there may be nothing left to do.
CHECK_DEADLOCK FALSE
CONSTANTS
    f1 = f1
    f2 = f2
    Prints <- MCPrints
    MaxReports = 2
    MaxDeliver = 2
    Replicas = 1
    BacklogFaults = {"fail", "queue"}
SPECIFICATION BacklogSpec
SYMMETRY Symmetry
INVARIANTS BacklogHonest
