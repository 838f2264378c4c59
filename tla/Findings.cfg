\* After the last report there may be nothing left to do.
CHECK_DEADLOCK FALSE
CONSTANTS
    Sweepers = {s1, s2}
    Hours = 2
    MaxPending = 2
    Faults = {"publish"}
    f1 = f1
    f2 = f2
    Prints <- MCPrints
    MaxReports = 3
    MaxDeliver = 2
    Replicas = 1
    BacklogFaults = {"fail", "queue", "race"}
SPECIFICATION MCSpec
INVARIANTS AlertOnce ClaimedIsBreached ClaimMeansAlert FollowsNewest
PROPERTIES BreachAlerted
