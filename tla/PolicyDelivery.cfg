\* Once every message is settled nothing is left to do.
CHECK_DEADLOCK FALSE
CONSTANTS
    Wanted = {"slack"}
    MaxDeliver = 2
    PolicyDeliver = 2
    Faults = {"crash", "late", "db", "unsure"}
SPECIFICATION LiveSpec
INVARIANTS TypeOK AtMostOnce NoOrphanClaim
PROPERTIES Notified
