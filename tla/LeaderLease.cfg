CONSTANTS
    r1 = r1
    r2 = r2
    m1 = m1
    k1 = k1
    None = None
    Replicas <- MCReplicas
    Timers <- MCTimers
    Ticks <- MCTicks
    TTL = 2
    Faults <- MCFaults
SPECIFICATION LiveLeaseSpec
INVARIANTS WorkOnlyWhileHolding
PROPERTIES NoTheft LeadershipReturns
