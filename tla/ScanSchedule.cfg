\* The clock stops at MaxTime.
CHECK_DEADLOCK FALSE
CONSTANTS
    r1 = r1
    r2 = r2
    m1 = m1
    k1 = k1
    k2 = k2
    t1 = t1
    t2 = t2
    None = None
    Replicas <- MCReplicas
    Timers <- MCTimers
    Ticks <- MCTicks
    Targets <- MCTargets
    Cadence <- MCCadence
    TTL = 2
    MaxTime = 3
    MaxTicks = 2
    Faults <- MCFaults
SPECIFICATION Spec
SYMMETRY Symmetry
INVARIANTS Spaced
