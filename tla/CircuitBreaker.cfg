CONSTANTS
    Calls = {c1, c2, c3}
    Threshold = 3
    Window = 3
    Cooldown = 2
    MaxAttempts = 3
SPECIFICATION LiveSpec
INVARIANTS ProbeFlagOwned
PROPERTIES ClosesAfterRecovery
