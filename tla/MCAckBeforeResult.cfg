SPECIFICATION Spec
CONSTANTS
    w1 = w1
    w2 = w2
    Workers <- MCWorkers
    MaxAttempts = 3
    Verdicts <- EveryVerdict
    MaxFaults = 1
    MaxBreaks = 1
    MaxRetries = 0
INVARIANT AckOnlyAfterPersistence
CHECK_DEADLOCK FALSE
