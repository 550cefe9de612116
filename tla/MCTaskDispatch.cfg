SPECIFICATION FairSpec
CONSTANTS
    w1 = w1
    w2 = w2
    Workers <- MCWorkers
    MaxAttempts = 2
    Verdicts <- DoneOrFailed
    MaxFaults = 3
    MaxBreaks = 1
    MaxRetries = 1
INVARIANT TypeOK
INVARIANT OneExecution
INVARIANT ExecutionBudget
INVARIANT ResultOrDeadLetter
PROPERTY ImplementsExclusiveExecution
PROPERTY CallReturns
CHECK_DEADLOCK FALSE
