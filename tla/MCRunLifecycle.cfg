SPECIFICATION FairSpec
CONSTANTS
    t1 = t1
    t2 = t2
    Tasks <- MCTasks
    LastNode = 3
    HumanNodes <- MCHumanNodes
    Savers <- BothSavers
    MaxCrashes = 2
    MaxFaults = 2
    MaxCancels = 1
    MaxRetries = 1
INVARIANT TypeOK
INVARIANT OneTaskPerRun
INVARIANT TerminalHasCause
INVARIANT ExecutesFromCheckpoint
PROPERTY NeverOrphanedForever
CHECK_DEADLOCK FALSE
