SPECIFICATION Spec
CONSTANTS
    t1 = t1
    t2 = t2
    Tasks <- MCTasks
    LastNode = 3
    HumanNodes <- MCHumanNodes
    Savers <- OnlyPostgres
    MaxCrashes = 0
    MaxFaults = 0
    MaxCancels = 1
    MaxRetries = 0
PROPERTY CancelIsFinal
CHECK_DEADLOCK FALSE
