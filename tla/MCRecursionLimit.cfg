SPECIFICATION InvocationSpec
CONSTANTS
    MaxCycles = 3
    MaxReinvokes = 0
    RecursionLimit = 100
    ObjectingGates <- LateGates
INVARIANT CyclesEndBeforeTheLimit
CHECK_DEADLOCK FALSE
