SPECIFICATION Spec
CONSTANTS
    MaxCycles = 1
    MaxReinvokes = 0
    ObjectingGates <- EveryRework
INVARIANT RefusalForcesHumanReview
CHECK_DEADLOCK FALSE
