SPECIFICATION FairSpec
CONSTANTS
    MaxCycles = 1
    MaxReinvokes = 1
    ObjectingGates <- EveryRework
INVARIANT TypeOK
INVARIANT GatesPassedInOrder
INVARIANT RejectionBudget
INVARIANT EscalationEarned
PROPERTY ImplementsGatedDelivery
PROPERTY NoEndlessAutomaticLoop
CHECK_DEADLOCK FALSE
