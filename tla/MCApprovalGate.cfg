SPECIFICATION FairSpec
CONSTANTS
    p1 = p1
    p2 = p2
    Calls <- MCCalls
    MaxApprovals = 2
    MaxInterrupts = 1
INVARIANT TypeOK
INVARIANT ActsOnOwnDecision
INVARIANT RecordsAgree
INVARIANT NotesAreAnswers
PROPERTY UncontestedIsFinal
PROPERTY DecisionIsHeard
CHECK_DEADLOCK FALSE
