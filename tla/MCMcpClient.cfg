SPECIFICATION FairSpec
CONSTANTS
    ServerIds = {1, 2, 3}
    Timeout = 2
    TermWait = 1
    StderrWait = 1
    MaxLines = 3
    MaxEvents = 2
INVARIANT TypeOK
INVARIANT TakenForItsId
INVARIANT ProcessGone
INVARIANT EndsInTime
PROPERTY SessionEnds
CHECK_DEADLOCK FALSE
