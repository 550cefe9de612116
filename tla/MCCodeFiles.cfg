SPECIFICATION Spec
CONSTANTS
    LastAgent = 2
    Rounds <- MCRounds
    Paths = {p1}
    Lists <- MCLists
    MaxExecutions <- MCMaxExecutions
INVARIANT TypeOK
INVARIANT ObjectBehind
PROPERTY NeverOlder
CHECK_DEADLOCK FALSE
