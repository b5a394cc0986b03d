CONSTANTS
    Fds <- MCFds
    NcIds <- MCNcIds
    IdleTime = 2
    NegoTimeout = 3
    PollInterval = 2
    MaxLate = 1
    MaxJumps = 1
    ListenCanFail = FALSE
    Null = Null
SPECIFICATION FairSpec
CHECK_DEADLOCK FALSE
INVARIANTS
    TypeOK HandlersConsistent TimersConsistent RoundLeavesNothingDue
PROPERTIES IdleExit NegotiationEnds
