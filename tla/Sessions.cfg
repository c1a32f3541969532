SPECIFICATION BothSpec
CONSTANTS
    MaxSessions = 3
    Requests = 1
    Faults = {"prepare", "boundary", "unkillable", "exit", "home", "slow", "stuck", "late"}
    MaxFaults = 1
    Jobs = 3
    ProbeFaults = {"prepare", "boundary", "unkillable", "exit", "home", "slow", "stuck", "late", "disk"}
    ProbeMaxFaults = 2
INVARIANTS
    
    AnsweredAfterCleanup
    SessionsKeptInSight
PROPERTY
    UnsafeEndsProbing
