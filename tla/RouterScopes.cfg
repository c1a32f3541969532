SPECIFICATION BothFairSpec
CONSTANTS
    NoWorker = NoWorker
    NoOne = NoOne
    HoldTime = 1
    MaxSupport = 1
    MaxTime = 1
    MaxDeliveries = 1
    Ids = {1}
    Sessions = {"w1"}
    Target <- OneTarget
    Orchestrator = "w1"
    Workers = {}
    Scope = "worker"
    Featured = {}
    MaxPending <- OneEach
    Verdicts <- AllVerdicts
    Sources = {"ack", "cancel", "termination_ack"}
    Faults = {"kill"}
    OtherIds = {1}
    OtherSessions = {"w1", "orch"}
    OtherTarget <- OneTarget
    OtherOrchestrator = "orch"
    OtherWorkers = {"fixer"}
    OtherScope = "mission"
    OtherFeatured = {1}
    OtherMaxPending <- OrchestratorOnly
    OtherVerdicts <- BlockerOnly
    OtherSources = {"repair", "worker_ack", "diff", "test"}
    OtherFaults = {}
INVARIANTS NoOpenBlockerReleased
PROPERTIES MovesAlwaysAllowed HeldBlockerEndsMission
CHECK_DEADLOCK FALSE
