SPECIFICATION BothSpec
CONSTANTS
    NoWorker = NoWorker
    NoOne = NoOne
    HoldTime = 1
    MaxSupport = 1
    MaxTime = 1
    MaxDeliveries = 1
    Ids = {1}
    Sessions = {"w1"}
    Target <- OneTarget
    Orchestrator = "w1"
    Workers = {}
    Scope = "worker"
    Featured = {}
    MaxPending <- OneEach
    Verdicts <- BlockerOnly
    Sources = {"diff", "test"}
    Faults = {}
    OtherIds = {1, 2}
    OtherSessions = {"w1", "w2"}
    OtherTarget <- TwoTargets
    OtherOrchestrator = "w1"
    OtherWorkers = {}
    OtherScope = "worker"
    OtherFeatured = {}
    OtherMaxPending <- NoneQueued
    OtherVerdicts <- BlockerOnly
    OtherSources = {}
    OtherFaults = {}
INVARIANT OutagesNeverDegradeTheLedger
CHECK_DEADLOCK FALSE
