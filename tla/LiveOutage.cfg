\* No trouble of any kind: the outage the controller makes itself is enough.
SPECIFICATION GateSpec
CONSTANTS
    Orch = Orch
    Worker = Worker
    RunId = RunId
    NoLatch = NoLatch
    NoOwner = NoOwner
    MaxStops = 4
    MaxTroubles = 0
INVARIANT OutageRetryNoticed
CHECK_DEADLOCK FALSE
