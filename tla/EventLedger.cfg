\* Two handlers race one and the other event through a queue of one item.
CONSTANTS
    Clients = {c1, c2}
    Events = {e1, e2}
    Digests = {d1,d2}
    Bodies = {allow,deny}
    MaxItems = 1
    MaxPendings = 2
    NoDigest = none
    ShortWrites = FALSE
SPECIFICATION FairSpec
INVARIANTS TypeOK AckedSurvives RetryGetsFirstResponse CleanLedgerIsProjected
PROPERTIES ImplementsResponseLog QueuedBeforeStopCompletes
CHECK_DEADLOCK FALSE
