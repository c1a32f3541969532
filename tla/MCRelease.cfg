SPECIFICATION Spec
CONSTANTS
    Operators = {o1, o2}
    Surfaces = {s1, s2, s3}
    Receipts = {c1}
    NoReceipt = NoReceipt
    VALID_FOR = 1
    MaxTime = 1
    MaxEdits = 1
    MaxRequests = 2
    MaxCrashes = 1
    Commands = {h1, h2}
    None = None
    LIMIT = 2
    MaxMishaps = 1
    MaxVms = 2
    Orch = Orch
    Worker = Worker
    RunId = RunId
    NoLatch = NoLatch
    NoOwner = NoOwner
    MaxStops = 4
    MaxTroubles = 1
SYMMETRY Alike
INVARIANTS
    FixtureResumes
    ReceiptMeansDurable
    ReturnedMeansVerifiable
    OneMissionEver
    CleanSuccess
    WorkerVerdict
CHECK_DEADLOCK FALSE
